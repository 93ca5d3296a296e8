-------------------------- MODULE OcpConfiguration --------------------------
(***************************************************************************)
(* The files of the OpenShift connector (infrastructure/ocp/mod.rs and     *)
(* config.rs) and the commands of lib.rs that write them: a draft and a    *)
(* last-known-good configuration, the credentials, and the environment     *)
(* kept in the secrets store.  Every file is replaced by a rename, but no  *)
(* lock spans two of them: the commands run on a pool and interleave.      *)
(*                                                                         *)
(* A spec is what compute_checksum covers: the fields of the form, the name *)
(* given to the connector, and which secrets are set, but not their values. *)
(***************************************************************************)
EXTENDS Naturals, ClusterIdentity

CONSTANTS
  Specs,          (* specs a form may hold                                 *)
  Named,          (* those with a name for the connector                   *)
  Tokens,         (* secrets                                               *)
  NoFile          (* a file that does not exist                            *)

ASSUME ConfigurationAssumption == NoFile \notin Specs \cup Tokens /\ Named \subseteq Specs

VARIABLES
  draft,          (* draft.json: spec and preflight_passed                 *)
  good,           (* last-known-good.json: the spec                        *)
  credentials,    (* credentials.json                                      *)
  environment,    (* OPENSHIFT_TOKEN in the secrets store                  *)
  writer,         (* a save or rotation under way                          *)
  preflight,      (* a preflight under way                                 *)
  tested          (* history: specs whose server did not refuse the identity *)

configurationVars == <<draft, good, credentials, environment, writer, preflight, tested>>

Resting == [at |-> "none"]

ConfigurationInit ==
  /\ draft = NoFile
  /\ good = NoFile
  /\ credentials = NoFile
  /\ environment = NoFile
  /\ writer = Resting
  /\ preflight = Resting
  /\ tested = {}

-----------------------------------------------------------------------------
(* ocp_save_draft: the credentials, of the form or those there are, then   *)
(* the draft, then the environment.  It may fail in between.               *)
SaveDraft(spec, token) ==
  /\ writer = Resting
  /\ credentials' = token
  /\ writer' \in {[at |-> "draft", spec |-> spec], Resting}
  /\ UNCHANGED <<draft, good, environment, preflight, tested>>

WriteDraft ==
  /\ writer.at = "draft"
  /\ draft' = [spec |-> writer.spec, passed |-> FALSE]
  /\ writer' \in {[at |-> "environment"], Resting}
  /\ UNCHANGED <<good, credentials, environment, preflight, tested>>

(* effective_credentials reads the file again.                             *)
WriteEnvironment ==
  /\ writer.at = "environment"
  /\ environment' = credentials
  /\ writer' = Resting
  /\ UNCHANGED <<draft, good, credentials, preflight, tested>>

(* ocp_rotate_credentials: the credentials are written before it is known  *)
(* that there is a draft.                                                  *)
Rotate(token) ==
  /\ writer = Resting
  /\ credentials' = token
  /\ writer' \in {[at |-> "reset"], Resting}
  /\ UNCHANGED <<draft, good, environment, preflight, tested>>

ResetPreflight ==
  /\ writer.at = "reset"
  /\ IF draft = NoFile
     THEN writer' = Resting /\ UNCHANGED <<draft, good>>
     ELSE /\ draft' = [draft EXCEPT !.passed = FALSE]
          /\ good' \in {NoFile, good}
          /\ writer' \in {[at |-> "environment"], Resting}
  /\ UNCHANGED <<credentials, environment, preflight, tested>>

(* delete_connector stops at the first file it cannot remove.              *)
DeleteConnector ==
  /\ writer = Resting
  /\ draft' = NoFile
  /\ \E n \in 0..3 :
       /\ good' = IF n >= 1 THEN NoFile ELSE good
       /\ credentials' = IF n >= 2 THEN NoFile ELSE credentials
       /\ environment' = IF n >= 3 THEN NoFile ELSE environment
  /\ UNCHANGED <<writer, preflight, tested>>

(* ocp_worker_server, for every agent run or test with the connector: the  *)
(* credentials are written again from the environment.                     *)
StartConnector ==
  /\ environment # NoFile
  /\ credentials' = environment
  /\ UNCHANGED <<draft, good, environment, writer, preflight, tested>>

-----------------------------------------------------------------------------
(* ocp_preflight tests what the form holds, saved or not, but without the  *)
(* name: with the effective credentials, against a cluster.                *)
StartPreflight(spec) ==
  /\ preflight = Resting
  /\ preflight' = [at |-> "resolve", spec |-> spec]
  /\ UNCHANGED <<draft, good, credentials, environment, writer, tested>>

Answers == Statuses \cup Failures
Stage(passed, next) ==
  preflight' = IF passed THEN [preflight EXCEPT !.at = next] ELSE Resting

(* The stages run_preflight goes through until one that is required fails: *)
(* environment, config and DNS; connectivity; authentication; RBAC.        *)
(* Of all the clusters a form can name, those that pass the first.         *)
Resolutions ==
  {FromKubeconfig(kube) : kube \in Kubeconfigs} \cup {FromPod(pod) : pod \in Pods}
    \cup {FromServer(server, secrets, Blank) : server \in Texts, secrets \in Secrets}
FirstStages == {Presentable(cluster) : cluster \in Resolutions}

ResolveTested ==
  /\ preflight.at = "resolve"
  /\ \E passed \in FirstStages : Stage(passed, "connect")
  /\ UNCHANGED <<draft, good, credentials, environment, writer, tested>>

AskServer ==
  /\ preflight.at = "connect"
  /\ \E answer \in Answers : Stage(ServerAnswers(answer), "identify")
  /\ UNCHANGED <<draft, good, credentials, environment, writer, tested>>

TestIdentity ==
  /\ preflight.at = "identify"
  /\ \E answer \in Answers :
       /\ Stage(IdentityAccepted(answer), "rights")
       /\ tested' = IF answer \notin {"401", "403", "timeout", "dns", "tls", "refused"}
                    THEN tested \cup {preflight.spec} ELSE tested
  /\ UNCHANGED <<draft, good, credentials, environment, writer>>

TestRights ==
  /\ preflight.at = "rights"
  /\ \E granted \in {RightsGranted(pods, "success") : pods \in Answers}
                    \cup {RightsGranted("success", deployments) : deployments \in Answers} :
       Stage(granted, "passed")
  /\ UNCHANGED <<draft, good, credentials, environment, writer, tested>>

(* Mutant of ReadTested: any draft is marked.                              *)
ReadAnyDraft ==
  /\ preflight.at = "passed"
  /\ preflight' =
       IF draft # NoFile
       THEN [at |-> "mark", spec |-> draft.spec] ELSE [at |-> "promote"]
  /\ UNCHANGED <<draft, good, credentials, environment, writer, tested>>

(* The draft is read, and marked only if its checksum is the tested one.   *)
ReadTested ==
  /\ preflight.at = "passed"
  /\ preflight' =
       IF draft # NoFile /\ draft.spec = preflight.spec
       THEN [at |-> "mark", spec |-> draft.spec] ELSE [at |-> "promote"]
  /\ UNCHANGED <<draft, good, credentials, environment, writer, tested>>

MarkDraft ==
  /\ preflight.at = "mark"
  /\ draft' \in {[spec |-> preflight.spec, passed |-> TRUE], draft}
  /\ preflight' = [at |-> "promote"]
  /\ UNCHANGED <<good, credentials, environment, writer, tested>>

(* promote_draft_to_last_known_good: whatever the draft is now.            *)
PromoteDraft ==
  /\ preflight.at = "promote"
  /\ good' \in {IF draft = NoFile THEN good ELSE draft.spec, good}
  /\ preflight' = Resting
  /\ UNCHANGED <<draft, credentials, environment, writer, tested>>

ConfigurationNext ==
  \/ \E spec \in Specs, token \in Tokens : SaveDraft(spec, token)
  \/ \E token \in Tokens : Rotate(token)
  \/ WriteDraft \/ WriteEnvironment \/ ResetPreflight
  \/ DeleteConnector \/ StartConnector
  \/ \E spec \in Specs \ Named : StartPreflight(spec)
  \/ ResolveTested \/ AskServer \/ TestIdentity \/ TestRights \/ ReadTested \/ MarkDraft \/ PromoteDraft

ConfigurationSpec == ConfigurationInit /\ [][ConfigurationNext]_configurationVars

-----------------------------------------------------------------------------
(* A draft that is marked as passed holds a spec that a server was asked   *)
(* about and did not refuse, however saves, rotations and deletions came in *)
(* between: the test ran on the form, and the mark is put on a file.       *)
MarkedDraftsWereTested ==
  draft # NoFile /\ draft.passed => draft.spec \in tested
=============================================================================
