--------------------------- MODULE ClusterIdentity ---------------------------
(***************************************************************************)
(* Which cluster the OpenShift connector talks to, and as whom.  The       *)
(* answer is worked out twice: by a preflight, from the form of the        *)
(* settings (resolve_cluster_from_spec), and by the connector process,     *)
(* from the environment that was stored when the form was saved            *)
(* (resolve_cluster).  And what a preflight asks of that cluster before it *)
(* passes (ocp/preflight.rs).                                              *)
(***************************************************************************)
EXTENDS ClusterTools

CONSTANTS
  Texts,          (* values of a field of the form, of a token or of a certificate *)
  Blank           (* a field that is empty or only spaces (trim_to_opt)    *)

ASSUME IdentityAssumption == Blank \notin Texts

Fields == Texts \cup {Blank}
AuthModes == {"kubeconfig", "api_server_token", "in_cluster"}

(* The fields of OcpConfigSpec that say which cluster it is.               *)
Forms ==
  [mode : AuthModes, kubeconfig : Fields, context : Fields, server : Fields, namespace : Fields]
(* effective_credentials: of the form, or else those stored.               *)
Secrets == [token : Fields, ca : Fields]

(* OcpConfigSpec::validate; token_set says that there is a token.          *)
Valid(form, secrets) ==
  /\ form.mode = "kubeconfig" => form.kubeconfig # Blank
  /\ form.mode = "api_server_token" => form.server # Blank /\ secrets.token # Blank

-----------------------------------------------------------------------------
(* Resolved clusters *)

Unresolved == [found |-> FALSE]
Cluster(server, ca, credentials, namespace) ==
  [found |-> TRUE, server |-> server, ca |-> ca, credentials |-> credentials,
   namespace |-> namespace]

Anonymous == <<"anonymous", Blank>>
Bearer(token) == <<"bearer", token>>
Pair(kind, text) == <<kind, text>>

(* A kubeconfig as its context shows it, with the first of these that its  *)
(* user has: of a token file the content counts, which may be empty; of a  *)
(* certificate the key must be there too ("half": it is not, or a file     *)
(* cannot be read); an exec plugin is refused.                             *)
UserKinds == {"token", "token_file", "certificate", "password", "half", "exec", "none"}
Kubeconfigs ==
  [complete : BOOLEAN, server : Fields, ca : Fields, namespace : Fields,
   user : UserKinds, secret : Fields]

(* validate_server_url, of a text that stands for an https address with a  *)
(* host, or for none.                                                      *)
Https(server) == server # Blank

(* resolve_user_credentials                                                *)
UserFails(kube) == kube.user \in {"half", "exec"}
CredentialsOf(kube) ==
  CASE kube.user = "token" /\ kube.secret # Blank -> Bearer(kube.secret)
    [] kube.user = "token_file" -> Bearer(kube.secret)
    [] kube.user = "certificate" -> Pair("certificate", kube.secret)
    [] kube.user = "password" /\ kube.secret # Blank -> Pair("password", kube.secret)
    [] OTHER -> Anonymous

(* parse_kubeconfig: a file that can be read, with the context asked for   *)
(* and that context's cluster.                                             *)
FromKubeconfig(kube) ==
  IF ~kube.complete \/ ~Https(kube.server) \/ UserFails(kube) THEN Unresolved
  ELSE Cluster(kube.server, kube.ca, CredentialsOf(kube), kube.namespace)

(* build_api_server_config                                                 *)
FromServer(server, secrets, namespace) ==
  IF ~Https(server) \/ secrets.token = Blank THEN Unresolved
  ELSE Cluster(server, secrets.ca, Bearer(secrets.token), namespace)

(* build_in_cluster_config, of the service account of the pod the          *)
(* application runs in, if it does; its token may be empty.                *)
Pods == [present : BOOLEAN, server : Texts, ca : Fields, token : Fields]
FromPod(pod) ==
  IF ~pod.present THEN Unresolved
  ELSE Cluster(pod.server, pod.ca, Bearer(pod.token), Blank)

(* What the files say: a kubeconfig per path and context, and the pod.     *)
Worlds == [kubeconfig : [Fields -> [Fields -> Kubeconfigs]], pod : Pods]

(* resolve_cluster_from_spec                                               *)
FromForm(form, secrets, world) ==
  IF ~Valid(form, secrets) THEN Unresolved
  ELSE IF form.mode = "kubeconfig"
       THEN FromKubeconfig(world.kubeconfig[form.kubeconfig][form.context])
  ELSE IF form.mode = "api_server_token" THEN FromServer(form.server, secrets, form.namespace)
  ELSE FromPod(world.pod)

-----------------------------------------------------------------------------
(* The environment *)

(* ocp_environment: a field the mode has no use for is left out.           *)
EnvironmentOf(form, secrets) ==
  [server |-> IF form.mode = "api_server_token" THEN form.server ELSE Blank,
   kubeconfig |-> IF form.mode = "kubeconfig" THEN form.kubeconfig ELSE Blank,
   context |-> form.context, namespace |-> form.namespace, secrets |-> secrets]

(* ocp_mode_from_env: the stored mode is not asked.                        *)
ModeOf(env) ==
  IF env.server # Blank THEN "api_server_token"
  ELSE IF env.kubeconfig # Blank THEN "kubeconfig" ELSE "in_cluster"

(* resolve_cluster.  The connector process reads the credentials file that *)
(* ocp_worker_server wrote from the environment; an anonymous kubeconfig   *)
(* is given the stored token.                                              *)
FromEnvironment(env, world) ==
  IF ModeOf(env) = "kubeconfig"
  THEN LET cluster == FromKubeconfig(world.kubeconfig[env.kubeconfig][env.context]) IN
       IF cluster.found /\ cluster.credentials = Anonymous /\ env.secrets.token # Blank
       THEN Cluster(cluster.server, cluster.ca, Bearer(env.secrets.token), cluster.namespace)
       ELSE cluster
  ELSE IF ModeOf(env) = "api_server_token"
       THEN FromServer(env.server, env.secrets, env.namespace)
  ELSE FromPod(world.pod)

-----------------------------------------------------------------------------
(* Preflight *)

(* check_environment, check_config: a token may be empty, a certificate    *)
(* that could not be read may not.                                         *)
HasIdentity(cluster) == cluster.credentials # Anonymous
IsComplete(cluster) ==
  Https(cluster.server) /\ cluster.credentials # Pair("certificate", Blank)
Presentable(cluster) == cluster.found /\ HasIdentity(cluster) /\ IsComplete(cluster)

(* check_dns, check_connectivity: GET /version, sent once.                 *)
ServerAnswers(answer) == answer = "success"
(* check_auth: the pods of the namespace are listed as ocp_get_pods lists  *)
(* them, so that a server in trouble counts as one that accepts.           *)
IdentityAccepted(answer) == ResultOf("list_kind", Direct("list"), answer) = "ok"
(* check_rbac: the lists of pods and deployments are required; those of    *)
(* namespaces and nodes and the logs of a pod only warn.                   *)
RightsGranted(pods, deployments) == IdentityAccepted(pods) /\ IdentityAccepted(deployments)
=============================================================================
