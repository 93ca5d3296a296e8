---------------------------- MODULE ClusterTools ----------------------------
(***************************************************************************)
(* The tools of the OpenShift connector (ocp/tools.rs): the requests each  *)
(* of them sends to the API server (ocp/client.rs), and what an answer or  *)
(* a failure of the transport counts as (ocp/errors.rs).                   *)
(*                                                                         *)
(* Tools that differ only in the kind of object they name are one tool.    *)
(***************************************************************************)
EXTENDS Sequences

(* kubernetes_resources_*, and the events and namespaces lists: they look  *)
(* their resource up in the discovery of its apiVersion first.             *)
GenericChanges == {"create", "update", "patch", "delete"}
GenericReads == {"list_resource", "get_resource", "events", "namespaces"}
(* is_mutation                                                             *)
Mutations == GenericChanges \cup {"restart", "scale", "delete_pod"}
(* ocp_get_*: a list of a kind the cluster may lack is an empty one.       *)
Reads == GenericReads \cup {"list_kind", "list_core", "get_pod", "logs"}
Tools == Mutations \cup Reads

(* A request and, of v1 ("core"), events.k8s.io/v1 ("events") and any other *)
(* apiVersion, the one it is about.                                        *)
Asking(verb, version) == [verb |-> verb, version |-> version]
Discover(version) == Asking("discover", version)
Discovered(version, verb) == <<Discover(version), Asking(verb, version)>>
Direct(verb) == Asking(verb, "none")

(* The resource is looked up for every one of these, also for a create or  *)
(* an update, whose manifest names it.                                     *)
ReadGenerically(verb) == Discovered("other", verb)
ChangeGenerically(verb) == Discovered("other", verb)
ListNamespaces == Discovered("core", "list")
ListEvents == Discovered("events", "list")

(* execute_tool                                                            *)
RequestsOf(tool) ==
  CASE tool = "events" -> ListEvents
    [] tool = "namespaces" -> ListNamespaces
    [] tool = "list_resource" -> ReadGenerically("list")
    [] tool = "get_resource" -> ReadGenerically("get")
    [] tool \in GenericChanges -> ChangeGenerically(tool)
    [] tool \in {"restart", "scale"} -> <<Direct("patch")>>
    [] tool = "delete_pod" -> <<Direct("get"), Direct("delete")>>
    [] tool \in {"list_kind", "list_core"} -> <<Direct("list")>>
    [] tool \in {"get_pod", "logs"} -> <<Direct("get")>>

Changing(request) == request.verb \in GenericChanges

-----------------------------------------------------------------------------
(* Answers *)

Statuses == {"success", "401", "403", "404", "409", "422", "503", "418"}
Failures == {"timeout", "dns", "tls", "refused", "garbled"}

(* handle_api_status and translate_reqwest_error                           *)
ErrorOf(answer) ==
  CASE answer = "401" -> "auth"
    [] answer = "403" -> "forbidden"
    [] answer = "404" -> "not_found"
    [] answer = "409" -> "conflict"
    [] answer = "422" -> "invalid_manifest"
    [] answer = "503" -> "server_error"
    [] answer \in {"418", "garbled"} -> "api"
    [] answer \in {"timeout", "dns", "tls"} -> answer
    [] answer = "refused" -> "connect"

Retryable(error) == error \in {"connect", "timeout", "dns", "server_error"}

Permanent(error) ==
  error \in {"config", "auth", "forbidden", "not_found", "conflict", "discovery",
             "invalid_manifest", "tls"}

(* What one request of a tool comes to: nothing wrong, or an error.  A list *)
(* of one kind takes not-found and every API error, also that of a server  *)
(* in trouble, for an empty list; a body without items is an API error.    *)
ResultOf(tool, request, answer) ==
  IF answer = "success" THEN "ok"
  ELSE LET error == ErrorOf(answer) IN
       IF request.verb = "discover" /\ error = "not_found" THEN "discovery"
       ELSE IF tool = "list_kind" /\ error \in {"not_found", "server_error", "api"} THEN "ok"
       ELSE error

(* Errors found without asking: a missing or malformed argument, also the  *)
(* pod's lack of a controller; a namespace that is missing or one too many *)
(* for the resource discovered; a manifest or patch that does not say what *)
(* it is about; a resource or a verb that the discovery does not list.     *)
BadArgument == {"config"}
BadScope == {"config"}
BadManifest == {"invalid_manifest", "config"}
BadPatch == {"invalid_manifest"}
NotServed == {"discovery"}

LocalErrors(tool, request) ==
  LET looked == request.verb # "discover" IN
  CASE tool \in {"events", "namespaces"} -> IF looked THEN BadArgument \cup NotServed ELSE {}
    [] tool \in {"create", "update"} -> BadManifest \cup NotServed
    [] tool = "patch" -> BadArgument \cup NotServed \cup (IF looked THEN BadScope \cup BadPatch ELSE {})
    [] tool \in GenericReads \cup {"delete"} -> BadArgument \cup BadScope \cup NotServed
    [] OTHER -> BadArgument

(* Where events.k8s.io/v1 is not served, or has no events, those of v1 are *)
(* asked for; a discovery that lists no verb for them is an error.         *)
FallsBack(request, error) == request.version = "events" /\ error = "discovery"
Legacy == Discovered("core", "list")
=============================================================================
