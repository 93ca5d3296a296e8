---------------------------- MODULE OcpConnector ----------------------------
(***************************************************************************)
(* The OpenShift connector process (infrastructure/ocp): serve_stdio takes *)
(* one tool call after the other and answers it behind a circuit breaker;  *)
(* a read is retried, a change needs the approval the process was started  *)
(* with and is sent once.  A tool sends one or more requests, the first of *)
(* which may be answered by the cache of the discovery.  The breaker is    *)
(* written to a file after every call, from which the application shows    *)
(* its state.                                                              *)
(***************************************************************************)
EXTENDS Naturals, ClusterTools

CONSTANTS
  Threshold,      (* BREAKER_THRESHOLD                                     *)
  Attempts        (* RetryPolicy::default().attempts                       *)

ASSUME ConnectorAssumption == Threshold \in Nat \ {0} /\ Attempts \in Nat \ {0}

VARIABLES
  breaker,    (* consecutive_failures, open_until, half_open_trial         *)
  serving,    (* the call being answered: tool, requests to do, attempt, whether one is sent *)
  discovered, (* API versions in the discovery cache                       *)
  approval,   (* the mutation the process was started with, and its state: none, unused, used *)
  probes,     (* history: calls that reached the server since a window ended *)
  changes     (* history: requests for a change sent                       *)

connectorVars == <<breaker, serving, discovered, approval, probes, changes>>

Idle == [tool |-> "none", todo |-> <<>>, attempt |-> 0, sent |-> FALSE, reached |-> FALSE]
Closed == [failures |-> 0, until |-> "none", trial |-> FALSE]

(* CircuitBreaker::state; the window is open until its end has passed.     *)
BreakerState(b) ==
  IF b.trial THEN "half_open"
  ELSE IF b.until = "open" THEN "open"
  ELSE IF b.failures >= Threshold THEN "half_open" ELSE "closed"

(* record_failure.  Bound: failures above the threshold are not told apart. *)
Failed(b) ==
  LET n == IF b.failures >= Threshold THEN b.failures ELSE b.failures + 1 IN
    IF n >= Threshold THEN [failures |-> n, until |-> "open", trial |-> FALSE]
    ELSE [b EXCEPT !.failures = n]

ConnectorInit ==
  /\ breaker = Closed
  /\ serving = Idle
  /\ discovered = {}
  /\ approval \in [of : Mutations, state : {"unused"}] \cup {[of |-> "nothing", state |-> "none"]}
  /\ probes = 0
  /\ changes = 0

(* The end of a tool call: its outcome is recorded and the state persisted, *)
(* or the file could not be written.  Permanent errors are not recorded.   *)
Answer(b, outcome) ==
  /\ breaker' = IF outcome = "ok" THEN Closed
                ELSE IF Permanent(outcome) THEN b ELSE Failed(b)
  /\ serving' = Idle
  /\ probes' = IF outcome = "ok" THEN 0 ELSE probes

-----------------------------------------------------------------------------
(* Mutant of Admitted: the trial call is not marked.                       *)
AdmittedUnmarked(b) ==
  IF BreakerState(b) = "closed" \/ (BreakerState(b) = "half_open" /\ ~b.trial) THEN {b} ELSE {}

(* allow: the breaker after it let a call through, or nothing.             *)
Admitted(b) ==
  CASE BreakerState(b) = "closed" -> {b}
    [] BreakerState(b) = "half_open" /\ ~b.trial -> {[b EXCEPT !.trial = TRUE]}
    [] OTHER -> {}

(* The refusal is an error of kind connect, which counts as a failure.     *)
RefuseCall ==
  /\ serving = Idle
  /\ Admitted(breaker) = {}
  /\ Answer(breaker, "connect")
  /\ UNCHANGED <<discovered, approval, changes>>

Begin(tool) ==
  [tool |-> tool, todo |-> RequestsOf(tool), attempt |-> 1, sent |-> FALSE, reached |-> FALSE]

(* A call that ends at once: an unknown tool, a change that is not the     *)
(* approved one, which is an ok result that asks for it, or one whose      *)
(* approval is used.                                                       *)
AnswerAtOnce ==
  /\ serving = Idle
  /\ \E b \in Admitted(breaker) :
       \/ Answer(b, "internal")
       \/ Answer(b, "ok")
       \/ approval.state = "used" /\ Answer(b, "config")
  /\ UNCHANGED <<discovered, approval, changes>>

(* The approval is used up before the arguments of the change are checked. *)
BeginCall(tool) ==
  /\ serving = Idle
  /\ tool \in Mutations => approval = [of |-> tool, state |-> "unused"]
  /\ \E b \in Admitted(breaker) : breaker' = b
  /\ serving' = Begin(tool)
  /\ approval' = IF tool \in Mutations THEN [approval EXCEPT !.state = "used"] ELSE approval
  /\ UNCHANGED <<discovered, probes, changes>>

NextRequest == Head(serving.todo)
Prepared == serving # Idle /\ ~serving.sent

(* The step of a call that needs no request, or not any more: discovery    *)
(* found in the cache, an error found before the next request.             *)
UseDiscovery ==
  /\ Prepared /\ NextRequest.verb = "discover" /\ NextRequest.version \in discovered
  /\ serving' = [serving EXCEPT !.todo = Tail(@)]
  /\ UNCHANGED <<breaker, discovered, approval, probes, changes>>

RefuseArguments ==
  /\ Prepared
  /\ \E error \in LocalErrors(serving.tool, NextRequest) :
       \/ Answer(breaker, error)
       \/ /\ FallsBack(NextRequest, error)
          /\ serving' = [serving EXCEPT !.todo = Legacy]
          /\ UNCHANGED <<breaker, probes>>
  /\ UNCHANGED <<discovered, approval, changes>>

SendRequest ==
  /\ Prepared /\ (NextRequest.verb = "discover" => NextRequest.version \notin discovered)
  /\ serving' = [serving EXCEPT !.sent = TRUE, !.reached = TRUE]
  /\ probes' = IF breaker.failures >= Threshold /\ ~serving.reached THEN probes + 1 ELSE probes
  /\ changes' = IF Changing(NextRequest) THEN changes + 1 ELSE changes
  /\ UNCHANGED <<breaker, discovered, approval>>

(* with_retry: a read starts over, with what was discovered meanwhile.     *)
Retries(error) ==
  Retryable(error) /\ serving.tool \notin Mutations /\ serving.attempt < Attempts

ReceiveAnswer ==
  /\ serving.sent
  /\ \E answer \in Statuses \cup Failures :
       LET result == ResultOf(serving.tool, NextRequest, answer) IN
       /\ discovered' = IF result = "ok" /\ NextRequest.verb = "discover"
                        THEN discovered \cup {NextRequest.version} ELSE discovered
       /\ IF FallsBack(NextRequest, result)
          THEN /\ serving' = [serving EXCEPT !.todo = Legacy, !.sent = FALSE]
               /\ UNCHANGED <<breaker, probes>>
          ELSE IF result = "ok" /\ Len(serving.todo) > 1
          THEN /\ serving' = [serving EXCEPT !.todo = Tail(@), !.sent = FALSE]
               /\ UNCHANGED <<breaker, probes>>
          ELSE IF Retries(result)
          THEN /\ serving' = [Begin(serving.tool) EXCEPT !.attempt = serving.attempt + 1, !.reached = TRUE]
               /\ UNCHANGED <<breaker, probes>>
          ELSE Answer(breaker, result)
  /\ UNCHANGED <<approval, changes>>

(* DISCOVERY_CACHE_TTL has passed.                                         *)
DiscoveryExpires ==
  /\ \E version \in discovered : discovered' = discovered \ {version}
  /\ UNCHANGED <<breaker, serving, approval, probes, changes>>

(* reset_after has passed since the window was opened.                     *)
WindowEnds ==
  /\ breaker.until = "open"
  /\ breaker' = [breaker EXCEPT !.until = "past"]
  /\ probes' = 0
  /\ UNCHANGED <<serving, discovered, approval, changes>>

ConnectorNext ==
  \/ RefuseCall \/ AnswerAtOnce \/ UseDiscovery \/ RefuseArguments
  \/ SendRequest \/ ReceiveAnswer \/ DiscoveryExpires \/ WindowEnds
  \/ \E tool \in Tools : BeginCall(tool)

ConnectorSpec == ConnectorInit /\ [][ConnectorNext]_connectorVars

-----------------------------------------------------------------------------
(* After Threshold failures the API server is asked by one call only until *)
(* that call, or an answer that needed no server, was a success, or else a *)
(* whole window has passed: also when the trial ends with an error that is *)
(* not recorded and leaves the trial taken.  And one approval sends one    *)
(* change, whatever became of it.                                          *)
BackendSpared == probes <= 1 /\ changes <= 1
=============================================================================
