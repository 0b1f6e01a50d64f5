------------------------------- MODULE Gateway -------------------------------
(***************************************************************************)
(* The proxy in front of the services, and the AWS JSON endpoint each      *)
(* service answers with: a client's request is routed by the evidence it   *)
(* carries, forwarded over the one shared HTTP client, validated and       *)
(* dispatched by the service, and its answer or its failure travels back.  *)
(*                                                                         *)
(* An action is what one task does between two awaits that really suspend: *)
(* a network exchange, an operation of the service, the close of the       *)
(* client.  Headers, URLs and bodies are reduced to what the code tells    *)
(* apart; letter case is kept, because one side folds it and one does not. *)
(***************************************************************************)
EXTENDS Integers, Sequences, FiniteSets

CONSTANTS
  Requests,       \* requests clients ever send
  Messages,       \* what a request may say, see MessageFields
  RouteTables,    \* proxy.routes documents
  Folded,         \* Folded[v]: v in lower case
  TargetPrefix,   \* for every service of Mystack: the X-Amz-Target prefix of its model
  Families,       \* for every service: its operation families, each a set of operations
  Implemented,    \* for every service: the reviewed inventory of its operations
  FaultPolicies   \* glue.fault_injection documents

\* What a document may violate: the types and members botocore validates, and the constraints
\* it leaves to the server.
Violations == {"type", "maximum", "enum", "pattern"}

\* OperationFamilyRegistry.dispatcher: no operation of two families, none missing, none unexpected
ValidFamilies(families, expected) ==
  /\ \A i \in DOMAIN families : families[i] # {}
  /\ \A i, j \in DOMAIN families : i # j => families[i] \cap families[j] = {}
  /\ UNION {families[i] : i \in DOMAIN families} = expected

MessageFields ==
  [kind : {"aws", "management", "ui"},
   target : STRING, signing : STRING, host : STRING,   \* evidence; "" when absent
   component : STRING, dots : BOOLEAN,                 \* path of a management or UI request
   body : {"object", "empty", "malformed", "array"},
   operation : STRING,                                 \* "" when the service model has no such one
   input : SUBSET Violations, output : SUBSET Violations,   \* what payload and result violate
   handler : {"returns", "domain", "mapping", "storage", "other"},   \* how the operation ends
   partial : BOOLEAN]      \* whether a part of it took effect before it ended otherwise

\* A ServiceRoute of ProxySettings: whatever it names has a lower case.
RouteFields ==
  [name : STRING, targets : SUBSET DOMAIN Folded, signing : SUBSET DOMAIN Folded, hosts : SUBSET DOMAIN Folded]

\* The families of a service are complete, or it does not start.
ASSUME GatewayAssumption ==
  /\ Messages \subseteq MessageFields
  /\ RouteTables \subseteq Seq(RouteFields)
  /\ \A service \in DOMAIN Families : ValidFamilies(Families[service], Implemented[service])

VARIABLES
  table,          \* ProxySettings.routes
  faults,         \* the fault injection policy of the Glue service
  gateway,        \* ProxyRuntime._state
  client,         \* ProxyRuntime._client
  closing,        \* ProxyRuntime._closed
  closes,         \* history: how often the client was asked to close
  message,        \* the request as it was sent
  exchange,       \* where its task in the proxy is
  served,         \* where its task in the service is
  upstream,       \* requests whose upstream response is open
  effects,        \* services whose operation took effect for the request
  answer          \* what the client got

gatewayVars == <<table, faults, gateway, client, closing, closes, message, exchange, served, upstream, effects, answer>>

settings == <<table, faults>>

GatewayStates == {"NEW", "STARTED", "FAILED", "CLOSING", "CLOSED"}
NoMessage == [kind |-> "none"]
\* What the endpoint answers before an operation is called, or instead of it.
Refusals == {"UnknownOperation", "Serialization", "Validation", "NotImplemented", "NotFound"}
Answers == {"none", "disconnected", "ok", "refused", "error", "unavailable", "injected"} \cup Refusals
-----------------------------------------------------------------------------
(* Routes *)

\* The claims of a table on an attribute
Claims(routes, attribute) ==
  {claim \in (DOMAIN routes) \X (DOMAIN Folded) : claim[2] \in routes[claim[1]][attribute]}

Mut_OneTargetPerRoute(routes) ==
  /\ \A i, j \in DOMAIN routes : routes[i].name = routes[j].name => i = j
  /\ \A c, d \in Claims(routes, "targets") : Folded[c[2]] = Folded[d[2]] => c = d

\* _validate_routes
ValidRoutes(routes) ==
  /\ \A i, j \in DOMAIN routes : routes[i].name = routes[j].name => i = j
  /\ \A attribute \in {"targets", "signing", "hosts"} :
       \A c, d \in Claims(routes, attribute) : Folded[c[2]] = Folded[d[2]] => c = d

First(positions) == CHOOSE i \in positions : \A j \in positions : i <= j

\* AwsServiceDetector.detect: a target prefix as it is written, the others folded.  The fallback
\* is another AWS emulator, taken to answer by the same protocol.
Detect(routes, m) ==
  LET named(attribute, value) ==
        {i \in DOMAIN routes : Folded[value] \in {Folded[v] : v \in routes[i][attribute]}}
      byTarget == {i \in DOMAIN routes : m.target \in routes[i].targets}
      bySigning == IF m.signing = "" THEN {} ELSE named("signing", m.signing)
      byHost == named("hosts", m.host)
  IN CASE byTarget # {}  -> routes[First(byTarget)].name
       [] byTarget = {} /\ bySigning # {} -> routes[First(bySigning)].name
       [] byTarget = {} /\ bySigning = {} /\ byHost # {} -> routes[First(byHost)].name
       [] OTHER -> "fallback"

\* An operation of Glue is a transaction: what its domain refuses leaves nothing behind.  Only EMR
\* and the fallback take the parts of a request one after the other.
ASSUME PartialAssumption ==
  \A routes \in RouteTables, m \in Messages :
    ValidRoutes(routes) /\ m.partial /\ m.handler = "domain" => Detect(routes, m) \in {"emr", "fallback"}

Components(routes) == {routes[i].name : i \in DOMAIN routes}

\* Where a request goes; "" when the proxy answers it itself.
Destination(m) ==
  IF m.kind = "aws" THEN Detect(table, m)
  ELSE IF m.component \in Components(table) /\ ~(m.kind = "ui" /\ m.dots) THEN m.component ELSE ""

(* The endpoint of a service: what it answers to a message, operation included *)

\* _operation_name and the service model: the target has to carry the prefix of the service
\* itself, whatever evidence has led the request here, and name an operation.
Known(m) ==
  m.operation # "" /\ (Destination(m) = "fallback" \/ m.target = TargetPrefix[Destination(m)])

\* botocore's validator, and the constraints it leaves to the server
ParameterErrors(violations) == violations \cap {"type"}
MaximumErrors(violations) == violations \cap {"maximum"}
PatternErrors(violations) == violations \cap {"pattern"}
ConstraintErrors(violations) ==
  MaximumErrors(violations) \cup PatternErrors(violations) \cup (violations \cap {"enum"})

\* validate and validate_output make the same checks, one before the operation, one after it.
InputIsValid(m) == ParameterErrors(m.input) \cup ConstraintErrors(m.input) = {}
OutputIsValid(m) == ParameterErrors(m.output) \cup ConstraintErrors(m.output) = {}

\* OperationDispatcher.operations
Operations(service) == UNION {Families[service][i] : i \in DOMAIN Families[service]}

\* The checks before the operation, in their order; an empty body is an empty object.
Refusal(m) ==
  IF ~Known(m) THEN "UnknownOperation"
  ELSE IF m.body \in {"malformed", "array"} THEN "Serialization"
  ELSE IF ~InputIsValid(m) THEN "Validation"
  ELSE IF Destination(m) # "fallback" /\ m.operation \notin Operations(Destination(m)) THEN "NotImplemented"
  ELSE "none"

\* GlueFaultInjector: at most one rule per operation, each for a supported operation
ValidFaults(policy) ==
  /\ \A i, j \in DOMAIN policy.rules :
       policy.rules[i].id = policy.rules[j].id \/ policy.rules[i].operation = policy.rules[j].operation => i = j
  /\ \A i \in DOMAIN policy.rules :
       /\ policy.rules[i].id # ""
       /\ policy.rules[i].operation \in Implemented["glue"]
       /\ policy.rules[i].error \in {"InternalServiceException", "OperationTimeoutException"}

\* before_operation: an injected failure is answered instead of the operation.
Injected(m) ==
  /\ Destination(m) = "glue" /\ faults.enabled
  /\ \E i \in DOMAIN faults.rules : faults.rules[i].operation = m.operation

\* GlueErrorBoundary: what the domain refuses is the client's fault, a mapping or a storage
\* failure is the service's.
GlueDecision(ending) == IF ending = "domain" THEN "refused" ELSE "error"

\* The EMR families take a mapping failure for an invalid request too.
EmrDecision(ending) == IF ending \in {"domain", "mapping"} THEN "refused" ELSE "error"

\* What the operation's result or failure is answered with
Result(m) ==
  IF m.handler = "returns" THEN (IF OutputIsValid(m) THEN "ok" ELSE "error")
  ELSE IF Destination(m) = "emr" THEN EmrDecision(m.handler) ELSE GlueDecision(m.handler)

\* What the response of the service says
Response(m) ==
  IF m.kind # "aws" THEN "ok"
  ELSE IF Refusal(m) # "none" THEN Refusal(m)
  ELSE IF Injected(m) THEN "injected" ELSE Result(m)

-----------------------------------------------------------------------------
GatewayInit ==
  /\ table \in {routes \in RouteTables : ValidRoutes(routes)}
  /\ faults \in {policy \in FaultPolicies : ValidFaults(policy)}
  /\ gateway = "NEW" /\ client = "none" /\ closing = FALSE /\ closes = 0
  /\ message = [r \in Requests |-> NoMessage]
  /\ exchange = [r \in Requests |-> "none"]
  /\ served = [r \in Requests |-> "none"]
  /\ upstream = {}
  /\ effects = [r \in Requests |-> {}]
  /\ answer = [r \in Requests |-> "none"]
-----------------------------------------------------------------------------
(* ProxyRuntime *)

\* start has no await unless the construction fails; then it closes what it created.
GatewayStarts ==
  /\ gateway = "NEW"
  /\ \/ gateway' = "STARTED" /\ client' = "open"
     \/ gateway' = "FAILED" /\ client' \in {"none", "open"}
  /\ UNCHANGED <<settings, closing, closes, message, exchange, served, upstream, effects, answer>>

\* aclose, by start after a failure and by the lifespan: the first call closes.
\* The server has drained its requests before the lifespan ends.
GatewayCloses ==
  /\ gateway \in {"STARTED", "FAILED"} /\ ~closing
  /\ \A r \in Requests : exchange[r] \in {"none", "done"}
  /\ closing' = TRUE
  /\ IF client = "open"
       THEN gateway' = "CLOSING" /\ client' = "closing" /\ closes' = closes + 1
       ELSE gateway' = "CLOSED" /\ UNCHANGED <<client, closes>>
  /\ UNCHANGED <<settings, message, exchange, served, upstream, effects, answer>>

\* The close of the client ends, with an error or not: its pool is gone.
ClientIsClosed ==
  /\ gateway = "CLOSING"
  /\ gateway' = "CLOSED"
  /\ client' = "closed"
  /\ upstream' = {}
  /\ UNCHANGED <<settings, closing, closes, message, exchange, served, effects, answer>>
-----------------------------------------------------------------------------
(* A request through the proxy *)

Answered(r, a) ==
  /\ answer' = [answer EXCEPT ![r] = a]
  /\ exchange' = [exchange EXCEPT ![r] = "done"]

Send(r, m) ==
  /\ gateway = "STARTED" /\ exchange[r] = "none"
  /\ message' = [message EXCEPT ![r] = m]
  /\ IF Destination(m) = ""
       THEN Answered(r, "NotFound")
       ELSE exchange' = [exchange EXCEPT ![r] = "sent"] /\ UNCHANGED answer
  /\ UNCHANGED <<settings, gateway, client, closing, closes, served, upstream, effects>>

\* What the client is told when the service cannot be reached or does not answer in time,
\* whatever the service does with the request: the AWS forwarder lets the error through.
Failure(m) == IF m.kind = "aws" THEN "error" ELSE "unavailable"

UpstreamFails(r) ==
  /\ exchange[r] = "sent"
  /\ Answered(r, Failure(message[r]))
  /\ UNCHANGED <<settings, gateway, client, closing, closes, message, served, upstream, effects>>

\* The response has begun: it stays open until it is read to its end.
ResponseBegins(r) ==
  /\ exchange[r] = "sent" /\ served[r] = "responded"
  /\ upstream' = upstream \cup {r}
  /\ exchange' = [exchange EXCEPT ![r] = IF message[r].kind = "ui" THEN "unstreamed" ELSE "reading"]
  /\ UNCHANGED <<settings, gateway, client, closing, closes, message, served, effects, answer>>

StreamBegins(r) ==
  /\ exchange[r] = "unstreamed"
  /\ exchange' = [exchange EXCEPT ![r] = "reading"]
  /\ UNCHANGED <<settings, gateway, client, closing, closes, message, served, upstream, effects,
                 answer>>

\* How reading a response may end; a client that goes away is noticed while it streams.
Endings(m) ==
  {Response(m), IF m.kind = "ui" THEN "error" ELSE Failure(m)} \cup
    (IF m.kind = "ui" THEN {"disconnected"} ELSE {})

Mut_KeepsFailedResponse(r, a) ==
  /\ exchange[r] = "reading"
  /\ Answered(r, a)
  /\ upstream' = IF a \in {"error", "unavailable"} THEN upstream ELSE upstream \ {r}
  /\ UNCHANGED <<settings, gateway, client, closing, closes, message, served, effects>>

\* The finally block closes the response whichever way it ends.
ResponseEnds(r, a) ==
  /\ exchange[r] = "reading"
  /\ Answered(r, a)
  /\ upstream' = upstream \ {r}
  /\ UNCHANGED <<settings, gateway, client, closing, closes, message, served, effects>>

\* The client goes before the first byte of a UI response: its body never begins,
\* and neither does the finally block that closes the upstream response.
Abandon(r) ==
  /\ exchange[r] = "unstreamed"
  /\ Answered(r, "disconnected")
  /\ UNCHANGED <<settings, gateway, client, closing, closes, message, served, upstream, effects>>
-----------------------------------------------------------------------------
(* AwsJsonRpcEndpoint, in the service the request was sent to *)

EndpointReceives(r) ==
  /\ exchange[r] # "none" /\ Destination(message[r]) # "" /\ served[r] = "none"
  /\ LET m == message[r]
     IN served' = [served EXCEPT ![r] =
          IF m.kind = "aws" /\ Refusal(m) = "none" /\ ~Injected(m) THEN "operation" ELSE "responded"]
  /\ UNCHANGED <<settings, gateway, client, closing, closes, message, exchange, upstream, effects,
                 answer>>

\* The operation takes effect, refuses or fails; its output is validated only then.
OperationRuns(r) ==
  /\ served[r] = "operation"
  /\ LET m == message[r]
     IN effects' = [effects EXCEPT ![r] =
          IF m.handler = "returns" \/ m.partial THEN @ \cup {Destination(m)} ELSE @]
  /\ served' = [served EXCEPT ![r] = "responded"]
  /\ UNCHANGED <<settings, gateway, client, closing, closes, message, exchange, upstream, answer>>

GatewayNext ==
  \/ GatewayStarts \/ GatewayCloses \/ ClientIsClosed
  \/ \E r \in Requests :
       \/ \E m \in Messages : Send(r, m)
       \/ UpstreamFails(r) \/ ResponseBegins(r) \/ StreamBegins(r) \/ Abandon(r)
       \/ (exchange[r] = "reading" /\ \E a \in Endings(message[r]) : ResponseEnds(r, a))
       \/ EndpointReceives(r) \/ OperationRuns(r)

GatewaySpec == GatewayInit /\ [][GatewayNext]_gatewayVars
-----------------------------------------------------------------------------
\* The values the variables take; above all, whatever an operation fails with, the client is told
\* one of the answers of the services or of the proxy (_translate, GlueErrorTranslator, ProxyRuntime).
GatewayTypeOK ==
  /\ gateway \in GatewayStates /\ client \in {"none", "open", "closing", "closed"}
  /\ closing \in BOOLEAN /\ closes \in Nat
  /\ \A r \in Requests :
       /\ message[r] \in Messages \cup {NoMessage}
       /\ exchange[r] \in {"none", "sent", "unstreamed", "reading", "done"}
       /\ served[r] \in {"none", "operation", "responded"}
       /\ answer[r] \in Answers
  /\ upstream \subseteq Requests

Reversed(routes) == [i \in DOMAIN routes |-> routes[Len(routes) + 1 - i]]

\* The answer to an AWS request agrees with what happened: a success means that exactly one
\* service did it, the one its evidence belongs to however the routes are ordered; a refusal or
\* an injected fault that no service did anything, unless the request is one of several parts that
\* EMR or the fallback takes one after the other (AwsServiceDetector.detect, _validate_routes, AwsJsonRpcEndpoint.__call__,
\* GlueErrorBoundary, GlueFaultInjector).
AnswersTellTheEffect ==
  \A r \in Requests : message[r].kind = "aws" =>
    /\ answer[r] = "ok" => effects[r] = {Detect(Reversed(table), message[r])}
    /\ answer[r] \in Refusals \cup {"refused", "injected"} => effects[r] \subseteq {"emr", "fallback"}
    /\ answer[r] \in Refusals \cup {"refused", "injected"} /\ ~message[r].partial => effects[r] = {}

\* An answered request holds no upstream response of the shared pool, unless its client left
\* before a UI response began to stream, and the pool is closed once, with nothing left in it
\* (AwsRequestForwarder.forward, HttpServiceUiForwarder.forward, ProxyRuntime.aclose).
UpstreamIsReleased ==
  /\ \A r \in upstream : exchange[r] = "done" => message[r].kind = "ui" /\ answer[r] = "disconnected"
  /\ closes <= 1 /\ (gateway = "CLOSED" => upstream = {} /\ client # "open")
=============================================================================
