---------------------------- MODULE GatewayProofs ----------------------------
(***************************************************************************)
(* Proofs about Gateway for any requests, messages, routes, families and   *)
(* fault policies.                                                         *)
(***************************************************************************)
EXTENDS Gateway, SequenceTheorems, TLAPS

-----------------------------------------------------------------------------
(***************************************************************************)
(* Detection does not depend on the order of a valid route table.          *)
(***************************************************************************)
\* A route table, position by position
LEMMA RoutesOfTable ==
  ASSUME NEW routes \in Seq(RouteFields)
  PROVE  /\ Len(routes) \in Nat /\ DOMAIN routes = 1 .. Len(routes)
         /\ \A i \in DOMAIN routes : routes[i] \in RouteFields
<1>1. Len(routes) \in Nat /\ DOMAIN routes = 1 .. Len(routes)
  BY LenProperties
<1> QED BY <1>1, ElementOfSeq

\* Two routes of a valid table never claim the same value of an attribute, in whatever case.
LEMMA ClaimsAreExclusive ==
  ASSUME NEW routes \in Seq(RouteFields), ValidRoutes(routes),
         NEW attribute \in {"targets", "signing", "hosts"},
         NEW i \in DOMAIN routes, NEW j \in DOMAIN routes,
         NEW v \in routes[i][attribute], NEW w \in routes[j][attribute], Folded[v] = Folded[w]
  PROVE  i = j
<1>1. routes[i][attribute] \subseteq DOMAIN Folded /\ routes[j][attribute] \subseteq DOMAIN Folded
  BY RoutesOfTable DEF RouteFields
<1>2. <<i, v>> \in Claims(routes, attribute) /\ <<j, w>> \in Claims(routes, attribute)
  BY <1>1 DEF Claims
<1>3. <<i, v>> = <<j, w>>
  BY <1>2 DEF ValidRoutes
<1> QED BY <1>3

\* Of a set of one position, the first is that position.
LEMMA FirstOfOne ==
  ASSUME NEW S, NEW i \in S, i \in Nat, \A j \in S : j = i
  PROVE  First(S) = i
<1>1. i \in S /\ \A j \in S : i <= j
  OBVIOUS
<1>2. First(S) \in S
  BY <1>1 DEF First
<1> QED BY <1>2

\* A set of positions that names at most one route, and its mirror image in the reversed table,
\* name the same.
LEMMA MirrorNamesTheSame ==
  ASSUME NEW routes \in Seq(RouteFields),
         NEW S \in SUBSET DOMAIN routes, \A i, j \in S : i = j,
         NEW T, T = {i \in DOMAIN routes : Len(routes) + 1 - i \in S}
  PROVE  /\ S = {} <=> T = {}
         /\ S # {} => routes[First(S)].name = Reversed(routes)[First(T)].name
<1>1. Len(routes) \in Nat /\ DOMAIN routes = 1 .. Len(routes)
  BY RoutesOfTable
<1>2. \A i \in DOMAIN routes : Len(routes) + 1 - i \in DOMAIN routes /\ Len(routes) + 1 - (Len(routes) + 1 - i) = i
  BY <1>1
<1>3. S = {} <=> T = {}
  BY <1>2
<1>4. ASSUME NEW i \in S
      PROVE  routes[First(S)].name = Reversed(routes)[First(T)].name
  <2>1. First(S) = i
    BY <1>1, FirstOfOne
  <2> DEFINE k == Len(routes) + 1 - i
  <2>2. k \in T /\ k \in Nat /\ Len(routes) + 1 - k = i
    BY <1>1, <1>2
  <2>3. \A j \in T : j = k
    BY <1>1, <1>2
  <2>4. First(T) = k
    BY <2>2, <2>3, FirstOfOne
  <2>5. Reversed(routes)[k] = routes[i]
    BY <2>2 DEF Reversed
  <2> QED BY <2>1, <2>4, <2>5
<1> QED BY <1>3, <1>4

\* The positions whose route has the evidence: those of the target, of the signing name, of the host
ByTarget(routes, m) == {i \in DOMAIN routes : m.target \in routes[i].targets}
BySigning(routes, m) ==
  IF m.signing = "" THEN {}
  ELSE {i \in DOMAIN routes : Folded[m.signing] \in {Folded[v] : v \in routes[i]["signing"]}}
ByHost(routes, m) == {i \in DOMAIN routes : Folded[m.host] \in {Folded[v] : v \in routes[i]["hosts"]}}

LEMMA DetectByEvidence ==
  ASSUME NEW routes, NEW m
  PROVE  /\ ByTarget(routes, m) # {} => Detect(routes, m) = routes[First(ByTarget(routes, m))].name
         /\ ByTarget(routes, m) = {} /\ BySigning(routes, m) # {} =>
              Detect(routes, m) = routes[First(BySigning(routes, m))].name
         /\ ByTarget(routes, m) = {} /\ BySigning(routes, m) = {} /\ ByHost(routes, m) # {} =>
              Detect(routes, m) = routes[First(ByHost(routes, m))].name
         /\ ByTarget(routes, m) = {} /\ BySigning(routes, m) = {} /\ ByHost(routes, m) = {} =>
              Detect(routes, m) = "fallback"
BY DEF Detect, ByTarget, BySigning, ByHost

\* The service a request belongs to is decided by its evidence, not by the order of the routes.
THEOREM DetectionIgnoresOrder ==
  ASSUME NEW routes \in RouteTables, ValidRoutes(routes), NEW m
  PROVE  Detect(Reversed(routes), m) = Detect(routes, m)
<1>0. routes \in Seq(RouteFields)
  BY GatewayAssumption
<1>1. Len(routes) \in Nat /\ DOMAIN routes = 1 .. Len(routes) /\ DOMAIN Reversed(routes) = DOMAIN routes
  BY <1>0, RoutesOfTable DEF Reversed
<1>2. \A i \in DOMAIN routes :
        Len(routes) + 1 - i \in DOMAIN routes /\ Reversed(routes)[i] = routes[Len(routes) + 1 - i]
  BY <1>1 DEF Reversed
<1> DEFINE Mirror(S) == {i \in DOMAIN routes : Len(routes) + 1 - i \in S}
<1>3. ByTarget(Reversed(routes), m) = Mirror(ByTarget(routes, m))
  BY <1>1, <1>2 DEF ByTarget
<1>4. BySigning(Reversed(routes), m) = Mirror(BySigning(routes, m))
  BY <1>1, <1>2 DEF BySigning
<1>5. ByHost(Reversed(routes), m) = Mirror(ByHost(routes, m))
  BY <1>1, <1>2 DEF ByHost
<1>6. \A i, j \in ByTarget(routes, m) : i = j
  BY <1>0, ClaimsAreExclusive, RoutesOfTable DEF ByTarget, RouteFields
<1>7. \A i, j \in BySigning(routes, m) : i = j
  BY <1>0, ClaimsAreExclusive DEF BySigning
<1>8. \A i, j \in ByHost(routes, m) : i = j
  BY <1>0, ClaimsAreExclusive DEF ByHost
<1>9. ByTarget(routes, m) \subseteq DOMAIN routes /\ BySigning(routes, m) \subseteq DOMAIN routes
      /\ ByHost(routes, m) \subseteq DOMAIN routes
  BY DEF ByTarget, BySigning, ByHost
<1> HIDE DEF Mirror
<1>10. \A S \in SUBSET DOMAIN routes : (\A i, j \in S : i = j) =>
         /\ S = {} <=> Mirror(S) = {}
         /\ S # {} => routes[First(S)].name = Reversed(routes)[First(Mirror(S))].name
  BY <1>0, MirrorNamesTheSame DEF Mirror
<1> QED BY <1>3, <1>4, <1>5, <1>6, <1>7, <1>8, <1>9, <1>10, DetectByEvidence
-----------------------------------------------------------------------------
(***************************************************************************)
(* What the endpoint answers                                               *)
(***************************************************************************)
LEMMA ResponseIsAnAnswer ==
  ASSUME NEW m
  PROVE  /\ Refusal(m) \in {"UnknownOperation", "Serialization", "Validation", "NotImplemented", "none"}
         /\ Result(m) \in {"ok", "refused", "error"}
         /\ Response(m) \in Answers /\ Failure(m) \in Answers
         /\ Endings(m) \subseteq Answers
<1>1. Refusal(m) \in {"UnknownOperation", "Serialization", "Validation", "NotImplemented", "none"}
  BY DEF Refusal
<1>2. Result(m) \in {"ok", "refused", "error"}
  BY DEF Result, EmrDecision, GlueDecision
<1>3. Response(m) \in Answers
  BY <1>1, <1>2 DEF Response, Answers, Refusals
<1>4. Failure(m) \in Answers
  BY DEF Failure, Answers
<1>5. Endings(m) \subseteq Answers
  BY <1>3, <1>4 DEF Endings, Answers
<1> QED BY <1>1, <1>2, <1>3, <1>4, <1>5

\* An AWS request that is not refused before its operation is answered with the operation's result.
LEMMA ResponseSaysWhatRan ==
  ASSUME NEW m \in Messages, m.kind = "aws"
  PROVE  /\ Response(m) = "ok" => Refusal(m) = "none" /\ ~Injected(m) /\ m.handler = "returns"
         /\ Response(m) \in Refusals \cup {"injected"} => Refusal(m) # "none" \/ Injected(m)
         /\ Response(m) = "refused" =>
              /\ Refusal(m) = "none" /\ ~Injected(m) /\ m.handler # "returns"
              /\ m.handler = "domain" \/ Destination(m) = "emr"
<1>1. Refusal(m) \in {"UnknownOperation", "Serialization", "Validation", "NotImplemented", "none"}
  BY ResponseIsAnAnswer
<1>2. Result(m) \in {"ok", "refused", "error"}
  BY ResponseIsAnAnswer
<1>3. Result(m) = "ok" => m.handler = "returns"
  BY DEF Result, EmrDecision, GlueDecision
<1>4. Result(m) = "refused" => m.handler # "returns" /\ (m.handler = "domain" \/ Destination(m) = "emr")
  BY DEF Result, EmrDecision, GlueDecision
<1> QED BY <1>1, <1>2, <1>3, <1>4 DEF Response, Refusals

\* The settings are read once: routes and faults are the same for every request.
LEMMA SettingsAreFixed ==
  ASSUME [GatewayNext]_gatewayVars
  PROVE  UNCHANGED settings
BY DEF GatewayNext, GatewayStarts, GatewayCloses, ClientIsClosed, Send, UpstreamFails, ResponseBegins,
       StreamBegins, Abandon, ResponseEnds, EndpointReceives, OperationRuns, gatewayVars, settings

LEMMA AnswersAreFixed ==
  ASSUME UNCHANGED settings, NEW m
  PROVE  /\ Destination(m)' = Destination(m) /\ Refusal(m)' = Refusal(m)
         /\ Injected(m)' <=> Injected(m)
         /\ Response(m)' = Response(m)
<1>1. table' = table /\ faults' = faults
  BY DEF settings
<1>2. Destination(m)' = Destination(m)
  BY <1>1 DEF Destination
<1>3. Refusal(m)' = Refusal(m)
  BY <1>2 DEF Refusal, Known
<1>4. Injected(m)' <=> Injected(m)
  BY <1>1, <1>2 DEF Injected
<1>5. Result(m)' = Result(m)
  BY <1>2 DEF Result
<1> QED BY <1>2, <1>3, <1>4, <1>5 DEF Response
-----------------------------------------------------------------------------
(***************************************************************************)
(* The inductive invariant                                                 *)
(***************************************************************************)
GatewayTyped ==
  /\ table \in RouteTables /\ ValidRoutes(table)
  /\ gateway \in GatewayStates /\ client \in {"none", "open", "closing", "closed"}
  /\ closing \in BOOLEAN /\ closes \in Nat
  /\ message \in [Requests -> Messages \cup {NoMessage}]
  /\ exchange \in [Requests -> {"none", "sent", "unstreamed", "reading", "done"}]
  /\ served \in [Requests -> {"none", "operation", "responded"}]
  /\ answer \in [Requests -> Answers]
  /\ upstream \subseteq Requests
  /\ effects = [r \in Requests |-> effects[r]]

\* What an operation that has run leaves behind
Effect(m) == IF m.handler = "returns" \/ m.partial THEN {Destination(m)} ELSE {}

\* Only an AWS request that nothing stops before it runs an operation, and it runs once.
ServedAsSent(r, m) ==
  /\ served[r] # "none" => Destination(m) # ""
  /\ served[r] = "operation" => m.kind = "aws" /\ Refusal(m) = "none" /\ ~Injected(m)
  /\ effects[r] = IF served[r] = "responded" /\ m.kind = "aws" /\ Refusal(m) = "none" /\ ~Injected(m)
                  THEN Effect(m) ELSE {}

\* A client is told what the service responded, or that the exchange failed.
AnsweredAsServed(r, m) ==
  /\ exchange[r] \in {"unstreamed", "reading"} => served[r] = "responded"
  /\ exchange[r] # "done" => answer[r] = "none"
  /\ exchange[r] = "done" =>
       \/ answer[r] = "NotFound" /\ Destination(m) = ""
       \/ answer[r] \in {"error", "unavailable", "disconnected"}
       \/ answer[r] = Response(m) /\ served[r] = "responded"

Unsent(r) ==
  /\ exchange[r] = "none" /\ message[r] = NoMessage /\ served[r] = "none" /\ effects[r] = {}
  /\ answer[r] = "none"

Honest(r) ==
  \/ Unsent(r)
  \/ /\ exchange[r] # "none"
     /\ \E m \in Messages : message[r] = m /\ ServedAsSent(r, m) /\ AnsweredAsServed(r, m)

RequestsAreHonest == \A r \in Requests : Honest(r)

GatewayHonest == GatewayTyped /\ RequestsAreHonest
-----------------------------------------------------------------------------
LEMMA GatewayHonestInit ==
  ASSUME GatewayInit
  PROVE  GatewayHonest
BY DEF GatewayInit, GatewayHonest, GatewayTyped, RequestsAreHonest, Honest, Unsent, GatewayStates, Answers

LEMMA GatewayTypedStep ==
  ASSUME GatewayTyped, [GatewayNext]_gatewayVars
  PROVE  GatewayTyped'
<1>0. UNCHANGED settings
  BY SettingsAreFixed
<1> USE <1>0 DEF GatewayTyped, GatewayStates, settings
<1>1. CASE GatewayStarts \/ GatewayCloses \/ ClientIsClosed \/ UNCHANGED gatewayVars
  <2>1. CASE GatewayStarts
    BY <2>1 DEF GatewayStarts
  <2>2. CASE GatewayCloses
    BY <2>2 DEF GatewayCloses
  <2>3. CASE ClientIsClosed
    BY <2>3 DEF ClientIsClosed
  <2>4. CASE UNCHANGED gatewayVars
    BY <2>4 DEF gatewayVars
  <2> QED BY <1>1, <2>1, <2>2, <2>3, <2>4
<1>2. ASSUME NEW r \in Requests, NEW m \in Messages, Send(r, m)
      PROVE  GatewayTyped'
  BY <1>2 DEF Send, Answered, Answers, Refusals
<1>3. ASSUME NEW r \in Requests, UpstreamFails(r)
      PROVE  GatewayTyped'
  BY <1>3, ResponseIsAnAnswer DEF UpstreamFails, Answered
<1>4. ASSUME NEW r \in Requests, ResponseBegins(r) \/ StreamBegins(r) \/ Abandon(r)
      PROVE  GatewayTyped'
  BY <1>4 DEF ResponseBegins, StreamBegins, Abandon, Answered, Answers
<1>5. ASSUME NEW r \in Requests, NEW a \in Endings(message[r]), ResponseEnds(r, a)
      PROVE  GatewayTyped'
  BY <1>5, ResponseIsAnAnswer DEF ResponseEnds, Answered
<1>6. ASSUME NEW r \in Requests, EndpointReceives(r) \/ OperationRuns(r)
      PROVE  GatewayTyped'
  BY <1>6 DEF EndpointReceives, OperationRuns
<1> QED BY <1>1, <1>2, <1>3, <1>4, <1>5, <1>6 DEF GatewayNext

\* A step of one request leaves the others as they are.
LEMMA OthersAreUntouched ==
  ASSUME UNCHANGED settings, NEW r \in Requests, Honest(r),
         message'[r] = message[r], exchange'[r] = exchange[r], served'[r] = served[r],
         effects'[r] = effects[r], answer'[r] = answer[r]
  PROVE  Honest(r)'
<1>1. CASE Unsent(r)
  BY <1>1 DEF Unsent, Honest
<1>2. ASSUME NEW m \in Messages, exchange[r] # "none", message[r] = m, ServedAsSent(r, m), AnsweredAsServed(r, m)
      PROVE  exchange'[r] # "none" /\ message'[r] = m /\ ServedAsSent(r, m)' /\ AnsweredAsServed(r, m)'
  BY <1>2, AnswersAreFixed DEF ServedAsSent, AnsweredAsServed, Effect
<1> QED BY <1>1, <1>2 DEF Honest

\* A request that was sent says what its message says.
LEMMA SentMessage ==
  ASSUME NEW r \in Requests, Honest(r), exchange[r] # "none"
  PROVE  message[r] \in Messages /\ ServedAsSent(r, message[r]) /\ AnsweredAsServed(r, message[r])
BY DEF Honest, Unsent

LEMMA HonestStep ==
  ASSUME GatewayHonest, [GatewayNext]_gatewayVars
  PROVE  RequestsAreHonest'
<1>0. UNCHANGED settings
  BY SettingsAreFixed
<1>a. GatewayTyped /\ \A r \in Requests : Honest(r)
  BY DEF GatewayHonest, RequestsAreHonest
<1>1. CASE GatewayStarts \/ GatewayCloses \/ ClientIsClosed \/ UNCHANGED gatewayVars
  <2>1. UNCHANGED <<message, exchange, served, effects, answer>>
    BY <1>1 DEF GatewayStarts, GatewayCloses, ClientIsClosed, gatewayVars
  <2> QED BY <1>0, <1>a, <2>1, OthersAreUntouched DEF RequestsAreHonest
<1>2. ASSUME NEW r \in Requests,
             \/ \E m \in Messages : Send(r, m)
             \/ UpstreamFails(r) \/ ResponseBegins(r) \/ StreamBegins(r) \/ Abandon(r)
             \/ (exchange[r] = "reading" /\ \E a \in Endings(message[r]) : ResponseEnds(r, a))
             \/ EndpointReceives(r) \/ OperationRuns(r)
      PROVE  RequestsAreHonest'
  <2>1. ASSUME NEW s \in Requests, s # r
        PROVE  Honest(s)'
    <3>1. /\ message'[s] = message[s] /\ exchange'[s] = exchange[s] /\ served'[s] = served[s]
          /\ effects'[s] = effects[s] /\ answer'[s] = answer[s]
      BY <1>2, <1>a, <2>1
      DEF GatewayTyped, Send, UpstreamFails, ResponseBegins, StreamBegins, Abandon, ResponseEnds, EndpointReceives,
          OperationRuns, Answered
    <3> QED BY <1>0, <1>a, <3>1, OthersAreUntouched
  <2>2. ASSUME NEW m \in Messages, Send(r, m)
        PROVE  Honest(r)'
    <3>1. Unsent(r)
      BY <1>a, <2>2 DEF Send, Honest
    <3>2. /\ message'[r] = m /\ served'[r] = "none" /\ effects'[r] = {}
          /\ \/ exchange'[r] = "sent" /\ answer'[r] = "none"
             \/ exchange'[r] = "done" /\ answer'[r] = "NotFound" /\ Destination(m) = ""
      BY <1>a, <2>2, <3>1 DEF Send, Answered, Unsent, GatewayTyped
    <3>3. ServedAsSent(r, m)' /\ AnsweredAsServed(r, m)'
      BY <1>0, <3>2, AnswersAreFixed DEF ServedAsSent, AnsweredAsServed
    <3> QED BY <3>2, <3>3 DEF Honest
  <2>3. ASSUME exchange[r] # "none", message'[r] = message[r], exchange'[r] # "none",
               \A m \in Messages :
                 message[r] = m /\ ServedAsSent(r, m) /\ AnsweredAsServed(r, m) =>
                   ServedAsSent(r, m)' /\ AnsweredAsServed(r, m)'
        PROVE  Honest(r)'
    BY <1>a, <2>3 DEF Honest, Unsent
  <2>4. ASSUME UpstreamFails(r) \/ ResponseBegins(r) \/ StreamBegins(r) \/ Abandon(r)
        PROVE  Honest(r)'
    <3>1. /\ exchange[r] # "none" /\ exchange'[r] # "none"
          /\ message'[r] = message[r] /\ served'[r] = served[r] /\ effects'[r] = effects[r]
          /\ \/ exchange'[r] \in {"unstreamed", "reading"} /\ answer'[r] = answer[r]
                /\ (served[r] = "responded" \/ exchange[r] = "unstreamed") /\ exchange[r] # "done"
             \/ exchange'[r] = "done" /\ answer'[r] \in {"error", "unavailable", "disconnected"}
      BY <1>a, <2>4
      DEF UpstreamFails, ResponseBegins, StreamBegins, Abandon, Answered, Failure, GatewayTyped
    <3>2. ASSUME NEW m \in Messages, message[r] = m, ServedAsSent(r, m), AnsweredAsServed(r, m)
          PROVE  ServedAsSent(r, m)' /\ AnsweredAsServed(r, m)'
      <4>1. Destination(m)' = Destination(m) /\ Refusal(m)' = Refusal(m) /\ (Injected(m)' <=> Injected(m))
            /\ Response(m)' = Response(m)
        BY <1>0, AnswersAreFixed
      <4>2. ServedAsSent(r, m)'
        BY <3>1, <3>2, <4>1 DEF ServedAsSent, Effect
      <4>3. AnsweredAsServed(r, m)'
        BY <3>1, <3>2, <4>1 DEF AnsweredAsServed
      <4> QED BY <4>2, <4>3
    <3> QED BY <2>3, <3>1, <3>2
  <2>5. ASSUME NEW a \in Endings(message[r]), exchange[r] = "reading", ResponseEnds(r, a)
        PROVE  Honest(r)'
    <3>1. /\ exchange'[r] = "done" /\ message'[r] = message[r] /\ served'[r] = served[r]
          /\ effects'[r] = effects[r] /\ answer'[r] = a
      BY <1>a, <2>5 DEF ResponseEnds, Answered, GatewayTyped
    <3>2. a = Response(message[r]) \/ a \in {"error", "unavailable", "disconnected"}
      BY DEF Endings, Failure
    <3> QED BY <1>0, <2>3, <2>5, <3>1, <3>2, AnswersAreFixed DEF ServedAsSent, AnsweredAsServed, Effect
  <2>6. ASSUME EndpointReceives(r)
        PROVE  Honest(r)'
    <3>1. /\ exchange[r] # "none" /\ exchange'[r] = exchange[r] /\ message'[r] = message[r]
          /\ effects'[r] = effects[r] /\ answer'[r] = answer[r] /\ served[r] = "none"
          /\ Destination(message[r]) # ""
          /\ served'[r] = IF message[r].kind = "aws" /\ Refusal(message[r]) = "none" /\ ~Injected(message[r])
                          THEN "operation" ELSE "responded"
      BY <1>a, <2>6 DEF EndpointReceives, GatewayTyped
    <3>2. ASSUME NEW m \in Messages, message[r] = m, ServedAsSent(r, m), AnsweredAsServed(r, m)
          PROVE  ServedAsSent(r, m)' /\ AnsweredAsServed(r, m)'
      <4>1. Destination(m)' = Destination(m) /\ Refusal(m)' = Refusal(m) /\ (Injected(m)' <=> Injected(m))
            /\ Response(m)' = Response(m)
        BY <1>0, AnswersAreFixed
      <4>2. ServedAsSent(r, m)'
        BY <3>1, <3>2, <4>1 DEF ServedAsSent, Effect
      <4>3. AnsweredAsServed(r, m)'
        BY <3>1, <3>2, <4>1 DEF AnsweredAsServed
      <4> QED BY <4>2, <4>3
    <3> QED BY <2>3, <3>1, <3>2
  <2>7. ASSUME OperationRuns(r)
        PROVE  Honest(r)'
    <3>1. exchange[r] # "none"
      BY <1>a, <2>7 DEF OperationRuns, Honest, Unsent
    <3>2. /\ exchange'[r] = exchange[r] /\ message'[r] = message[r] /\ answer'[r] = answer[r]
          /\ served[r] = "operation" /\ served'[r] = "responded"
          /\ effects'[r] = IF message[r].handler = "returns" \/ message[r].partial
                           THEN effects[r] \cup {Destination(message[r])} ELSE effects[r]
      BY <1>a, <2>7 DEF OperationRuns, GatewayTyped
    <3>3. ASSUME NEW m \in Messages, message[r] = m, ServedAsSent(r, m), AnsweredAsServed(r, m)
          PROVE  ServedAsSent(r, m)' /\ AnsweredAsServed(r, m)'
      <4>1. Destination(m)' = Destination(m) /\ Refusal(m)' = Refusal(m) /\ (Injected(m)' <=> Injected(m))
            /\ Response(m)' = Response(m)
        BY <1>0, AnswersAreFixed
      <4>2. ServedAsSent(r, m)'
        BY <3>2, <3>3, <4>1 DEF ServedAsSent, Effect
      <4>3. AnsweredAsServed(r, m)'
        BY <3>2, <3>3, <4>1 DEF AnsweredAsServed
      <4> QED BY <4>2, <4>3
    <3> QED BY <2>3, <3>1, <3>2, <3>3
  <2> QED BY <1>2, <2>1, <2>2, <2>4, <2>5, <2>6, <2>7 DEF RequestsAreHonest
<1> QED BY <1>1, <1>2 DEF GatewayNext
-----------------------------------------------------------------------------
(***************************************************************************)
(* The upstream pool                                                       *)
(***************************************************************************)
\* The client is closed once, when the server has drained its requests.
ClientFollowsRuntime ==
  /\ gateway \in {"NEW", "FAILED"} => \A r \in Requests : exchange[r] = "none"
  /\ gateway = "NEW" => client = "none"
  /\ gateway = "FAILED" => client \in {"none", "open"}
  /\ gateway = "STARTED" => client = "open"
  /\ gateway = "CLOSING" => client = "closing"
  /\ gateway = "CLOSED" => client \in {"none", "closed"} /\ upstream = {}
  /\ gateway \in {"CLOSING", "CLOSED"} <=> closing
  /\ closing => \A r \in Requests : exchange[r] \in {"none", "done"}
  /\ closes <= IF closing THEN 1 ELSE 0
  /\ client = "none" => upstream = {}

\* What is open upstream is being read, or was left by a client before it was streamed.
UpstreamIsHeld ==
  /\ \A r \in upstream : \/ exchange[r] \in {"unstreamed", "reading"}
                         \/ exchange[r] = "done" /\ message[r].kind = "ui" /\ answer[r] = "disconnected"
  /\ \A r \in Requests : exchange[r] = "unstreamed" => message[r].kind = "ui"

PoolInv == ClientFollowsRuntime /\ UpstreamIsHeld

LEMMA PoolStep ==
  ASSUME GatewayTyped, PoolInv, [GatewayNext]_gatewayVars
  PROVE  PoolInv'
<1> USE DEF GatewayTyped, GatewayStates, PoolInv, ClientFollowsRuntime, UpstreamIsHeld
<1>1. CASE GatewayStarts \/ UNCHANGED gatewayVars
  <2>1. CASE GatewayStarts
    BY <2>1 DEF GatewayStarts
  <2>2. CASE UNCHANGED gatewayVars
    BY <2>2 DEF gatewayVars
  <2> QED BY <1>1, <2>1, <2>2
<1>2. CASE GatewayCloses
  BY <1>2 DEF GatewayCloses
<1>3. CASE ClientIsClosed
  BY <1>3 DEF ClientIsClosed
<1>4. ASSUME NEW r \in Requests, NEW m \in Messages, Send(r, m)
      PROVE  PoolInv'
  <2>1. ClientFollowsRuntime'
    BY <1>4 DEF Send, Answered
  <2>2. exchange[r] = "none" /\ upstream' = upstream /\ exchange'[r] \in {"sent", "done"}
    BY <1>4 DEF Send, Answered
  <2>3. \A s \in Requests \ {r} :
          exchange'[s] = exchange[s] /\ message'[s] = message[s] /\ answer'[s] = answer[s]
    BY <1>4 DEF Send, Answered
  <2>4. UpstreamIsHeld'
    BY <2>2, <2>3
  <2> QED BY <2>1, <2>4
<1>5. ASSUME NEW r \in Requests, UpstreamFails(r) \/ ResponseBegins(r)
      PROVE  PoolInv'
  BY <1>5 DEF UpstreamFails, ResponseBegins, Answered
<1>6. ASSUME NEW r \in Requests, StreamBegins(r) \/ Abandon(r)
      PROVE  PoolInv'
  BY <1>6 DEF StreamBegins, Abandon, Answered
<1>7. ASSUME NEW r \in Requests, NEW a, ResponseEnds(r, a)
      PROVE  PoolInv'
  <2>1. ClientFollowsRuntime'
    BY <1>7 DEF ResponseEnds, Answered
  <2>2. UpstreamIsHeld'
    BY <1>7 DEF ResponseEnds, Answered
  <2> QED BY <2>1, <2>2
<1>8. ASSUME NEW r \in Requests, EndpointReceives(r) \/ OperationRuns(r)
      PROVE  PoolInv'
  <2>1. UNCHANGED <<gateway, client, closing, closes, message, exchange, upstream, answer>>
    BY <1>8 DEF EndpointReceives, OperationRuns
  <2> QED BY <2>1
<1> QED BY <1>1, <1>2, <1>3, <1>4, <1>5, <1>6, <1>7, <1>8 DEF GatewayNext
-----------------------------------------------------------------------------
(***************************************************************************)
(* The theorems                                                            *)
(***************************************************************************)
LEMMA GatewayTypedInvariant == GatewaySpec => []GatewayTyped
<1>1. GatewayInit => GatewayTyped
  BY GatewayHonestInit DEF GatewayHonest
<1>2. GatewayTyped /\ [GatewayNext]_gatewayVars => GatewayTyped'
  BY GatewayTypedStep
<1> QED BY <1>1, <1>2, PTL DEF GatewaySpec

LEMMA GatewayHonestInvariant == GatewaySpec => []GatewayHonest
<1>1. GatewayInit => GatewayHonest
  BY GatewayHonestInit
<1>2. GatewayHonest /\ [GatewayNext]_gatewayVars => GatewayHonest'
  BY GatewayTypedStep, HonestStep DEF GatewayHonest
<1> QED BY <1>1, <1>2, PTL DEF GatewaySpec

LEMMA PoolInvariant == GatewaySpec => []PoolInv
<1>1. GatewayInit => PoolInv
  BY DEF GatewayInit, PoolInv, ClientFollowsRuntime, UpstreamIsHeld
<1>2. GatewayTyped /\ PoolInv /\ [GatewayNext]_gatewayVars => PoolInv'
  BY PoolStep
<1> QED BY <1>1, <1>2, GatewayTypedInvariant, PTL DEF GatewaySpec

\* Every variable of the gateway stays in the shape the code gives it.
THEOREM GatewayTypeCorrect == GatewaySpec => []GatewayTypeOK
<1>1. GatewayTyped => GatewayTypeOK
  BY DEF GatewayTyped, GatewayTypeOK
<1> QED BY <1>1, GatewayTypedInvariant, PTL

\* The answer to an AWS request agrees with what happened, for any routes the settings accept, any
\* messages, families and fault policies.
THEOREM AnswersAlwaysTellTheEffect == GatewaySpec => []AnswersTellTheEffect
<1>1. ASSUME GatewayHonest
      PROVE  AnswersTellTheEffect
  <2> SUFFICES ASSUME NEW r \in Requests, message[r].kind = "aws"
               PROVE  /\ answer[r] = "ok" => effects[r] = {Detect(Reversed(table), message[r])}
                      /\ answer[r] \in Refusals \cup {"refused", "injected"} =>
                           effects[r] \subseteq {"emr", "fallback"}
                      /\ answer[r] \in Refusals \cup {"refused", "injected"} /\ ~message[r].partial =>
                           effects[r] = {}
    BY DEF AnswersTellTheEffect
  <2>1. CASE exchange[r] = "none"
    BY <1>1, <2>1 DEF GatewayHonest, RequestsAreHonest, Honest, Unsent, Refusals
  <2>2. CASE exchange[r] # "none"
    <3> DEFINE m == message[r]
    <3>1. m \in Messages /\ ServedAsSent(r, m) /\ AnsweredAsServed(r, m) /\ m.kind = "aws"
      BY <1>1, <2>2, SentMessage DEF GatewayHonest, RequestsAreHonest
    <3>2. Destination(m) = Detect(table, m) /\ table \in RouteTables /\ ValidRoutes(table)
      BY <1>1, <3>1 DEF Destination, GatewayHonest, GatewayTyped
    <3>3. Detect(Reversed(table), m) = Destination(m)
      BY <3>2, DetectionIgnoresOrder
    <3>4. m.partial /\ m.handler = "domain" => Destination(m) \in {"emr", "fallback"}
      BY <3>1, <3>2, PartialAssumption
    <3> HIDE DEF m
    <3>5. answer[r] \in {"ok", "refused", "injected"} \cup Refusals =>
            \/ answer[r] = "NotFound" /\ effects[r] = {}
            \/ answer[r] = Response(m) /\ served[r] = "responded"
      BY <3>1 DEF ServedAsSent, AnsweredAsServed, Refusals
    <3>6. /\ Response(m) = "ok" => Refusal(m) = "none" /\ ~Injected(m) /\ m.handler = "returns"
          /\ Response(m) \in Refusals \cup {"injected"} => Refusal(m) # "none" \/ Injected(m)
          /\ Response(m) = "refused" =>
               /\ Refusal(m) = "none" /\ ~Injected(m) /\ m.handler # "returns"
               /\ m.handler = "domain" \/ Destination(m) = "emr"
      BY <3>1, ResponseSaysWhatRan
    <3>7. answer[r] = "ok" => effects[r] = {Destination(m)}
      BY <3>1, <3>5, <3>6 DEF ServedAsSent, Effect
    <3>8. answer[r] \in Refusals \cup {"injected"} => effects[r] = {}
      BY <3>1, <3>5, <3>6 DEF ServedAsSent
    <3>9. answer[r] = "refused" =>
            effects[r] \subseteq {"emr", "fallback"} /\ (~m.partial => effects[r] = {})
      BY <3>1, <3>4, <3>5, <3>6 DEF ServedAsSent, Effect, Refusals
    <3> QED BY <3>3, <3>7, <3>8, <3>9 DEF m
  <2> QED BY <2>1, <2>2
<1> QED BY <1>1, GatewayHonestInvariant, PTL

\* The upstream pool is closed once and empty, and an answered request holds nothing of it but what
\* its client abandoned before the stream began.
THEOREM UpstreamIsAlwaysReleased == GatewaySpec => []UpstreamIsReleased
<1>1. GatewayTyped /\ PoolInv => UpstreamIsReleased
  BY DEF GatewayTyped, PoolInv, ClientFollowsRuntime, UpstreamIsHeld, UpstreamIsReleased
<1> QED BY <1>1, GatewayTypedInvariant, PoolInvariant, PTL
=============================================================================
