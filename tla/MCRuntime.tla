------------------------------ MODULE MCRuntime ------------------------------
(***************************************************************************)
(* An instance of the EMR runtime, of the gateway and of what EMR clients  *)
(* are shown.  They share no variable, so each behaviour is of one of them *)
(* while the others rest in one of their initial states.                   *)
(***************************************************************************)
EXTENDS EmrLogStream, EmrConsole, Gateway, TLC

CONSTANTS e1, e2, e3

VARIABLE part    \* which of the three this behaviour is of

Options(kinds, inline) == [i \in DOMAIN kinds |-> Token(kinds[i], inline)]
Step(commandRunner, args) == [commandRunner |-> commandRunner, alias |-> TRUE, args |-> args]

MCStepConfigs == {
  Step(TRUE, Options(<<"value", "none", "resource", "none", "none">>, FALSE)),
  Step(TRUE, Options(<<"flag", "resource">>, TRUE)),
  Step(FALSE, Options(<<"none">>, FALSE))}

Cluster(name, release) == [name |-> name, supported |-> TRUE, release |-> release, steps |-> 1]
MCStartupPlans == {<< >>, <<Cluster("a", "emr-7")>>, <<Cluster("a", "emr-1")>>}

Session(executions, boot, published, stops, broken, attempts, output, services) ==
  [executions |-> executions, bootstrap |-> boot, logUri |-> published, requests |-> stops,
   failing |-> broken, maxAttempts |-> attempts, maxOutput |-> output, maxStarts |-> services]

MCSessions == {
  Session({e1}, {}, {e1}, {"terminate"}, {}, 1, 2, 2),
  Session({e1}, {}, {e1}, {"cancel"}, {}, 2, 1, 2),
  Session({e1}, {}, {e1}, {}, {"read", "verdict", "outbox"}, 1, 1, 2),
  Session({e1}, {}, {e1}, {"cancel"}, {"journal", "unlink"}, 1, 1, 2),
  Session({e2}, {e2}, {}, {"cancel"}, {}, 1, 0, 2),
  Session({e2}, {}, {}, {"cancel", "terminate"}, {}, 1, 1, 2),
  Session({e2, e3}, {}, {}, {"cancel"}, {}, 1, 0, 1),
  Session({e2, e3}, {}, {}, {}, {"unlink"}, 1, 0, 1)}
-----------------------------------------------------------------------------
Scope(reads, filters, ever, steps, again) ==
  [reads |-> reads, filters |-> filters, clusters |-> ever, steps |-> steps, restarts |-> again]

Of(states) == [NoFilter EXCEPT !.states = states]

MCScopes == {
  Scope("clusters", {NoFilter, Of({"WAITING"}), [NoFilter EXCEPT !.before = 1], [NoFilter EXCEPT !.after = 2]}, 4, 0, 1),
  Scope("steps", {NoFilter, Of({"PENDING", "RUNNING"})}, 1, 3, 1),
  Scope("resources", {}, 2, 2, 1)}
-----------------------------------------------------------------------------
Lower(v) ==
  CASE v = "AWSGlue" -> "awsglue"
    [] v = "Glue" -> "glue"
    [] v \in {"ElasticMapReduce", "ELASTICMAPREDUCE"} -> "elasticmapreduce"
    [] OTHER -> v

MCFolded ==
  [v \in {"AWSGlue", "awsglue", "Glue", "glue", "ElasticMapReduce", "ELASTICMAPREDUCE", "elasticmapreduce",
          "emr", "other", ""} |-> Lower(v)]

MCTargetPrefix == [glue |-> "AWSGlue", emr |-> "ElasticMapReduce"]

Route(name, targets, signing, hosts) ==
  [name |-> name, targets |-> targets, signing |-> signing, hosts |-> hosts]

\* A table may write the prefix of a target in a case clients do not use.
Glue == Route("glue", {"AWSGlue"}, {"glue"}, {"Glue"})
Emr(target) == Route("emr", {target}, {"elasticmapreduce"}, {"emr"})

MCRouteTables == {
  <<Glue, Emr("ElasticMapReduce")>>, <<Emr("ELASTICMAPREDUCE"), Glue>>, <<Glue>>,
  <<Emr("ELASTICMAPREDUCE"), [Glue EXCEPT !.signing = {"elasticmapreduce"}]>>,
  <<Glue, [Emr("ElasticMapReduce") EXCEPT !.hosts = {"glue"}]>>,
  <<Emr("AWSGlue"), Glue>>,
  <<Glue, [Emr("ElasticMapReduce") EXCEPT !.name = "glue"]>>}

MCFamilies == [glue |-> <<{"GetTable"}, {"BatchCreatePartition"}>>, emr |-> <<{"TerminateJobFlows"}>>]
MCImplemented == [glue |-> {"GetTable", "BatchCreatePartition"}, emr |-> {"TerminateJobFlows"}]

Rule(id, operation) == [id |-> id, operation |-> operation, error |-> "OperationTimeoutException"]

MCFaultPolicies == {
  [enabled |-> FALSE, rules |-> <<Rule("slow", "GetTable")>>],
  [enabled |-> TRUE, rules |-> <<Rule("slow", "GetTable")>>],
  [enabled |-> TRUE, rules |-> <<Rule("slow", "GetTable"), Rule("late", "GetTable")>>]}

Aws(target, signing, host, body, operation, handler) ==
  [kind |-> "aws", target |-> target, signing |-> signing, host |-> host, component |-> "", dots |-> FALSE,
   body |-> body, operation |-> operation, input |-> {}, output |-> {}, handler |-> handler, partial |-> FALSE]

Page(kind, component, dots) ==
  [Aws("", "", "", "object", "", "returns") EXCEPT !.kind = kind, !.component = component, !.dots = dots]

Partial(m) == [m EXCEPT !.partial = TRUE]

MCMessages == {
  Aws("AWSGlue", "glue", "glue", "object", "GetTable", "returns"),
  Aws("awsglue", "", "emr", "object", "GetTable", "returns"),
  [Aws("ElasticMapReduce", "elasticmapreduce", "other", "empty", "TerminateJobFlows", "returns")
     EXCEPT !.output = {"enum"}],
  Aws("ElasticMapReduce", "elasticmapreduce", "other", "object", "TerminateJobFlows", "returns"),
  Partial(Aws("ElasticMapReduce", "", "emr", "object", "TerminateJobFlows", "domain")),
  Aws("ElasticMapReduce", "", "emr", "object", "TerminateJobFlows", "mapping"),
  Aws("AWSGlue", "", "other", "malformed", "GetTable", "returns"),
  [Aws("AWSGlue", "", "other", "object", "BatchCreatePartition", "returns") EXCEPT !.input = {"pattern"}],
  Aws("AWSGlue", "", "glue", "object", "", "returns"),
  Aws("AWSGlue", "glue", "other", "object", "CreateCrawler", "other"),
  Aws("AWSGlue", "glue", "other", "object", "BatchCreatePartition", "domain"),
  Partial(Aws("AWSGlue", "glue", "other", "object", "BatchCreatePartition", "storage")),
  Aws("ElasticMapReduce", "", "glue", "object", "TerminateJobFlows", "other"),
  Aws("", "", "other", "object", "GetTable", "returns"),
  Page("ui", "glue", FALSE), Page("ui", "glue", TRUE), Page("management", "emr", FALSE)}
-----------------------------------------------------------------------------
Resting(name) ==
  /\ name # "emr" => session = CHOOSE s \in Sessions : TRUE
  /\ name # "console" => scope = CHOOSE s \in Scopes : TRUE
  /\ name # "gateway" => table = CHOOSE routes \in RouteTables : ValidRoutes(routes)
  /\ name # "gateway" => faults = CHOOSE policy \in FaultPolicies : ValidFaults(policy)

Init == /\ LogInit /\ ConsoleInit /\ GatewayInit
        /\ part \in {"emr", "console", "gateway"} /\ Resting(part)

Next ==
  \/ part = "emr" /\ LogNext /\ UNCHANGED <<part, consoleVars, gatewayVars>>
  \/ part = "console" /\ ConsoleNext /\ UNCHANGED <<part, executionVars, streamVars, gatewayVars>>
  \/ part = "gateway" /\ GatewayNext /\ UNCHANGED <<part, executionVars, streamVars, consoleVars>>

Spec == Init /\ [][Next]_<<part, executionVars, streamVars, consoleVars, gatewayVars>>
=============================================================================
