------------------------------ MODULE EmrSubmit ------------------------------
(***************************************************************************)
(* The two pure decisions the EMR runtime takes before it starts anything: *)
(* which spark-submit command a step stands for, and whether a start-up    *)
(* plan is accepted.  A command-line token is reduced to what the code     *)
(* looks at: whether it is an option, which sort of option, and whether it *)
(* carries its value inline ("--conf=a=b").                                *)
(***************************************************************************)
EXTENDS Integers, Sequences, FiniteSets

CONSTANTS
  StepConfigs,      \* HadoopJarStep values clients send
  StartupPlans,     \* documents emr.startup_clusters_file may hold
  ReleaseLabels,    \* emr.release_profiles
  MaxStartupSteps   \* EmrPolicy.max_active_steps

\* option: "resource" (--jars, --files, ...), "value" (another option of
\* option_value_names), "flag" (any other token that starts with a dash), "none".
Token(option, inline) == [option |-> option, inline |-> inline]

Refused == {}   \* an accepted command has at least its application to fetch

\* index of the first token that is neither an option nor an option's value; 0: none
ApplicationIndex(args) ==
  LET scan[i \in 1 .. Len(args) + 2] ==
        IF i > Len(args) THEN 0
        ELSE CASE args[i].option \in {"resource", "value"} -> scan[IF args[i].inline THEN i + 1 ELSE i + 2]
               [] args[i].option = "flag" -> scan[i + 1]
               [] OTHER -> i
  IN scan[1]

\* Positions of the resource lists; the scan knows no other option's value.
Dependencies(args) ==
  LET scan[i \in 1 .. Len(args) + 2] ==
        IF i > Len(args) THEN {}
        ELSE IF args[i].option # "resource" THEN scan[i + 1]
        ELSE IF args[i].inline THEN {i} \cup scan[i + 1]
        ELSE {i + 1} \cup scan[i + 2]
  IN scan[1]

\* SparkSubmitArtifactMaterializer: the positions whose resources are fetched
Materialized(args) ==
  LET dependencies == Dependencies(args)
  IN IF dependencies \ DOMAIN args # {} \/ ApplicationIndex(args) = 0
       THEN Refused
       ELSE dependencies \cup {ApplicationIndex(args)}

\* LocalSparkStepRunner._command
Command(config) ==
  IF ~config.commandRunner \/ config.args = << >> \/ ~config.alias
    THEN Refused
    ELSE Materialized(config.args)

\* _commands: one refused cluster refuses the plan
ValidPlan(plan) ==
  \A i \in DOMAIN plan :
    /\ plan[i].supported
    /\ \A j \in 1 .. i - 1 : plan[j].name # plan[i].name
    /\ plan[i].release \in ReleaseLabels
    /\ plan[i].steps <= MaxStartupSteps

\* load_startup_cluster_plan: without a file the plan is empty; one that cannot be read is refused
LoadedPlans == {plan \in StartupPlans \cup {<< >>} : ValidPlan(plan)}
=============================================================================
