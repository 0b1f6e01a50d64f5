--------------------------- MODULE ReleasePipeline ---------------------------
(***************************************************************************)
(* How a version of the repository becomes a release: the version files a  *)
(* developer updates, the branch policy, the pre-flight scans and the gate *)
(* that authorizes a publication, the tag and release transactions against *)
(* GitHub, and the resumable publication of the images.                    *)
(*                                                                         *)
(* The scripts hold no state of their own: the workflow that calls them is *)
(* modelled as a stage per run.  A run is named by its commit.  GitHub and *)
(* the registry are shared with people; any call to them may fail, before  *)
(* or after it took effect, and a failed run may be started again.         *)
(***************************************************************************)
EXTENDS Integers, Sequences, FiniteSets

CONSTANTS
  Derived,            \* the managed files of version-files.json, without VERSION
  FirstVersion,       \* StableVersion the tree starts at
  Targets,            \* versions `version.py set` is asked for
  Components, Platforms,
  Reports,            \* what Trivy may report of an image: sets of [coordinate, severity]
  Exceptions,         \* scan.exceptions of the release configuration: [coordinate, components]
  FailSeverities,     \* scan.fail_severities
  MaxCommits, MaxReruns, MaxForeignTags     \* bounds of the model

\* StableVersion: three numbers
ASSUME PipelineAssumption ==
  /\ Targets \cup {FirstVersion} \subseteq Nat \X Nat \X Nat
  /\ MaxCommits \in Nat

VARIABLES
  tree,          \* the version every managed file shows
  update,        \* version.py set or bump: what it has still to write
  commits,       \* what was pushed: the files, and the branch
  stage,         \* where the run of a commit is
  failed,        \* runs whose stage has failed
  reruns,        \* bound: how often runs were started again
  evidence,      \* preflight.json records of a run
  authorization, \* gate.json of a run
  published,     \* components whose publish job has succeeded
  images,        \* the registry: component, tag and revision label
  tags,          \* GitHub: the commit of every stable tag
  releases,      \* GitHub releases
  expired,       \* the configured vulnerability exception has expired
  scanned,       \* history: scans that have passed
  order,         \* history: the stable versions the pipeline has tagged
  foreign        \* bound: tags somebody else has pushed

registry == <<images, tags, releases>>
sources == <<tree, update, commits>>
history == <<scanned, order>>
reports == <<evidence, authorization>>
pipelineVars == <<sources, stage, failed, reruns, reports, published, registry, expired, history, foreign>>

Authority == "VERSION"
Files == Derived \cup {Authority}
CommitIds == 1 .. MaxCommits
Pushed == DOMAIN commits
NoVersion == << >>      \* there is no version to compare with
NoTag == 0
Lightweight == -1      \* a tag that is not annotated
-----------------------------------------------------------------------------
(* Stable versions *)

Less(a, b) == \E i \in 1 .. 3 : a[i] < b[i] /\ \A j \in 1 .. i - 1 : a[j] = b[j]

Bump(v, part) ==
  CASE part = "major" -> <<v[1] + 1, 0, 0>>
    [] part = "minor" -> <<v[1], v[2] + 1, 0>>
    [] part = "patch" -> <<v[1], v[2], v[3] + 1>>

\* VersionSynchronizer.expected: every managed file, rendered for a version
Expected(v) == [f \in Files |-> v]

\* drift: the files that do not show the version
Drift(files, v) == {f \in Files : files[f] # Expected(v)[f]}

\* check: no file differs from what VERSION says.
Agree(files) == Drift(files, files[Authority]) = {}

Mut_AnyUnusedVersion(current, base, released) == current \notin released

\* _ensure_incrementing
Incrementing(current, base, released) ==
  /\ base # NoVersion => Less(base, current)
  /\ \A v \in released : Less(v, current)

\* _ensure_releasable: a version that exists may only be resumed at its own commit, and it
\* still has to be the greatest.
Releasable(current, base, tagged, released, commit, tagCommit) ==
  LET exists == current \in tagged \cup released
  IN /\ exists => tagCommit = commit
     /\ (exists \/ base # current) => Incrementing(current, base, (tagged \cup released) \ {current})

VersionOf(c) == commits[c].files[Authority]
Stable(c) == commits[c].branch = "main"

NoLabel == [stable |-> NoVersion, snapshot |-> 0]

\* What images are tagged with: a snapshot names its run, which is its commit here.
Label(c) == [stable |-> VersionOf(c), snapshot |-> IF Stable(c) THEN 0 ELSE c]

Mut_ResumeAnything(expected, actual) == IF actual = NoTag THEN "create" ELSE "resume"

\* decide_binding
Binding(expected, actual) ==
  CASE actual = NoTag    -> "create"
    [] actual = expected -> "resume"
    [] OTHER             -> "refused"

\* BranchPublicationPolicy: only a direct push whose CI has succeeded publishes.
PublicationAction(context) ==
  LET authorized == /\ context.event = "workflow_run" /\ context.workflow = "CI"
                    /\ context.conclusion = "success" /\ context.source = "push"
  IN CASE context.event \in {"push", "pull_request"}       -> "validate"
       [] authorized /\ context.branch = "develop"          -> "snapshot-publish"
       [] authorized /\ context.branch = "main"             -> "release-publish"
       [] OTHER                                             -> "deny"

\* resolve: what the run of a commit publishes, and as which version
Plan(context, c) ==
  LET action == PublicationAction(context)
  IN [action |-> action,
      label |-> IF action \in {"snapshot-publish", "release-publish"} THEN Label(c) ELSE NoLabel]
-----------------------------------------------------------------------------
(* Scans and their evidence *)

\* exception_for: the reviewed exceptions are of one coordinate, for some components, and expire.
ExceptionFor(k, finding) ==
  {e \in Exceptions : k \in e.components /\ e.coordinate = finding.coordinate /\ ~expired}

\* evaluate_scans: nothing severe is left that no exception excuses
ScanPasses(k, report) ==
  \A finding \in report : finding.severity \in FailSeverities => ExceptionFor(k, finding) # {}

\* PreflightEvidence: one platform of one component, of a commit and for a version
Record(c, k, p) == [component |-> k, platform |-> p, commit |-> c, label |-> Label(c)]

\* _validate_record
ValidRecord(record, c, k, p) ==
  /\ record.component = k /\ record.platform = p /\ p \in Platforms
  /\ record.commit = c /\ record.label = Label(c)

\* The records verify reads, and no other
Complete(c) ==
  /\ \A k \in Components, p \in Platforms : \E record \in evidence[c] : ValidRecord(record, c, k, p)
  /\ Cardinality(evidence[c]) = Cardinality(Components) * Cardinality(Platforms)

NoReport == [commit |-> 0]

\* authorize: the report of the gate is of this commit and version, and has all the records.
\* What it says of the scans is not looked at again.
Authorizes(report, c) ==
  /\ report.commit = c /\ report.label = Label(c)
  /\ report.components = Components /\ report.platforms = Platforms
  /\ Cardinality(report.records) = Cardinality(Components) * Cardinality(Platforms)

\* What main asks git and gh for: the tags and the releases of stable versions
StableTags == DOMAIN tags
ReleaseTags == releases
ReleaseExists(v) == v \in releases
-----------------------------------------------------------------------------
PipelineInit ==
  /\ tree = [f \in Files |-> FirstVersion]
  /\ update = << >>
  /\ commits = << >>
  /\ stage = [c \in CommitIds |-> "none"] /\ failed = {} /\ reruns = 0
  /\ evidence = [c \in CommitIds |-> {}] /\ authorization = [c \in CommitIds |-> NoReport]
  /\ published = [c \in CommitIds |-> {}]
  /\ images = {} /\ tags = << >> /\ releases = {}
  /\ expired = FALSE /\ scanned = {} /\ order = << >> /\ foreign = 0
-----------------------------------------------------------------------------
(* The version files *)

UpdateVersion ==
  /\ update = << >> /\ Len(commits) < MaxCommits
  /\ \E v \in Targets \cup {Bump(tree[Authority], part) : part \in {"major", "minor", "patch"}} :
       v \in Targets /\ update' = [f \in Drift(tree, v) |-> v]
  /\ UNCHANGED <<tree, commits, stage, failed, reruns, reports, published, registry, expired,
                 history, foreign>>

\* One file at a time, VERSION first; each is replaced in one step.
WriteFile ==
  /\ update # << >>
  /\ \E f \in IF Authority \in DOMAIN update THEN {Authority} ELSE DOMAIN update :
       /\ tree' = [tree EXCEPT ![f] = update[f]]
       /\ update' = [g \in DOMAIN update \ {f} |-> update[g]]
  /\ UNCHANGED <<commits, stage, failed, reruns, reports, published, registry, expired, history,
                 foreign>>

UpdateFails ==
  /\ update # << >> /\ update' = << >>
  /\ UNCHANGED <<tree, commits, stage, failed, reruns, reports, published, registry, expired,
                 history, foreign>>

\* Somebody pushes the tree as it is.
Push ==
  /\ update = << >> /\ Len(commits) < MaxCommits
  /\ \E branch \in {"main", "develop"} : commits' = Append(commits, [files |-> tree, branch |-> branch])
  /\ UNCHANGED <<tree, update, stage, failed, reruns, reports, published, registry, expired,
                 history, foreign>>
-----------------------------------------------------------------------------
(* A run of the publication workflow *)

TagOf(v) == IF v \in DOMAIN tags THEN tags[v] ELSE NoTag

\* One run of a branch at a time: the concurrency group of the workflow
BranchFree(branch) ==
  \A c \in Pushed : commits[c].branch = branch => stage[c] \in {"none", "done"} \/ c \in failed

Proceeds(c, next) == stage' = [stage EXCEPT ![c] = next] /\ UNCHANGED failed
Fails(c) == failed' = failed \cup {c} /\ UNCHANGED stage
Reached(c, point) == c \in Pushed /\ stage[c] = point /\ c \notin failed

\* The entry point: the policy, and the check that the version files agree
Trigger(c) ==
  /\ Reached(c, "none") /\ BranchFree(commits[c].branch)
  /\ \E source \in {"push", "pull_request"}, conclusion \in {"success", "failure"} :
       Plan([event |-> "workflow_run", workflow |-> "CI", source |-> source, conclusion |-> conclusion,
             branch |-> commits[c].branch], c).action \in {"snapshot-publish", "release-publish"}
  /\ IF Agree(commits[c].files) THEN Proceeds(c, "preflight") ELSE Fails(c)
  /\ UNCHANGED <<sources, reruns, reports, published, registry, expired, history, foreign>>

\* ReleaseGate.record, after the scan of one platform of one component
Preflight(c, k, p) ==
  /\ Reached(c, "preflight") /\ Record(c, k, p) \notin evidence[c]
  /\ \E report \in Reports :
       IF ScanPasses(k, report)
         THEN /\ evidence' = [evidence EXCEPT ![c] = @ \cup {Record(c, k, p)}]
              /\ scanned' = scanned \cup {<<c, k, p>>}
              /\ UNCHANGED <<stage, failed>>
         ELSE Fails(c) /\ UNCHANGED <<evidence, scanned>>
  /\ UNCHANGED <<sources, reruns, authorization, published, registry, expired, order, foreign>>

\* ReleaseGate.verify, once every scan has ended
Gate(c) ==
  /\ Reached(c, "preflight") /\ Complete(c)
  /\ Proceeds(c, IF Stable(c) THEN "tagCheck" ELSE "publish")
  /\ authorization' = [authorization EXCEPT ![c] =
       [commit |-> c, label |-> Label(c), components |-> Components, platforms |-> Platforms,
        records |-> evidence[c]]]
  /\ UNCHANGED <<sources, reruns, evidence, published, registry, expired, history, foreign>>

\* version.py check --require-unreleased --allow-existing-at-sha
TagCheck(c) ==
  /\ Reached(c, "tagCheck")
  /\ IF Releasable(VersionOf(c), NoVersion, StableTags, ReleaseTags, c, TagOf(VersionOf(c)))
       THEN Proceeds(c, "tagEnsure") ELSE Fails(c)
  /\ UNCHANGED <<sources, reruns, reports, published, registry, expired, history, foreign>>

\* ReleaseTransaction.ensure_tag: what is read first
TagEnsure(c) ==
  /\ Reached(c, "tagEnsure")
  /\ LET binding == Binding(c, TagOf(VersionOf(c)))
     IN CASE binding = "create"  -> Proceeds(c, "tagCreate")
          [] binding = "resume"  -> Proceeds(c, "publish")
          [] binding = "refused" -> Fails(c)
  /\ UNCHANGED <<sources, reruns, reports, published, registry, expired, history, foreign>>

\* create_annotated_tag, refused when somebody was faster; its answer may be lost
TagCreate(c) ==
  /\ Reached(c, "tagCreate")
  /\ Proceeds(c, "tagAgain")
  /\ \/ /\ VersionOf(c) \notin DOMAIN tags
        /\ tags' = [v \in DOMAIN tags \cup {VersionOf(c)} |-> IF v \in DOMAIN tags THEN tags[v] ELSE c]
        /\ order' = Append(order, VersionOf(c))
     \/ UNCHANGED <<tags, order>>
  /\ UNCHANGED <<sources, reruns, reports, published, images, releases, expired, scanned, foreign>>

\* Created or not, the tag is read again and has to be bound to this commit.
TagAgain(c) ==
  /\ Reached(c, "tagAgain")
  /\ IF Binding(c, TagOf(VersionOf(c))) = "resume" THEN Proceeds(c, "publish") ELSE Fails(c)
  /\ UNCHANGED <<sources, reruns, reports, published, registry, expired, history, foreign>>

Image(c, k) == [component |-> k, label |-> Label(c), commit |-> c]
Existing(c, k) == {image \in images : image.component = k /\ image.label = Label(c)}

\* A publish job, authorized by the gate: it resumes an image of the same commit, refuses another,
\* and pushes when it finds none, or could not look.
PublishImage(c, k) ==
  /\ Reached(c, "publish") /\ k \notin published[c] /\ Authorizes(authorization[c], c)
  /\ \/ \E image \in Existing(c, k) :
          IF Binding(c, image.commit) = "resume"
            THEN published' = [published EXCEPT ![c] = @ \cup {k}] /\ UNCHANGED <<stage, failed, images>>
            ELSE Fails(c) /\ UNCHANGED <<published, images>>
     \/ /\ images' = (images \ Existing(c, k)) \cup {Image(c, k)}
        /\ \/ published' = [published EXCEPT ![c] = @ \cup {k}] /\ UNCHANGED <<stage, failed>>
           \/ Fails(c) /\ UNCHANGED published
  /\ UNCHANGED <<sources, reruns, reports, tags, releases, expired, history, foreign>>

\* verify-publication, once every component is published
VerifyPublication(c) ==
  /\ Reached(c, "publish") /\ published[c] = Components
  /\ IF \A k \in Components : Existing(c, k) = {Image(c, k)}
       THEN Proceeds(c, IF Stable(c) THEN "release" ELSE "done") ELSE Fails(c)
  /\ UNCHANGED <<sources, reruns, reports, published, registry, expired, history, foreign>>

\* ensure_release: the tag's binding is proved again before the release is looked up.
ReleaseLookup(c) ==
  /\ Reached(c, "release")
  /\ IF Binding(c, TagOf(VersionOf(c))) # "resume" THEN Fails(c)
     ELSE Proceeds(c, IF ReleaseExists(VersionOf(c)) THEN "done" ELSE "releaseCreate")
  /\ UNCHANGED <<sources, reruns, reports, published, registry, expired, history, foreign>>

ReleaseCreate(c) ==
  /\ Reached(c, "releaseCreate")
  /\ Proceeds(c, "releaseAgain")
  /\ releases' \in {releases, releases \cup {VersionOf(c)}}
  /\ UNCHANGED <<sources, reruns, reports, published, images, tags, expired, history, foreign>>

ReleaseAgain(c) ==
  /\ Reached(c, "releaseAgain")
  /\ IF ReleaseExists(VersionOf(c)) THEN Proceeds(c, "done") ELSE Fails(c)
  /\ UNCHANGED <<sources, reruns, reports, published, registry, expired, history, foreign>>

\* A call or a runner fails, between any two steps.
JobFails(c) ==
  /\ c \in Pushed /\ stage[c] \notin {"none", "done"} /\ c \notin failed
  /\ Fails(c)
  /\ UNCHANGED <<sources, reruns, reports, published, registry, expired, history, foreign>>

\* The first step of the job a stage belongs to
JobStart(point) ==
  CASE point \in {"tagCheck", "tagEnsure", "tagCreate", "tagAgain"} -> "tagCheck"
    [] point \in {"release", "releaseCreate", "releaseAgain"}       -> "release"
    [] OTHER -> point

\* Failed jobs are run again, with what the others have left, or all of them.
Rerun(c) ==
  /\ c \in failed /\ reruns < MaxReruns
  /\ BranchFree(commits[c].branch)
  /\ failed' = failed \ {c}
  /\ reruns' = reruns + 1
  /\ \/ stage' = [stage EXCEPT ![c] = JobStart(@)] /\ UNCHANGED <<reports, published>>
     \/ stage' = [stage EXCEPT ![c] = "none"]
        /\ evidence' = [evidence EXCEPT ![c] = {}]
        /\ authorization' = [authorization EXCEPT ![c] = NoReport]
        /\ published' = [published EXCEPT ![c] = {}]
  /\ UNCHANGED <<sources, registry, expired, history, foreign>>
-----------------------------------------------------------------------------
(* The world outside *)

\* Somebody pushes a tag of a version, annotated or not.
ForeignTag ==
  /\ foreign < MaxForeignTags /\ foreign' = foreign + 1
  /\ \E v \in Targets \ DOMAIN tags, c \in Pushed \cup {Lightweight} :
       tags' = [w \in DOMAIN tags \cup {v} |-> IF w = v THEN c ELSE tags[w]]
  /\ UNCHANGED <<sources, stage, failed, reruns, reports, published, images, releases, expired,
                 history>>

ExceptionExpires ==
  /\ ~expired /\ expired' = TRUE
  /\ UNCHANGED <<sources, stage, failed, reruns, reports, published, registry, history, foreign>>

PipelineNext ==
  \/ UpdateVersion \/ WriteFile \/ UpdateFails \/ Push
  \/ \E c \in CommitIds :
       \/ Trigger(c) \/ Gate(c) \/ TagCheck(c) \/ TagEnsure(c) \/ TagCreate(c) \/ TagAgain(c)
       \/ VerifyPublication(c) \/ ReleaseLookup(c) \/ ReleaseCreate(c) \/ ReleaseAgain(c)
       \/ JobFails(c) \/ Rerun(c)
       \/ \E k \in Components : PublishImage(c, k) \/ \E p \in Platforms : Preflight(c, k, p)
  \/ ForeignTag \/ ExceptionExpires

PipelineSpec == PipelineInit /\ [][PipelineNext]_pipelineVars
-----------------------------------------------------------------------------
\* A GitHub release is of one commit, whatever failed, was run again or was tagged by others in
\* between: its tag points to a commit whose version files all show it, every component has an
\* image of that commit and of no other, and every platform of it has passed its scan
\* (ReleaseTransaction, ReleaseGate, the publication workflow).
ReleaseIsOfOneCommit ==
  \A v \in releases :
    LET c == TagOf(v) IN
    /\ c \in Pushed /\ Drift(commits[c].files, v) = {}
    /\ \A k \in Components :
         /\ Existing(c, k) = {Image(c, k)}
         /\ \A p \in Platforms : <<c, k, p>> \in scanned

\* The stable versions the pipeline tags only grow, whichever run is started again and in
\* whatever order the commits are published (_ensure_releasable).
TaggedVersionsGrow ==
  \A i, j \in DOMAIN order : i < j => Less(order[i], order[j])
=============================================================================
