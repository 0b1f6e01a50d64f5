------------------------ MODULE ReleasePipelineProofs ------------------------
(***************************************************************************)
(* Proofs about ReleasePipeline for any number of commits, versions,       *)
(* components and platforms, any re-runs and any foreign tags.             *)
(***************************************************************************)
EXTENDS ReleasePipeline, SequenceTheorems, TLAPS

Versions == Targets \cup {FirstVersion}
Commit == [files : [Files -> Versions], branch : {"main", "develop"}]

TagPoints == {"tagCheck", "tagEnsure", "tagCreate", "tagAgain"}
ReleasePoints == {"release", "releaseCreate", "releaseAgain"}
Points == {"none", "preflight", "publish", "done"} \cup TagPoints \cup ReleasePoints

PipelineTyped ==
  /\ tree \in [Files -> Versions]
  /\ \A f \in DOMAIN update : f \in Files /\ update[f] \in Versions
  /\ commits \in Seq(Commit) /\ Len(commits) <= MaxCommits
  /\ stage \in [CommitIds -> Points]
  /\ failed \subseteq Pushed
  /\ evidence = [c \in CommitIds |-> evidence[c]]
  /\ authorization = [c \in CommitIds |-> authorization[c]]
  /\ published = [c \in CommitIds |-> published[c]]
  /\ order \in Seq(Versions)
  /\ \A c \in CommitIds \ Pushed : stage[c] = "none"

\* The run of a commit holds the concurrency group of its branch.
Active(c) == c \in Pushed /\ stage[c] \notin {"none", "done"} /\ c \notin failed

OneRunPerBranch ==
  \A c, d \in Pushed : Active(c) /\ Active(d) /\ commits[c].branch = commits[d].branch => c = d

\* What a run has passed on its way to its stage
VersionFilesAgree == \A c \in Pushed : stage[c] # "none" => Agree(commits[c].files)

TagsAreForMain == \A c \in Pushed : stage[c] \in TagPoints \cup ReleasePoints => Stable(c)

TagIsBound ==
  \A c \in Pushed : Stable(c) /\ stage[c] \in {"publish", "done"} \cup ReleasePoints =>
    TagOf(VersionOf(c)) = c

EvidenceIsScanned ==
  /\ \A c \in CommitIds : \A record \in evidence[c] :
       /\ c \in Pushed
       /\ \E k \in Components, p \in Platforms : record = Record(c, k, p) /\ <<c, k, p>> \in scanned
  /\ \A c \in Pushed : stage[c] \notin {"none", "preflight"} =>
       \A k \in Components, p \in Platforms : <<c, k, p>> \in scanned

ImagesAreVerified ==
  \A c \in Pushed : stage[c] \in ReleasePoints => \A k \in Components : Existing(c, k) = {Image(c, k)}

\* What ensures a release, and that it stays so
ReleaseIsBound ==
  \A v \in releases :
    LET c == TagOf(v) IN
    /\ c \in Pushed /\ Stable(c) /\ VersionOf(c) = v /\ Agree(commits[c].files)
    /\ \A k \in Components :
         /\ Existing(c, k) = {Image(c, k)}
         /\ \A p \in Platforms : <<c, k, p>> \in scanned

\* A version that is to be tagged follows all that have been tagged.
OrderIsTagged == \A i \in DOMAIN order : order[i] \in DOMAIN tags

NextVersionIsGreatest ==
  \A c \in Pushed : stage[c] \in {"tagEnsure", "tagCreate"} /\ c \notin failed =>
    \A i \in DOMAIN order : order[i] # VersionOf(c) => Less(order[i], VersionOf(c))

PipelineInv ==
  /\ PipelineTyped /\ OneRunPerBranch
  /\ VersionFilesAgree /\ TagsAreForMain /\ TagIsBound /\ EvidenceIsScanned /\ ImagesAreVerified
  /\ ReleaseIsBound
  /\ OrderIsTagged /\ NextVersionIsGreatest /\ TaggedVersionsGrow
-----------------------------------------------------------------------------
(***************************************************************************)
(* What every step keeps.                                                  *)
(***************************************************************************)
\* The position of a commit names its run, and is never the number that stands for no tag.
LEMMA PushedAreCommits ==
  ASSUME PipelineTyped
  PROVE  /\ Pushed = 1 .. Len(commits) /\ Pushed \subseteq CommitIds
         /\ Len(commits) \in Nat
         /\ \A c \in Pushed : /\ commits[c] \in Commit /\ VersionOf(c) \in Versions
                              /\ c \in Nat \ {0} /\ c # NoTag
<1>1. Len(commits) \in Nat /\ DOMAIN commits = 1 .. Len(commits)
  BY LenProperties DEF PipelineTyped
<1>2. \A c \in Pushed : c \in 1 .. Len(commits) /\ commits[c] \in Commit
  BY <1>1, ElementOfSeq DEF PipelineTyped, Pushed
<1>3. \A c \in Pushed : VersionOf(c) \in Versions
  BY <1>2 DEF Commit, VersionOf, Files
<1> QED BY <1>1, <1>2, <1>3, PipelineAssumption DEF PipelineTyped, Pushed, CommitIds, NoTag

\* A push appends a commit and leaves the others as they are.
LEMMA PushAppends ==
  ASSUME PipelineTyped, Push
  PROVE  /\ Pushed' = 1 .. Len(commits) + 1 /\ Pushed \subseteq Pushed'
         /\ \A c \in Pushed : commits'[c] = commits[c]
         /\ commits' \in Seq(Commit) /\ Len(commits') = Len(commits) + 1
         /\ Len(commits') <= MaxCommits
<1>1. PICK branch \in {"main", "develop"} : commits' = Append(commits, [files |-> tree, branch |-> branch])
  BY DEF Push
<1>2. [files |-> tree, branch |-> branch] \in Commit /\ commits \in Seq(Commit) /\ Len(commits) \in Nat
  BY PushedAreCommits DEF PipelineTyped, Commit
<1>3. Len(commits) < MaxCommits /\ MaxCommits \in Nat
  BY PipelineAssumption DEF Push
<1> QED BY <1>1, <1>2, <1>3, AppendProperties, PushedAreCommits DEF Pushed

\* The actions that are not steps of a run
Outside == UpdateVersion \/ WriteFile \/ UpdateFails \/ Push \/ ForeignTag \/ ExceptionExpires

\* The steps of the run of a commit
RunStep(c) ==
  \/ Trigger(c) \/ Gate(c) \/ TagCheck(c) \/ TagEnsure(c) \/ TagCreate(c) \/ TagAgain(c)
  \/ VerifyPublication(c) \/ ReleaseLookup(c) \/ ReleaseCreate(c) \/ ReleaseAgain(c)
  \/ JobFails(c) \/ Rerun(c)
  \/ \E k \in Components : PublishImage(c, k) \/ \E p \in Platforms : Preflight(c, k, p)

LEMMA StepsOfPipeline ==
  ASSUME [PipelineNext]_pipelineVars
  PROVE  Outside \/ (\E c \in CommitIds : RunStep(c)) \/ UNCHANGED pipelineVars
BY DEF PipelineNext, Outside, RunStep

\* A step of a run changes the stage, the failure and the documents of that run alone.
ChangesOneRun(c) ==
  /\ c \in Pushed /\ UNCHANGED sources /\ UNCHANGED <<expired, foreign>>
  /\ stage' \in [CommitIds -> Points] /\ failed' \subseteq Pushed
  /\ \A d \in CommitIds \ {c} :
       /\ stage'[d] = stage[d] /\ (d \in failed' <=> d \in failed)
       /\ evidence'[d] = evidence[d]
  /\ evidence' = [d \in CommitIds |-> evidence'[d]]
  /\ authorization' = [d \in CommitIds |-> authorization'[d]]
  /\ published' = [d \in CommitIds |-> published'[d]]

\* decide_binding resumes exactly what is bound to the commit.
LEMMA BindingResumes ==
  ASSUME NEW c, NEW d, c # NoTag
  PROVE  Binding(c, d) = "resume" <=> d = c
BY DEF Binding

\* What ensure_tag decides
LEMMA TagEnsureDecides ==
  ASSUME NEW c, TagEnsure(c), c # NoTag
  PROVE  \/ TagOf(VersionOf(c)) = NoTag /\ Proceeds(c, "tagCreate")
         \/ TagOf(VersionOf(c)) = c /\ Proceeds(c, "publish")
         \/ Fails(c)
BY DEF TagEnsure, Binding

LEMMA RunStepIsOfOneRun ==
  ASSUME PipelineTyped, NEW c \in CommitIds, RunStep(c)
  PROVE  ChangesOneRun(c)
<1> USE DEF PipelineTyped, sources, reports, registry, history, Points, TagPoints, ReleasePoints, Proceeds, Fails, Reached, ChangesOneRun
<1>1. CASE Trigger(c)
  BY <1>1 DEF Trigger
<1>2. CASE Gate(c)
  BY <1>2 DEF Gate
<1>3. CASE TagCheck(c)
  BY <1>3 DEF TagCheck
<1>4. CASE TagEnsure(c)
  <2>1. Proceeds(c, "tagCreate") \/ Proceeds(c, "publish") \/ Fails(c)
    BY <1>4, TagEnsureDecides, PushedAreCommits DEF TagEnsure
  <2> QED BY <1>4, <2>1 DEF TagEnsure
<1>5. CASE TagCreate(c)
  BY <1>5 DEF TagCreate
<1>6. CASE TagAgain(c)
  BY <1>6 DEF TagAgain
<1>7. CASE VerifyPublication(c)
  BY <1>7 DEF VerifyPublication
<1>8. CASE ReleaseLookup(c)
  BY <1>8 DEF ReleaseLookup
<1>9. CASE ReleaseCreate(c)
  BY <1>9 DEF ReleaseCreate
<1>10. CASE ReleaseAgain(c)
  BY <1>10 DEF ReleaseAgain
<1>11. CASE JobFails(c)
  BY <1>11 DEF JobFails
<1>12. CASE Rerun(c)
  BY <1>12 DEF Rerun, JobStart
<1>13. ASSUME NEW k \in Components, PublishImage(c, k)
       PROVE  ChangesOneRun(c)
  BY <1>13 DEF PublishImage
<1>14. ASSUME NEW k \in Components, NEW p \in Platforms, Preflight(c, k, p)
       PROVE  ChangesOneRun(c)
  BY <1>14 DEF Preflight
<1> QED BY <1>1, <1>2, <1>3, <1>4, <1>5, <1>6, <1>7, <1>8, <1>9, <1>10, <1>11, <1>12, <1>13, <1>14 DEF RunStep

\* What a run writes outside its own state, and which action writes it
LEMMA RunWrites ==
  ASSUME NEW c, RunStep(c)
  PROVE  /\ UNCHANGED <<tags, order>> \/ TagCreate(c)
         /\ UNCHANGED images \/ \E k \in Components : PublishImage(c, k)
         /\ UNCHANGED releases \/ ReleaseCreate(c)
         /\ \/ UNCHANGED <<evidence, scanned>>
            \/ Rerun(c) /\ UNCHANGED scanned
            \/ \E k \in Components, p \in Platforms : Preflight(c, k, p)
<1> USE DEF reports, registry, history
<1>1. CASE Trigger(c) \/ Gate(c) \/ TagCheck(c) \/ TagEnsure(c) \/ TagAgain(c)
  BY <1>1 DEF Trigger, Gate, TagCheck, TagEnsure, TagAgain
<1>2. CASE VerifyPublication(c) \/ ReleaseLookup(c) \/ ReleaseAgain(c) \/ JobFails(c)
  BY <1>2 DEF VerifyPublication, ReleaseLookup, ReleaseAgain, JobFails
<1>3. CASE TagCreate(c) \/ ReleaseCreate(c)
  BY <1>3 DEF TagCreate, ReleaseCreate
<1>4. CASE Rerun(c)
  BY <1>4 DEF Rerun
<1>5. ASSUME NEW k \in Components, PublishImage(c, k)
      PROVE  UNCHANGED <<tags, order, releases, evidence, scanned>>
  BY <1>5 DEF PublishImage
<1>6. ASSUME NEW k \in Components, NEW p \in Platforms, Preflight(c, k, p)
      PROVE  UNCHANGED <<tags, order, releases, images>>
  BY <1>6 DEF Preflight
<1> QED BY <1>1, <1>2, <1>3, <1>4, <1>5, <1>6 DEF RunStep

\* Only a run that finds its branch free becomes active.
LEMMA RunStartsWhenFree ==
  ASSUME NEW c \in CommitIds, RunStep(c)
  PROVE  Active(c) \/ BranchFree(commits[c].branch)
<1> USE DEF Reached, Active
<1>1. CASE Trigger(c) \/ Rerun(c)
  BY <1>1 DEF Trigger, Rerun
<1>2. CASE Gate(c) \/ TagCheck(c) \/ TagEnsure(c) \/ TagAgain(c) \/ TagCreate(c)
  BY <1>2 DEF Gate, TagCheck, TagEnsure, TagAgain, TagCreate
<1>3. CASE VerifyPublication(c) \/ ReleaseLookup(c) \/ ReleaseCreate(c) \/ ReleaseAgain(c) \/ JobFails(c)
  BY <1>3 DEF VerifyPublication, ReleaseLookup, ReleaseCreate, ReleaseAgain, JobFails
<1>4. ASSUME NEW k \in Components, PublishImage(c, k)
      PROVE  Active(c)
  BY <1>4 DEF PublishImage
<1>5. ASSUME NEW k \in Components, NEW p \in Platforms, Preflight(c, k, p)
      PROVE  Active(c)
  BY <1>5 DEF Preflight
<1> QED BY <1>1, <1>2, <1>3, <1>4, <1>5 DEF RunStep

\* What a run must have passed to be where it is
VerifiedPoints == {"publish", "done"} \cup ReleasePoints
OrderChecked(c) == stage[c] \in {"tagEnsure", "tagCreate"} /\ c \notin failed

StageIsEarned(c) ==
  /\ stage'[c] # "none" => stage[c] # "none" \/ Agree(commits[c].files)
  /\ stage'[c] \in TagPoints \cup ReleasePoints => stage[c] \in TagPoints \cup ReleasePoints \/ Stable(c)
  /\ Stable(c) /\ stage'[c] \in VerifiedPoints => stage[c] \in VerifiedPoints \/ TagOf(VersionOf(c)) = c
  /\ stage'[c] \notin {"none", "preflight"} => stage[c] \notin {"none", "preflight"} \/ Complete(c)
  /\ stage'[c] \in ReleasePoints =>
       \/ stage[c] \in ReleasePoints
       \/ UNCHANGED images /\ \A k \in Components : Existing(c, k) = {Image(c, k)}
  /\ OrderChecked(c)' => \/ OrderChecked(c)
                         \/ Releasable(VersionOf(c), NoVersion, StableTags, ReleaseTags, c, TagOf(VersionOf(c)))

\* Where the job of a stage starts
LEMMA JobStartsAt ==
  ASSUME NEW point
  PROVE  /\ point \in TagPoints => JobStart(point) = "tagCheck"
         /\ point \in ReleasePoints => JobStart(point) = "release"
         /\ point \notin TagPoints \cup ReleasePoints => JobStart(point) = point
<1> USE DEF TagPoints, ReleasePoints
<1>1. CASE point \in TagPoints
  BY <1>1 DEF JobStart
<1>2. CASE point \in ReleasePoints
  BY <1>2 DEF JobStart
<1>3. CASE point \notin TagPoints \cup ReleasePoints
  BY <1>3 DEF JobStart
<1> QED BY <1>1, <1>2, <1>3

\* A run gets where it is only by what it has passed: the agreement of the version files, the
\* gate, the check of the order, the tag's binding, the verification of the images.
LEMMA StagesAreEarned ==
  ASSUME PipelineTyped, NEW c \in CommitIds, RunStep(c)
  PROVE  StageIsEarned(c)
<1>0. c \in Pushed /\ stage \in [CommitIds -> Points] /\ c # NoTag
  BY RunStepIsOfOneRun, PushedAreCommits DEF ChangesOneRun, PipelineTyped
<1> USE <1>0 DEF registry, Points, TagPoints, ReleasePoints, VerifiedPoints, OrderChecked, Proceeds, Fails, Reached, StageIsEarned
<1>1. CASE Trigger(c)
  BY <1>1 DEF Trigger
<1>2. CASE Gate(c)
  BY <1>2 DEF Gate
<1>3. CASE TagCheck(c)
  BY <1>3 DEF TagCheck
<1>4. CASE TagEnsure(c)
  <2>1. Reached(c, "tagEnsure")
    BY <1>4 DEF TagEnsure
  <2> QED BY <1>4, <2>1, TagEnsureDecides
<1>5. CASE TagCreate(c)
  BY <1>5 DEF TagCreate
<1>6. CASE TagAgain(c)
  <2>1. Binding(c, TagOf(VersionOf(c))) = "resume" <=> TagOf(VersionOf(c)) = c
    BY BindingResumes
  <2> QED BY <1>6, <2>1 DEF TagAgain
<1>7. CASE VerifyPublication(c)
  BY <1>7 DEF VerifyPublication
<1>8. CASE ReleaseLookup(c)
  BY <1>8 DEF ReleaseLookup
<1>9. CASE ReleaseCreate(c)
  BY <1>9 DEF ReleaseCreate
<1>10. CASE ReleaseAgain(c)
  BY <1>10 DEF ReleaseAgain
<1>11. CASE JobFails(c)
  BY <1>11 DEF JobFails
<1>12. CASE Rerun(c)
  <2>1. stage'[c] \in {JobStart(stage[c]), "none"}
    BY <1>12 DEF Rerun
  <2> QED BY <2>1, JobStartsAt
<1>13. ASSUME NEW k \in Components, PublishImage(c, k)
       PROVE  StageIsEarned(c)
  BY <1>13 DEF PublishImage
<1>14. ASSUME NEW k \in Components, NEW p \in Platforms, Preflight(c, k, p)
       PROVE  StageIsEarned(c)
  BY <1>14 DEF Preflight
<1> QED BY <1>1, <1>2, <1>3, <1>4, <1>5, <1>6, <1>7, <1>8, <1>9, <1>10, <1>11, <1>12, <1>13, <1>14 DEF RunStep
-----------------------------------------------------------------------------
(***************************************************************************)
(* What every step of the pipeline and of the world keeps.                 *)
(***************************************************************************)
\* The files and the branch of a commit never change.
LEMMA CommitsAreKept ==
  ASSUME PipelineTyped, [PipelineNext]_pipelineVars
  PROVE  /\ Pushed \subseteq Pushed'
         /\ \A c \in Pushed : /\ commits'[c] = commits[c]
                              /\ VersionOf(c)' = VersionOf(c) /\ (Stable(c)' <=> Stable(c)) /\ Label(c)' = Label(c)
<1>1. UNCHANGED commits \/ Push
  BY StepsOfPipeline, RunStepIsOfOneRun
  DEF Outside, UpdateVersion, WriteFile, UpdateFails, ForeignTag, ExceptionExpires, ChangesOneRun, sources,
      pipelineVars
<1>2. Pushed \subseteq Pushed' /\ \A c \in Pushed : commits'[c] = commits[c]
  BY <1>1, PushAppends DEF Pushed
<1> QED BY <1>2 DEF VersionOf, Stable, Label

\* Nothing but its own run moves a commit, and a commit that was just pushed has no run.
LEMMA OthersStayPut ==
  ASSUME PipelineTyped, [PipelineNext]_pipelineVars, NEW c \in Pushed'
  PROVE  \/ c \in Pushed /\ ((stage'[c] = stage[c] /\ (c \in failed' <=> c \in failed)) \/ RunStep(c))
         \/ c \in CommitIds /\ stage'[c] = "none"
<1>1. CASE Push
  <2>1. c \in 1 .. Len(commits) + 1 /\ Len(commits) \in Nat /\ Len(commits) + 1 <= MaxCommits
    BY <1>1, PushAppends, PushedAreCommits
  <2>2. c \in 1 .. Len(commits) \/ c = Len(commits) + 1
    BY <2>1
  <2>3. c \in Pushed \/ c \in CommitIds \ Pushed
    BY <2>1, <2>2, PushedAreCommits, PipelineAssumption DEF CommitIds
  <2> QED BY <1>1, <2>3 DEF Push, PipelineTyped
<1>2. CASE UpdateVersion \/ WriteFile \/ UpdateFails \/ ForeignTag \/ ExceptionExpires \/ UNCHANGED pipelineVars
  BY <1>2 DEF UpdateVersion, WriteFile, UpdateFails, ForeignTag, ExceptionExpires, Pushed, sources, pipelineVars
<1>3. ASSUME NEW d \in CommitIds, RunStep(d)
      PROVE  c \in Pushed /\ ((stage'[c] = stage[c] /\ (c \in failed' <=> c \in failed)) \/ RunStep(c))
  BY <1>3, RunStepIsOfOneRun, PushedAreCommits DEF ChangesOneRun, sources, Pushed
<1> QED BY <1>1, <1>2, <1>3, StepsOfPipeline DEF Outside

LEMMA StagesStayEarned ==
  ASSUME PipelineTyped, [PipelineNext]_pipelineVars, NEW c \in Pushed'
  PROVE  stage'[c] = "none" \/ (c \in Pushed /\ StageIsEarned(c))
<1>1. stage'[c] = stage[c] /\ (c \in failed' <=> c \in failed) => StageIsEarned(c)
  BY DEF StageIsEarned, OrderChecked
<1>2. c \in Pushed /\ RunStep(c) => StageIsEarned(c)
  BY StagesAreEarned, PushedAreCommits
<1>3. \/ c \in Pushed /\ ((stage'[c] = stage[c] /\ (c \in failed' <=> c \in failed)) \/ RunStep(c))
      \/ c \in CommitIds /\ stage'[c] = "none"
  BY OthersStayPut
<1> QED BY <1>1, <1>2, <1>3

\* A tag, once it exists, is never moved.
LEMMA TagsAreKept ==
  ASSUME [PipelineNext]_pipelineVars
  PROVE  \A v \in DOMAIN tags : v \in DOMAIN tags' /\ tags'[v] = tags[v]
<1>1. CASE ForeignTag
  BY <1>1 DEF ForeignTag
<1>2. CASE UpdateVersion \/ WriteFile \/ UpdateFails \/ Push \/ ExceptionExpires \/ UNCHANGED pipelineVars
  BY <1>2 DEF UpdateVersion, WriteFile, UpdateFails, Push, ExceptionExpires, registry, pipelineVars
<1>3. ASSUME NEW c \in CommitIds, RunStep(c)
      PROVE  \A v \in DOMAIN tags : v \in DOMAIN tags' /\ tags'[v] = tags[v]
  BY <1>3, RunWrites DEF TagCreate
<1> QED BY <1>1, <1>2, <1>3, StepsOfPipeline DEF Outside

\* A scan that has passed has passed.
LEMMA ScansAreKept ==
  ASSUME [PipelineNext]_pipelineVars
  PROVE  scanned \subseteq scanned'
<1>1. CASE Outside \/ UNCHANGED pipelineVars
  BY <1>1 DEF Outside, UpdateVersion, WriteFile, UpdateFails, Push, ForeignTag, ExceptionExpires, history, pipelineVars
<1>2. ASSUME NEW c \in CommitIds, RunStep(c)
      PROVE  scanned \subseteq scanned'
  BY <1>2, RunWrites DEF Preflight
<1> QED BY <1>1, <1>2, StepsOfPipeline

\* A tag that is bound to a commit stays bound to it.
LEMMA BindingsAreKept ==
  ASSUME PipelineTyped, [PipelineNext]_pipelineVars, NEW v, NEW c \in Pushed, TagOf(v) = c
  PROVE  TagOf(v)' = c
BY TagsAreKept, PushedAreCommits DEF TagOf
-----------------------------------------------------------------------------
(***************************************************************************)
(* Each part of the invariant is kept by every step.                       *)
(***************************************************************************)
LEMMA TypedStep ==
  ASSUME PipelineTyped, [PipelineNext]_pipelineVars
  PROVE  PipelineTyped'
<1> USE DEF PipelineTyped, sources, reports, registry, history
<1>1. CASE UpdateVersion
  <2>1. PICK v \in Targets : update' = [f \in Drift(tree, v) |-> v]
    BY <1>1 DEF UpdateVersion
  <2> QED BY <1>1, <2>1 DEF UpdateVersion, Drift, Versions, Pushed
<1>2. CASE WriteFile
  BY <1>2 DEF WriteFile, Pushed
<1>3. CASE UpdateFails
  BY <1>3 DEF UpdateFails, Pushed
<1>4. CASE Push
  BY <1>4, PushAppends DEF Push
<1>5. CASE ForeignTag \/ ExceptionExpires \/ UNCHANGED pipelineVars
  BY <1>5 DEF ForeignTag, ExceptionExpires, pipelineVars, Pushed
<1>6. ASSUME NEW c \in CommitIds, RunStep(c)
      PROVE  PipelineTyped'
  <2>1. ChangesOneRun(c)
    BY <1>6, RunStepIsOfOneRun
  <2>2. order' \in Seq(Versions)
    <3>1. order' = order \/ order' = Append(order, VersionOf(c))
      BY <1>6, RunWrites DEF TagCreate
    <3>2. VersionOf(c) \in Versions /\ order \in Seq(Versions)
      BY <2>1, PushedAreCommits DEF ChangesOneRun
    <3>3. Append(order, VersionOf(c)) \in Seq(Versions)
      BY <3>2, AppendProperties
    <3> QED BY <3>1, <3>2, <3>3
  <2> QED BY <2>1, <2>2, PushedAreCommits DEF ChangesOneRun, Pushed
<1> QED BY <1>1, <1>2, <1>3, <1>4, <1>5, <1>6, StepsOfPipeline DEF Outside

\* The concurrency group: no run starts while another of its branch is under way.
LEMMA OneRunStep ==
  ASSUME PipelineTyped, OneRunPerBranch, [PipelineNext]_pipelineVars
  PROVE  OneRunPerBranch'
<1> SUFFICES ASSUME NEW c \in Pushed', NEW d \in Pushed', Active(c)', Active(d)',
                    commits'[c].branch = commits'[d].branch, c # d
             PROVE  FALSE
  BY DEF OneRunPerBranch
<1>1. /\ c \in Pushed /\ ((stage'[c] = stage[c] /\ (c \in failed' <=> c \in failed)) \/ RunStep(c))
      /\ d \in Pushed /\ ((stage'[d] = stage[d] /\ (d \in failed' <=> d \in failed)) \/ RunStep(d))
  BY OthersStayPut DEF Active
<1>2. commits[c].branch = commits[d].branch /\ c \in CommitIds /\ d \in CommitIds
  BY <1>1, CommitsAreKept, PushedAreCommits
<1>3. ~(RunStep(c) /\ ~Active(c)) \/ ~Active(d)
  BY <1>1, <1>2, RunStartsWhenFree DEF BranchFree, Active
<1>4. ~(RunStep(d) /\ ~Active(d)) \/ ~Active(c)
  BY <1>1, <1>2, RunStartsWhenFree DEF BranchFree, Active
<1>5. ~(Active(c) /\ Active(d))
  BY <1>1, <1>2 DEF OneRunPerBranch
<1>6. ~RunStep(c) \/ (stage'[d] = stage[d] /\ (d \in failed' <=> d \in failed))
  BY <1>1, <1>2, RunStepIsOfOneRun DEF ChangesOneRun
<1>7. ~RunStep(d) \/ (stage'[c] = stage[c] /\ (c \in failed' <=> c \in failed))
  BY <1>1, <1>2, RunStepIsOfOneRun DEF ChangesOneRun
<1> QED BY <1>1, <1>3, <1>4, <1>5, <1>6, <1>7 DEF Active

\* The files agree before a run leaves its first stage, only main tags, and a run of main gets past
\* its tag only when the tag is bound to its commit.
LEMMA RunsOfMainStep ==
  ASSUME PipelineTyped, VersionFilesAgree, TagsAreForMain, TagIsBound, [PipelineNext]_pipelineVars
  PROVE  VersionFilesAgree' /\ TagsAreForMain' /\ TagIsBound'
<1> SUFFICES ASSUME NEW c \in Pushed', stage'[c] # "none"
             PROVE  /\ Agree(commits[c].files)'
                    /\ stage'[c] \in TagPoints \cup ReleasePoints => Stable(c)'
                    /\ Stable(c)' /\ stage'[c] \in VerifiedPoints => TagOf(VersionOf(c))' = c
  BY DEF VersionFilesAgree, TagsAreForMain, TagIsBound, TagPoints, ReleasePoints, VerifiedPoints
<1>1. c \in Pushed /\ StageIsEarned(c)
  BY StagesStayEarned
<1>2. commits'[c] = commits[c] /\ VersionOf(c)' = VersionOf(c) /\ (Stable(c)' <=> Stable(c))
  BY <1>1, CommitsAreKept
<1>3. Agree(commits[c].files)
  BY <1>1 DEF StageIsEarned, VersionFilesAgree
<1>4. stage'[c] \in TagPoints \cup ReleasePoints => Stable(c)
  BY <1>1 DEF StageIsEarned, TagsAreForMain
<1>5. Stable(c) /\ stage'[c] \in VerifiedPoints => TagOf(VersionOf(c)) = c
  BY <1>1 DEF StageIsEarned, TagIsBound, VerifiedPoints
<1>6. Stable(c) /\ stage'[c] \in VerifiedPoints => TagOf(VersionOf(c))' = c
  <2>1. TagOf(VersionOf(c)) = c => TagOf(VersionOf(c))' = c
    BY <1>1, <1>2, TagsAreKept, PushedAreCommits DEF TagOf
  <2> QED BY <1>5, <2>1
<1>7. Agree(commits[c].files)'
  BY <1>2, <1>3 DEF Agree, Drift, Expected
<1> QED BY <1>2, <1>4, <1>6, <1>7

\* The evidence of a run is of its own commit and of scans that have passed, and the gate asks for
\* one record of every platform of every component.
LEMMA EvidenceStep ==
  ASSUME PipelineTyped, EvidenceIsScanned, [PipelineNext]_pipelineVars
  PROVE  EvidenceIsScanned'
<1>1. ASSUME NEW c \in CommitIds, NEW record \in evidence'[c]
      PROVE  /\ c \in Pushed'
             /\ \E k \in Components, p \in Platforms :
                  record = Record(c, k, p)' /\ <<c, k, p>> \in scanned'
  <2>1. CASE record \in evidence[c]
    <3>1. PICK k \in Components, p \in Platforms : record = Record(c, k, p) /\ <<c, k, p>> \in scanned
      BY <2>1 DEF EvidenceIsScanned
    <3>2. c \in Pushed
      BY <2>1 DEF EvidenceIsScanned
    <3>3. Record(c, k, p)' = Record(c, k, p)
      BY <3>2, CommitsAreKept DEF Record
    <3> QED BY <3>1, <3>2, <3>3, CommitsAreKept, ScansAreKept
  <2>2. ASSUME record \notin evidence[c]
        PROVE  \E k \in Components, p \in Platforms : Preflight(c, k, p) /\ record = Record(c, k, p)
    <3>1. CASE Outside \/ UNCHANGED pipelineVars
      BY <2>2, <3>1 DEF Outside, UpdateVersion, WriteFile, UpdateFails, Push, ForeignTag, ExceptionExpires,
                        reports, pipelineVars
    <3>2. ASSUME NEW d \in CommitIds, RunStep(d)
          PROVE  \E k \in Components, p \in Platforms : Preflight(c, k, p) /\ record = Record(c, k, p)
      <4>1. CASE UNCHANGED evidence
        BY <2>2, <4>1
      <4>2. CASE Rerun(d)
        BY <2>2, <4>2 DEF Rerun, reports, PipelineTyped
      <4>3. ASSUME NEW k \in Components, NEW p \in Platforms, Preflight(d, k, p), ~UNCHANGED evidence
            PROVE  Preflight(c, k, p) /\ record = Record(c, k, p)
        <5>1. evidence' = [evidence EXCEPT ![d] = @ \cup {Record(d, k, p)}]
          BY <4>3 DEF Preflight
        <5>2. c = d /\ record = Record(d, k, p)
          BY <2>2, <5>1 DEF PipelineTyped
        <5> QED BY <4>3, <5>2
      <4> QED BY <3>2, <4>1, <4>2, <4>3, RunWrites
    <3> QED BY <3>1, <3>2, StepsOfPipeline
  <2>3. ASSUME NEW k \in Components, NEW p \in Platforms, Preflight(c, k, p), record = Record(c, k, p),
               record \notin evidence[c]
        PROVE  c \in Pushed' /\ record = Record(c, k, p)' /\ <<c, k, p>> \in scanned'
    <3>1. c \in Pushed /\ UNCHANGED commits
      BY <2>3 DEF Preflight, Reached, sources
    <3>2. <<c, k, p>> \in scanned'
      BY <2>3 DEF Preflight
    <3> QED BY <2>3, <3>1, <3>2 DEF Pushed, Record, Label, VersionOf, Stable
  <2> QED BY <2>1, <2>2, <2>3
<1>2. ASSUME NEW c \in Pushed', stage'[c] \notin {"none", "preflight"},
             NEW k \in Components, NEW p \in Platforms
      PROVE  <<c, k, p>> \in scanned'
  <2>1. c \in Pushed /\ StageIsEarned(c) /\ c \in CommitIds
    BY <1>2, StagesStayEarned, PushedAreCommits
  <2>2. CASE stage[c] \notin {"none", "preflight"}
    BY <2>1, <2>2, ScansAreKept DEF EvidenceIsScanned
  <2>3. CASE Complete(c)
    <3>1. PICK record \in evidence[c] : ValidRecord(record, c, k, p)
      BY <2>3 DEF Complete
    <3>2. PICK l \in Components, q \in Platforms : record = Record(c, l, q) /\ <<c, l, q>> \in scanned
      BY <2>1, <3>1 DEF EvidenceIsScanned
    <3>3. l = k /\ q = p
      BY <3>1, <3>2 DEF ValidRecord, Record
    <3> QED BY <3>2, <3>3, ScansAreKept
  <2> QED BY <1>2, <2>1, <2>2, <2>3 DEF StageIsEarned
<1> QED BY <1>1, <1>2 DEF EvidenceIsScanned

\* An image of a released version is not replaced: only the run that the version's tag is bound to
\* publishes under its label.
LEMMA VerifiedImagesStay ==
  ASSUME PipelineTyped, TagIsBound, [PipelineNext]_pipelineVars,
         NEW c \in Pushed, Stable(c), TagOf(VersionOf(c)) = c,
         NEW k \in Components, Existing(c, k) = {Image(c, k)}
  PROVE  (Existing(c, k) = {Image(c, k)})'
<1>1. Label(c)' = Label(c)
  BY CommitsAreKept
<1>2. CASE UNCHANGED images
  BY <1>1, <1>2 DEF Existing, Image
<1>3. ASSUME NEW d \in CommitIds, NEW l \in Components, PublishImage(d, l), ~UNCHANGED images
      PROVE  (Existing(c, k) = {Image(c, k)})'
  <2>1. images' = (images \ Existing(d, l)) \cup {Image(d, l)}
    BY <1>3 DEF PublishImage
  <2>2. d \in Pushed /\ stage[d] = "publish"
    BY <1>3 DEF PublishImage, Reached
  <2>3. Label(d) = Label(c) => d = c
    <3>1. ASSUME Label(d) = Label(c)
          PROVE  Stable(d) /\ VersionOf(d) = VersionOf(c)
      BY <2>2, <3>1, PushedAreCommits DEF Label, NoTag
    <3> QED BY <2>2, <3>1 DEF TagIsBound
  <2>4. \A image : (image \in images' /\ image.component = k /\ image.label = Label(c)) <=> image = Image(c, k)
    <3>1. \A image : (image \in images /\ image.component = k /\ image.label = Label(c)) <=> image = Image(c, k)
      BY DEF Existing
    <3>2. Image(c, k).component = k /\ Image(c, k).label = Label(c)
      BY DEF Image
    <3>3. Image(d, l).component = l /\ Image(d, l).label = Label(d)
      BY DEF Image
    <3>4. \A image : image \in images' <=>
            \/ image \in images /\ ~(image.component = l /\ image.label = Label(d))
            \/ image = Image(d, l)
      BY <2>1 DEF Existing
    <3>5. CASE d = c /\ l = k
      BY <3>1, <3>2, <3>4, <3>5
    <3>6. CASE l # k \/ Label(d) # Label(c)
      BY <3>1, <3>2, <3>3, <3>4, <3>6
    <3> QED BY <2>3, <3>5, <3>6
  <2> QED BY <1>1, <2>4 DEF Existing, Image
<1>4. UNCHANGED images \/ \E d \in CommitIds, l \in Components : PublishImage(d, l)
  <2>1. CASE Outside \/ UNCHANGED pipelineVars
    BY <2>1 DEF Outside, UpdateVersion, WriteFile, UpdateFails, Push, ForeignTag, ExceptionExpires, registry,
                pipelineVars
  <2> QED BY <2>1, RunWrites, StepsOfPipeline
<1> QED BY <1>2, <1>3, <1>4

\* A run leaves the publication for the release only when every image has been verified.
LEMMA ImagesStep ==
  ASSUME PipelineTyped, TagsAreForMain, TagIsBound, ImagesAreVerified, [PipelineNext]_pipelineVars
  PROVE  ImagesAreVerified'
<1> SUFFICES ASSUME NEW c \in Pushed', stage'[c] \in ReleasePoints, NEW k \in Components
             PROVE  (Existing(c, k) = {Image(c, k)})'
  BY DEF ImagesAreVerified
<1>1. c \in Pushed /\ StageIsEarned(c)
  BY StagesStayEarned DEF ReleasePoints
<1>2. CASE stage[c] \in ReleasePoints
  <2>1. Stable(c) /\ TagOf(VersionOf(c)) = c /\ Existing(c, k) = {Image(c, k)}
    BY <1>1, <1>2 DEF TagsAreForMain, TagIsBound, ImagesAreVerified
  <2> QED BY <1>1, <2>1, VerifiedImagesStay
<1>3. CASE stage[c] \notin ReleasePoints
  <2>1. Existing(c, k) = {Image(c, k)} /\ UNCHANGED images
    BY <1>1, <1>3 DEF StageIsEarned
  <2>2. Label(c)' = Label(c)
    BY <1>1, CommitsAreKept
  <2> QED BY <2>1, <2>2 DEF Existing, Image
<1> QED BY <1>2, <1>3

\* What was released stays bound, published and scanned, and a new release was all that before.
LEMMA ReleaseStep ==
  ASSUME PipelineInv, [PipelineNext]_pipelineVars
  PROVE  ReleaseIsBound'
<1> USE DEF PipelineInv
<1>1. releases' = releases \/ \E c \in CommitIds : ReleaseCreate(c)
  <2>1. CASE Outside \/ UNCHANGED pipelineVars
    BY <2>1 DEF Outside, UpdateVersion, WriteFile, UpdateFails, Push, ForeignTag, ExceptionExpires, registry,
                pipelineVars
  <2> QED BY <2>1, RunWrites, StepsOfPipeline
<1> DEFINE Released(v, c) ==
      /\ c \in Pushed /\ TagOf(v) = c /\ Stable(c) /\ VersionOf(c) = v /\ Agree(commits[c].files)
      /\ \A k \in Components :
           /\ Existing(c, k) = {Image(c, k)}
           /\ \A p \in Platforms : <<c, k, p>> \in scanned
<1>2. ASSUME NEW v \in releases
      PROVE  Released(v, TagOf(v))
  BY <1>2 DEF ReleaseIsBound
<1>3. ASSUME NEW c \in CommitIds, ReleaseCreate(c)
      PROVE  Released(VersionOf(c), c)
  <2>1. c \in Pushed /\ stage[c] = "releaseCreate"
    BY <1>3 DEF ReleaseCreate, Reached
  <2>2. Stable(c) /\ Agree(commits[c].files)
    BY <2>1 DEF TagsAreForMain, ReleasePoints, VersionFilesAgree
  <2>3. TagOf(VersionOf(c)) = c
    BY <2>1, <2>2 DEF TagIsBound, ReleasePoints
  <2> QED BY <2>1, <2>2, <2>3 DEF ImagesAreVerified, ReleasePoints, EvidenceIsScanned
<1>4. \A v \in releases' : \E c \in Pushed : Released(v, c)
  <2>1. ASSUME NEW v \in releases', v \notin releases
        PROVE  \E c \in Pushed : Released(v, c)
    BY <1>1, <1>3, <2>1 DEF ReleaseCreate
  <2> QED BY <1>2, <2>1
<1>5. ASSUME NEW v, NEW c \in Pushed, Released(v, c)
      PROVE  Released(v, c)'
  <2>1. c \in Pushed' /\ commits'[c] = commits[c] /\ VersionOf(c)' = v /\ Stable(c)'
    BY <1>5, CommitsAreKept
  <2>2. TagOf(v)' = c
    BY <1>5, BindingsAreKept
  <2>3. Agree(commits[c].files)'
    BY <1>5, <2>1 DEF Agree, Drift, Expected
  <2>4. \A k \in Components : (Existing(c, k) = {Image(c, k)})'
    BY <1>5, VerifiedImagesStay
  <2>5. \A k \in Components, p \in Platforms : <<c, k, p>> \in scanned'
    BY <1>5, ScansAreKept
  <2> QED BY <2>1, <2>2, <2>3, <2>4, <2>5
<1>6. \A v \in releases' : \E c \in Pushed : Released(v, c)'
  BY <1>4, <1>5
<1> QED BY <1>6 DEF ReleaseIsBound

\* A version is tagged only by a run whose version was found greater than every tagged one, and no
\* other run of main tags in between.
LEMMA OrderStep ==
  ASSUME PipelineInv, [PipelineNext]_pipelineVars
  PROVE  OrderIsTagged' /\ NextVersionIsGreatest' /\ TaggedVersionsGrow'
<1> USE DEF PipelineInv
<1>1. order' = order \/ \E c \in CommitIds : TagCreate(c) /\ order' # order
  <2>1. CASE Outside \/ UNCHANGED pipelineVars
    BY <2>1 DEF Outside, UpdateVersion, WriteFile, UpdateFails, Push, ForeignTag, ExceptionExpires, history,
                pipelineVars
  <2> QED BY <2>1, RunWrites, StepsOfPipeline
<1>2. Len(order) \in Nat /\ DOMAIN order = 1 .. Len(order) /\ order \in Seq(Versions)
  BY LenProperties DEF PipelineTyped
<1>3. ASSUME NEW c \in Pushed', OrderChecked(c)', NEW i \in DOMAIN order, order[i] # VersionOf(c)'
      PROVE  c \in Pushed /\ VersionOf(c)' = VersionOf(c) /\ Less(order[i], VersionOf(c))
  <2>1. c \in Pushed /\ StageIsEarned(c)
    BY <1>3, StagesStayEarned DEF OrderChecked
  <2>2. VersionOf(c)' = VersionOf(c)
    BY <2>1, CommitsAreKept
  <2>3. CASE OrderChecked(c)
    BY <1>3, <2>1, <2>2, <2>3 DEF NextVersionIsGreatest, OrderChecked
  <2>4. CASE Releasable(VersionOf(c), NoVersion, StableTags, ReleaseTags, c, TagOf(VersionOf(c)))
    <3>1. NoVersion # VersionOf(c)
      <4>1. VersionOf(c) \in Nat \X Nat \X Nat
        BY <2>1, PushedAreCommits, PipelineAssumption DEF Versions
      <4>2. << >> \notin Nat \X Nat \X Nat
        OBVIOUS
      <4> QED BY <4>1, <4>2 DEF NoVersion
    <3>2. Incrementing(VersionOf(c), NoVersion, (StableTags \cup ReleaseTags) \ {VersionOf(c)})
      BY <2>4, <3>1 DEF Releasable
    <3>3. order[i] \in (StableTags \cup ReleaseTags) \ {VersionOf(c)}
      BY <1>3, <2>2 DEF OrderIsTagged, StableTags
    <3> QED BY <2>1, <2>2, <3>2, <3>3 DEF Incrementing
  <2> QED BY <1>3, <2>1, <2>2, <2>3, <2>4 DEF StageIsEarned
<1>4. CASE order' = order
  <2>1. OrderIsTagged'
    BY <1>4, TagsAreKept DEF OrderIsTagged
  <2>2. NextVersionIsGreatest'
    BY <1>3, <1>4 DEF NextVersionIsGreatest, OrderChecked, Less
  <2>3. TaggedVersionsGrow'
    BY <1>4 DEF TaggedVersionsGrow, Less
  <2> QED BY <2>1, <2>2, <2>3
<1>5. ASSUME NEW c \in CommitIds, TagCreate(c), order' # order
      PROVE  OrderIsTagged' /\ NextVersionIsGreatest' /\ TaggedVersionsGrow'
  <2>1. /\ c \in Pushed /\ Active(c) /\ OrderChecked(c) /\ Stable(c) /\ VersionOf(c) \in Versions
        /\ stage' = [stage EXCEPT ![c] = "tagAgain"] /\ UNCHANGED <<failed, commits>>
    BY <1>5, PushedAreCommits
    DEF TagCreate, Reached, Proceeds, sources, Active, OrderChecked, TagsAreForMain, TagPoints
  <2>2. /\ VersionOf(c) \notin DOMAIN tags
        /\ DOMAIN tags' = DOMAIN tags \cup {VersionOf(c)}
        /\ order' = Append(order, VersionOf(c))
    BY <1>5 DEF TagCreate
  <2>3. /\ DOMAIN order' = 1 .. Len(order) + 1
        /\ \A i \in DOMAIN order : order'[i] = order[i]
        /\ order'[Len(order) + 1] = VersionOf(c)
    BY <1>2, <2>1, <2>2, AppendProperties
  <2>4. \A i \in DOMAIN order' : i \in DOMAIN order \/ i = Len(order) + 1
    BY <1>2, <2>3
  <2>5. \A i \in DOMAIN order : Less(order[i], VersionOf(c))
    BY <2>1, <2>2 DEF OrderIsTagged, NextVersionIsGreatest, OrderChecked
  <2>6. OrderIsTagged'
    BY <2>2, <2>3, <2>4 DEF OrderIsTagged
  <2>7. NextVersionIsGreatest'
    <3>1. ASSUME NEW d \in Pushed', OrderChecked(d)'
          PROVE  FALSE
      <4>1. d # c
        BY <2>1, <3>1 DEF OrderChecked, PipelineTyped
      <4>2. d \in Pushed /\ OrderChecked(d)
        BY <2>1, <3>1, <4>1 DEF OrderChecked, Pushed, PipelineTyped
      <4>3. Active(d) /\ Stable(d)
        BY <4>2 DEF OrderChecked, Active, TagsAreForMain, TagPoints
      <4> QED BY <2>1, <4>1, <4>2, <4>3 DEF OneRunPerBranch, Stable
    <3> QED BY <3>1 DEF NextVersionIsGreatest, OrderChecked
  <2>8. TaggedVersionsGrow'
    <3>1. ASSUME NEW i \in DOMAIN order', NEW j \in DOMAIN order', i < j
          PROVE  Less(order'[i], order'[j])
      <4>1. i \in DOMAIN order
        BY <1>2, <2>3, <3>1
      <4>2. CASE j \in DOMAIN order
        BY <2>3, <3>1, <4>1, <4>2 DEF TaggedVersionsGrow
      <4>3. CASE j = Len(order) + 1
        BY <2>3, <2>5, <4>1, <4>3
      <4> QED BY <2>4, <4>2, <4>3
    <3> QED BY <3>1 DEF TaggedVersionsGrow, Less
  <2> QED BY <2>6, <2>7, <2>8
<1> QED BY <1>1, <1>4, <1>5
-----------------------------------------------------------------------------
LEMMA PipelineInitially ==
  ASSUME PipelineInit
  PROVE  PipelineInv
<1>1. Pushed = {} /\ DOMAIN order = {} /\ DOMAIN update = {} /\ commits \in Seq(Commit) /\ Len(commits) = 0
      /\ order \in Seq(Versions)
  BY EmptySeq DEF PipelineInit, Pushed
<1>2. PipelineTyped
  BY <1>1, PipelineAssumption DEF PipelineInit, PipelineTyped, Versions, Points, CommitIds
<1> QED BY <1>1, <1>2
  DEF PipelineInit, PipelineInv, OneRunPerBranch, VersionFilesAgree, TagsAreForMain, TagIsBound,
      EvidenceIsScanned, ImagesAreVerified, ReleaseIsBound, OrderIsTagged, NextVersionIsGreatest,
      TaggedVersionsGrow

LEMMA PipelineInvStep ==
  ASSUME PipelineInv, [PipelineNext]_pipelineVars
  PROVE  PipelineInv'
BY TypedStep, OneRunStep, RunsOfMainStep, EvidenceStep, ImagesStep, ReleaseStep, OrderStep DEF PipelineInv

\* The inductive invariant of the pipeline: one run per branch, and at each stage of a run what it has
\* passed is still so, whatever other runs, re-runs and people have done since.
THEOREM PipelineInvariant == PipelineSpec => []PipelineInv
<1>1. PipelineInit => PipelineInv
  BY PipelineInitially
<1>2. PipelineInv /\ [PipelineNext]_pipelineVars => PipelineInv'
  BY PipelineInvStep
<1> QED BY <1>1, <1>2, PTL DEF PipelineSpec

\* A GitHub release is of one commit, for any number of commits, components, platforms, re-runs and
\* foreign tags.
THEOREM ReleaseIsAlwaysOfOneCommit == PipelineSpec => []ReleaseIsOfOneCommit
<1>1. PipelineInv => ReleaseIsOfOneCommit
  BY DEF PipelineInv, ReleaseIsBound, ReleaseIsOfOneCommit, Agree, VersionOf
<1> QED BY <1>1, PipelineInvariant, PTL

\* The stable versions the pipeline tags only grow.
THEOREM TaggedVersionsAlwaysGrow == PipelineSpec => []TaggedVersionsGrow
<1>1. PipelineInv => TaggedVersionsGrow
  BY DEF PipelineInv
<1> QED BY <1>1, PipelineInvariant, PTL

\* Two runs of one branch are never under way together: the property the other theorems rest on.
THEOREM OneRunOfABranch == PipelineSpec => []OneRunPerBranch
<1>1. PipelineInv => OneRunPerBranch
  BY DEF PipelineInv
<1> QED BY <1>1, PipelineInvariant, PTL
=============================================================================
