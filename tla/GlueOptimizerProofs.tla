------------------------ MODULE GlueOptimizerProofs ------------------------
(***************************************************************************)
(* Proofs about GlueOptimizer for every value of its constants: any number *)
(* of tables, runs and workers, any history and failure limit.             *)
(***************************************************************************)
EXTENDS GlueOptimizer, SequenceTheorems, FiniteSetTheorems, TLAPS

-----------------------------------------------------------------------------
(***************************************************************************)
(* What the methods of the aggregate keep.                                 *)
(***************************************************************************)
ScheduleAgrees(o) ==
  /\ HasActiveRun(o) => o.enabled /\ o.next = "none"
  /\ o.enabled /\ ~HasActiveRun(o) => o.next # "none"
  /\ ~o.enabled => o.next = "none"

Settled(runs) ==
  /\ Len(runs) <= HistoryLimit
  /\ \A i \in DOMAIN runs : i < Len(runs) => runs[i].state \in TerminalRunState

NotGivenUp(o) == o.type = "compaction" /\ o.enabled => o.failures < FailureLimit

Good(o) ==
  /\ o \in Optimizer
  /\ ScheduleAgrees(o)
  /\ Settled(o.runs)
  /\ NotGivenUp(o)

\* The history of an optimizer, position by position.
LEMMA Runs ==
  ASSUME NEW o \in Optimizer
  PROVE  /\ o.runs \in Seq(Run)
         /\ Len(o.runs) \in Nat
         /\ DOMAIN o.runs = 1..Len(o.runs)
         /\ o.runs # <<>> => Len(o.runs) \in DOMAIN o.runs
         /\ \A i \in DOMAIN o.runs : o.runs[i] \in Run
<1>1. o.runs \in Seq(Run)
  BY DEF Optimizer
<1>2. Len(o.runs) \in Nat /\ DOMAIN o.runs = 1..Len(o.runs)
  BY <1>1, LenProperties
<1>3. \A i \in DOMAIN o.runs : o.runs[i] \in Run
  BY <1>1, <1>2, ElementOfSeq
<1>4. o.runs # <<>> => Len(o.runs) \in DOMAIN o.runs
  BY <1>1, <1>2, EmptySeq
<1> QED BY <1>1, <1>2, <1>3, <1>4

\* The state of the newest run is replaced, and nothing else.
LEMMA ActiveRunIsSet ==
  ASSUME NEW o \in Optimizer, HasActiveRun(o),
         NEW state \in ActiveRunState \cup TerminalRunState
  PROVE  /\ SetActiveRun(o, state) \in Seq(Run)
         /\ Len(SetActiveRun(o, state)) = Len(o.runs)
         /\ SetActiveRun(o, state) # <<>>
         /\ DOMAIN SetActiveRun(o, state) = DOMAIN o.runs
         /\ \A i \in DOMAIN o.runs :
              SetActiveRun(o, state)[i] =
                IF i = Len(o.runs) THEN [o.runs[i] EXCEPT !.state = state] ELSE o.runs[i]
         /\ SetActiveRun(o, state)[Len(o.runs)].state = state
         /\ SetActiveRun(o, state)[Len(o.runs)].id = o.runs[Len(o.runs)].id
<1> DEFINE last == Len(o.runs)
           new  == [o.runs[last] EXCEPT !.state = state]
<1>1. last \in 1..Len(o.runs) /\ last \in DOMAIN o.runs /\ o.runs \in Seq(Run)
  BY Runs DEF HasActiveRun
<1>2. new \in Run /\ new.state = state /\ new.id = o.runs[last].id
  <2>1. o.runs[last] \in Run
    BY <1>1, Runs
  <2> QED BY <2>1 DEF Run
<1>3. SetActiveRun(o, state) = [o.runs EXCEPT ![last] = new]
  BY DEF SetActiveRun
<1>4. /\ SetActiveRun(o, state) \in Seq(Run)
      /\ Len(SetActiveRun(o, state)) = Len(o.runs)
      /\ \A j \in 1..Len(o.runs) :
           SetActiveRun(o, state)[j] = IF j = last THEN new ELSE o.runs[j]
  <2> HIDE DEF new, last
  <2> QED BY <1>1, <1>2, <1>3, ExceptSeq
<1>5. DOMAIN SetActiveRun(o, state) = 1..Len(o.runs) /\ DOMAIN o.runs = 1..Len(o.runs)
  BY <1>4, Runs, LenProperties
<1>6. SetActiveRun(o, state) # <<>>
  BY <1>1, <1>4, EmptySeq
<1> QED BY <1>1, <1>2, <1>4, <1>5, <1>6

\* A settled history stays settled when its newest run changes its state.
LEMMA ActiveRunSettles ==
  ASSUME NEW o \in Optimizer, HasActiveRun(o), Settled(o.runs),
         NEW state \in ActiveRunState \cup TerminalRunState
  PROVE  Settled(SetActiveRun(o, state))
<1> DEFINE new == SetActiveRun(o, state)
<1>1. /\ Len(new) = Len(o.runs) /\ DOMAIN new = DOMAIN o.runs
      /\ \A i \in DOMAIN o.runs : i # Len(o.runs) => new[i] = o.runs[i]
  BY ActiveRunIsSet
<1>2. Len(o.runs) \in Nat /\ DOMAIN o.runs = 1..Len(o.runs)
  BY Runs
<1>3. ASSUME NEW i \in DOMAIN new, i < Len(new) PROVE new[i].state \in TerminalRunState
  <2>1. i \in DOMAIN o.runs /\ i < Len(o.runs) /\ i # Len(o.runs)
    BY <1>1, <1>2, <1>3
  <2> QED BY <1>1, <2>1 DEF Settled
<1> QED BY <1>1, <1>3 DEF Settled

\* A table without an optimizer, and an optimizer just created.
LEMMA FreshOptimizers ==
  /\ Good(NoOptimizer)
  /\ \A type \in OptimizerType, enabled \in BOOLEAN : Good(NewOptimizer(type, enabled))
<1>1. <<>> \in Seq(Run) /\ Len(<<>>) = 0 /\ DOMAIN <<>> = {}
  <2>1. <<>> \in Seq(Run) /\ Len(<<>>) = 0
    BY EmptySeq
  <2>2. DOMAIN <<>> = 1..0
    BY <2>1, LenProperties
  <2> QED BY <2>1, <2>2
<1>2. Settled(<<>>)
  BY <1>1, PolicyAssumption DEF Settled
<1>3. Good(NoOptimizer)
  BY <1>1, <1>2 DEF Good, NoOptimizer, Optimizer, ScheduleAgrees, HasActiveRun, NotGivenUp, Schedule
<1>4. ASSUME NEW type \in OptimizerType, NEW enabled \in BOOLEAN
      PROVE  Good(NewOptimizer(type, enabled))
  BY <1>1, <1>2, PolicyAssumption
     DEF Good, NewOptimizer, NextRun, Optimizer, ScheduleAgrees, HasActiveRun, NotGivenUp, Schedule
<1> QED BY <1>3, <1>4

\* Cancelling the active run leaves an optimizer at rest, due again if it is enabled.
LEMMA CancelKeepsGood ==
  ASSUME NEW o, Good(o)
  PROVE  /\ Good(CancelActiveRun(o))
         /\ ~HasActiveRun(CancelActiveRun(o))
<1>1. CASE ~HasActiveRun(o)
  BY <1>1 DEF CancelActiveRun
<1>2. CASE HasActiveRun(o)
  <2> DEFINE new == CancelRun(o)
             hist == SetActiveRun(o, "failed")
  <2>1. "failed" \in ActiveRunState \cup TerminalRunState /\ "failed" \notin ActiveRunState
    BY DEF ActiveRunState, TerminalRunState
  <2>2. /\ hist \in Seq(Run) /\ Len(hist) = Len(o.runs)
        /\ hist[Len(o.runs)].state = "failed"
        /\ Settled(hist)
    BY <1>2, <2>1, ActiveRunIsSet, ActiveRunSettles DEF Good
  <2>3. /\ new.type = o.type /\ new.enabled = o.enabled /\ new.failures = o.failures
        /\ new.runs = hist /\ new.next = (IF o.enabled THEN "due" ELSE "none")
        /\ new \in Optimizer
    <3> HIDE DEF hist
    <3> QED BY <2>2 DEF CancelRun, Good, Optimizer, Schedule, hist
  <2>4. ~HasActiveRun(new)
    BY <2>1, <2>2, <2>3 DEF HasActiveRun
  <2>5. Good(new)
    <3> HIDE DEF new, hist
    <3> QED BY <2>2, <2>3, <2>4 DEF Good, ScheduleAgrees, NotGivenUp
  <2> QED BY <1>2, <2>4, <2>5 DEF CancelActiveRun
<1> QED BY <1>1, <1>2

LEMMA ReviseKeepsGood ==
  ASSUME NEW o, Good(o), ~HasActiveRun(o), NEW enabled \in BOOLEAN
  PROVE  Good(Revise(o, enabled))
<1> DEFINE new == Revise(o, enabled)
<1>1. /\ new \in Optimizer /\ new.runs = o.runs /\ new.enabled = enabled
      /\ new.next = NextRun(enabled) /\ new.failures = 0
  <2> DEFINE next == NextRun(enabled)
  <2>1. next \in Schedule /\ o \in Optimizer
    BY DEF NextRun, Schedule, Good
  <2>2. o.revision + 1 \in Nat
    BY <2>1 DEF Optimizer
  <2>3. new = [o EXCEPT !.enabled = enabled, !.next = next,
                        !.revision = o.revision + 1, !.failures = 0]
    BY DEF Revise
  <2> HIDE DEF next, new
  <2>4. /\ new \in Optimizer /\ new.runs = o.runs /\ new.enabled = enabled
        /\ new.next = next /\ new.failures = 0
    BY <2>1, <2>2, <2>3 DEF Optimizer
  <2> QED BY <2>4 DEF next, new
<1>2. ~HasActiveRun(new)
  BY <1>1 DEF HasActiveRun
<1>3. Good(new)
  <2> HIDE DEF new
  <2> QED BY <1>1, <1>2, PolicyAssumption DEF Good, ScheduleAgrees, NotGivenUp, NextRun
<1> QED BY <1>3

\* The kept part of a history is its end.
LEMMA LastRunsIsEnd ==
  ASSUME NEW runs \in Seq(Run), runs # <<>>
  PROVE  /\ LastRuns(runs) \in Seq(Run)
         /\ LastRuns(runs) # <<>>
         /\ Len(LastRuns(runs)) \in 1..HistoryLimit
         /\ LastRuns(runs)[Len(LastRuns(runs))] = runs[Len(runs)]
         /\ \E d \in Nat :
              /\ Len(runs) = Len(LastRuns(runs)) + d
              /\ \A i \in DOMAIN LastRuns(runs) :
                   i + d \in DOMAIN runs /\ LastRuns(runs)[i] = runs[i + d]
<1>1. /\ Len(runs) \in Nat \ {0} /\ DOMAIN runs = 1..Len(runs)
      /\ \A j \in 1..Len(runs) : runs[j] \in Run
      /\ HistoryLimit \in Nat \ {0}
  BY EmptySeq, LenProperties, ElementOfSeq, PolicyAssumption
<1>2. CASE Len(runs) <= HistoryLimit
  <2>1. LastRuns(runs) = runs
    BY <1>2 DEF LastRuns
  <2>2. \E d \in Nat :
          /\ Len(runs) = Len(LastRuns(runs)) + d
          /\ \A i \in DOMAIN LastRuns(runs) :
               i + d \in DOMAIN runs /\ LastRuns(runs)[i] = runs[i + d]
    <3>1. Len(runs) = Len(runs) + 0 /\ \A i \in DOMAIN runs : i + 0 \in DOMAIN runs /\ runs[i] = runs[i + 0]
      BY <1>1
    <3> WITNESS 0 \in Nat
    <3> QED BY <2>1, <3>1
  <2>3. Len(runs) \in 1..HistoryLimit
    BY <1>1, <1>2
  <2> QED BY <2>1, <2>2, <2>3
<1>3. CASE ~(Len(runs) <= HistoryLimit)
  <2> DEFINE first == Len(runs) - HistoryLimit + 1
             kept  == SubSeq(runs, first, Len(runs))
  <2>1. first \in 1..Len(runs) /\ Len(runs) - first + 1 = HistoryLimit
    BY <1>1, <1>3
  <2>2. \A j \in first..Len(runs) : runs[j] \in Run
    BY <1>1, <2>1
  <2>3. /\ kept \in Seq(Run)
        /\ Len(kept) = HistoryLimit
        /\ \A i \in 1..HistoryLimit : kept[i] = runs[first + i - 1]
    <3>1. /\ kept \in Seq(Run)
          /\ Len(kept) = IF first <= Len(runs) THEN Len(runs) - first + 1 ELSE 0
          /\ \A i \in 1..(Len(runs) - first + 1) : kept[i] = runs[first + i - 1]
      <4> HIDE DEF first
      <4> QED BY <1>1, <2>1, <2>2, SubSeqProperties
    <3> QED BY <2>1, <3>1
  <2>4. DOMAIN kept = 1..HistoryLimit /\ kept # <<>>
    BY <1>1, <2>3, LenProperties, EmptySeq
  <2>5. kept[Len(kept)] = runs[Len(runs)]
    BY <1>1, <2>3, <2>1
  <2>6. /\ first - 1 \in Nat /\ Len(runs) = Len(kept) + (first - 1)
        /\ \A i \in DOMAIN kept :
             i + (first - 1) \in DOMAIN runs /\ kept[i] = runs[i + (first - 1)]
    <3>1. first - 1 \in Nat /\ Len(runs) = Len(kept) + (first - 1)
      BY <1>1, <2>1, <2>3
    <3>2. ASSUME NEW i \in DOMAIN kept
          PROVE  i + (first - 1) \in DOMAIN runs /\ kept[i] = runs[i + (first - 1)]
      <4>1. i \in 1..HistoryLimit /\ first + i - 1 = i + (first - 1) /\ kept[i] = runs[first + i - 1]
        BY <1>1, <2>1, <2>3, <2>4
      <4> QED BY <1>1, <2>1, <4>1
    <3> QED BY <3>1, <3>2
  <2>7. LastRuns(runs) = kept
    BY <1>3 DEF LastRuns
  <2>8. \E d \in Nat :
          /\ Len(runs) = Len(LastRuns(runs)) + d
          /\ \A i \in DOMAIN LastRuns(runs) :
               i + d \in DOMAIN runs /\ LastRuns(runs)[i] = runs[i + d]
    <3> HIDE DEF kept, first
    <3> first - 1 \in Nat
      BY <2>6
    <3> WITNESS first - 1 \in Nat
    <3> QED BY <2>6, <2>7
  <2>9. Len(kept) \in 1..HistoryLimit
    BY <1>1, <2>3
  <2> HIDE DEF kept, first
  <2> QED BY <2>3, <2>4, <2>5, <2>7, <2>8, <2>9
<1> QED BY <1>2, <1>3

\* Claiming an optimizer at rest appends one starting run to its history.
LEMMA ClaimKeepsGood ==
  ASSUME NEW o, Good(o), o.enabled, o.next = "due", NEW id \in RunIds
  PROVE  /\ Good(ClaimRun(o, id))
         /\ IsActiveRun(ClaimRun(o, id), id)
<1> DEFINE run  == [id |-> id, state |-> "starting"]
           all  == Append(o.runs, run)
           kept == LastRuns(all)
           new  == ClaimRun(o, id)
<1>1. ~HasActiveRun(o)
  BY DEF Good, ScheduleAgrees
<1>2. run \in Run /\ run.id = id /\ run.state \in ActiveRunState
  BY DEF Run, ActiveRunState
<1>3. o.runs \in Seq(Run) /\ Len(o.runs) \in Nat /\ DOMAIN o.runs = 1..Len(o.runs)
  BY Runs DEF Good
<1>4. /\ all \in Seq(Run) /\ Len(all) = Len(o.runs) + 1 /\ all # <<>>
      /\ DOMAIN all = 1..(Len(o.runs) + 1)
      /\ all[Len(all)] = run
      /\ \A j \in DOMAIN o.runs : all[j] = o.runs[j]
  <2> HIDE DEF run
  <2>1. all \in Seq(Run) /\ Len(all) = Len(o.runs) + 1 /\ all[Len(o.runs) + 1] = run
        /\ \A j \in 1..Len(o.runs) : all[j] = o.runs[j]
    BY <1>2, <1>3
  <2>2. all # <<>> /\ DOMAIN all = 1..Len(all)
    <3> HIDE DEF all
    <3> QED BY <1>3, <2>1, EmptySeq, LenProperties
  <2> QED BY <1>3, <2>1, <2>2
<1>5. ASSUME NEW j \in DOMAIN all, j < Len(all) PROVE all[j].state \in TerminalRunState
  <2>1. j \in DOMAIN o.runs /\ all[j] = o.runs[j]
    BY <1>3, <1>4, <1>5
  <2>2. j < Len(o.runs) => o.runs[j].state \in TerminalRunState
    BY <2>1 DEF Good, Settled
  <2>3. j = Len(o.runs) => o.runs[j].state \in TerminalRunState
    <3>1. o.runs[j] \in Run
      BY <2>1, Runs DEF Good
    <3>2. j = Len(o.runs) => o.runs[j].state \notin ActiveRunState
      BY <1>1, <1>3, <2>1, EmptySeq DEF HasActiveRun
    <3> QED BY <3>1, <3>2 DEF Run
  <2> QED BY <1>3, <2>1, <2>2, <2>3
<1>6. /\ kept \in Seq(Run) /\ kept # <<>> /\ Len(kept) \in 1..HistoryLimit
      /\ kept[Len(kept)] = run
      /\ \A i \in DOMAIN kept : i < Len(kept) => kept[i].state \in TerminalRunState
  <2> HIDE DEF all, run
  <2>1. /\ kept \in Seq(Run) /\ kept # <<>> /\ Len(kept) \in 1..HistoryLimit
        /\ kept[Len(kept)] = run
    BY <1>4, LastRunsIsEnd
  <2>2. PICK d \in Nat :
          /\ Len(all) = Len(kept) + d
          /\ \A i \in DOMAIN kept : i + d \in DOMAIN all /\ kept[i] = all[i + d]
    BY <1>4, LastRunsIsEnd
  <2>3. ASSUME NEW i \in DOMAIN kept, i < Len(kept) PROVE kept[i].state \in TerminalRunState
    <3> HIDE DEF kept
    <3>1. Len(kept) \in Nat /\ i \in Nat
      BY <2>1, LenProperties
    <3>2. i + d \in DOMAIN all /\ kept[i] = all[i + d] /\ i + d < Len(all)
      BY <2>2, <2>3, <3>1
    <3> QED BY <1>5, <3>2
  <2> QED BY <2>1, <2>3
<1>7. Settled(kept)
  BY <1>6, PolicyAssumption DEF Settled
<1>8. /\ new \in Optimizer /\ new.runs = kept /\ new.next = "none"
      /\ new.type = o.type /\ new.enabled = o.enabled /\ new.failures = o.failures
  <2>1. new = [o EXCEPT !.runs = kept, !.next = "none"]
    BY DEF ClaimRun
  <2> HIDE DEF kept, new
  <2> QED BY <1>6, <2>1 DEF Good, Optimizer, Schedule
<1>9. HasActiveRun(new) /\ IsActiveRun(new, id)
  <2> HIDE DEF kept, new
  <2> QED BY <1>2, <1>6, <1>8 DEF HasActiveRun, IsActiveRun, run
<1>10. Good(new)
  <2> HIDE DEF new, kept
  <2> QED BY <1>7, <1>8, <1>9 DEF Good, ScheduleAgrees, NotGivenUp
<1> QED BY <1>9, <1>10

\* The three outcomes a worker reports for an active run.
LEMMA ReportKeepsGood ==
  ASSUME NEW o, Good(o), HasActiveRun(o)
  PROVE  Good(MarkInProgress(o)) /\ Good(CompleteRun(o)) /\ Good(FailRun(o))
<1>1. o \in Optimizer /\ o.enabled /\ o.failures \in Nat /\ Settled(o.runs)
  BY DEF Good, ScheduleAgrees, Optimizer
<1>2. \A state \in ActiveRunState \cup TerminalRunState :
        LET hist == SetActiveRun(o, state) IN
        /\ hist \in Seq(Run) /\ hist # <<>> /\ Settled(hist)
        /\ hist[Len(hist)].state = state
  BY <1>1, ActiveRunIsSet, ActiveRunSettles
<1>3. Good(MarkInProgress(o))
  <2> DEFINE hist == SetActiveRun(o, "in_progress")
             new  == MarkInProgress(o)
  <2>1. hist \in Seq(Run) /\ hist # <<>> /\ Settled(hist) /\ hist[Len(hist)].state \in ActiveRunState
    BY <1>2 DEF ActiveRunState
  <2>2. new = [o EXCEPT !.runs = hist]
    BY DEF MarkInProgress
  <2>3. /\ new \in Optimizer /\ new.runs = hist /\ new.type = o.type /\ new.enabled = o.enabled
        /\ new.failures = o.failures /\ new.next = o.next
    <3> HIDE DEF hist, new
    <3> QED BY <1>1, <2>1, <2>2 DEF Optimizer
  <2>4. HasActiveRun(new)
    <3> HIDE DEF hist, new
    <3> QED BY <2>1, <2>3 DEF HasActiveRun
  <2>5. Good(new)
    <3> HIDE DEF hist, new
    <3> QED BY <2>1, <2>3, <2>4 DEF Good, ScheduleAgrees, NotGivenUp
  <2> QED BY <2>5
<1>4. Good(CompleteRun(o))
  <2> DEFINE hist == SetActiveRun(o, "completed")
             new  == CompleteRun(o)
  <2>1. hist \in Seq(Run) /\ hist # <<>> /\ Settled(hist) /\ hist[Len(hist)].state \notin ActiveRunState
    BY <1>2 DEF ActiveRunState, TerminalRunState
  <2>2. new = [o EXCEPT !.runs = hist, !.next = "later", !.failures = 0]
    BY DEF CompleteRun
  <2>3. /\ new \in Optimizer /\ new.runs = hist /\ new.enabled = o.enabled
        /\ new.failures = 0 /\ new.next = "later"
    <3> HIDE DEF hist, new
    <3> QED BY <1>1, <2>1, <2>2 DEF Optimizer, Schedule
  <2>4. ~HasActiveRun(new)
    <3> HIDE DEF hist, new
    <3> QED BY <2>1, <2>3 DEF HasActiveRun
  <2>5. Good(new)
    <3> HIDE DEF hist, new
    <3> QED BY <1>1, <2>1, <2>3, <2>4, PolicyAssumption DEF Good, ScheduleAgrees, NotGivenUp
  <2> QED BY <2>5
<1>5. Good(FailRun(o))
  <2> DEFINE hist == SetActiveRun(o, "failed")
             new  == FailRun(o)
             next == IF GivenUp(o) THEN "none" ELSE "later"
  <2>1. hist \in Seq(Run) /\ hist # <<>> /\ Settled(hist) /\ hist[Len(hist)].state \notin ActiveRunState
    BY <1>2 DEF ActiveRunState, TerminalRunState
  <2>2. new = [o EXCEPT !.runs = hist, !.failures = o.failures + 1,
                        !.enabled = o.enabled /\ ~GivenUp(o), !.next = next]
    BY DEF FailRun
  <2>3. (o.enabled /\ ~GivenUp(o)) \in BOOLEAN /\ next \in Schedule /\ o.failures + 1 \in Nat
    BY <1>1 DEF Schedule
  <2>4. /\ new.runs = hist /\ new.type = o.type /\ new.enabled = (o.enabled /\ ~GivenUp(o))
        /\ new.failures = o.failures + 1 /\ new.next = next
        /\ new \in Optimizer
    <3> HIDE DEF hist, new, next
    <3> QED BY <1>1, <2>1, <2>2, <2>3 DEF Optimizer
  <2>5. ~HasActiveRun(new)
    <3> HIDE DEF hist, new
    <3> QED BY <2>1, <2>4 DEF HasActiveRun
  <2>6. ScheduleAgrees(new)
    <3> HIDE DEF hist, new
    <3> QED BY <1>1, <2>4, <2>5 DEF ScheduleAgrees
  <2>7. NotGivenUp(new)
    <3>1. ~GivenUp(o) /\ o.type = "compaction" => o.failures + 1 < FailureLimit
      BY <1>1, PolicyAssumption DEF GivenUp
    <3> HIDE DEF hist, new
    <3> QED BY <2>4, <3>1 DEF NotGivenUp
  <2>8. Good(new)
    <3> HIDE DEF hist, new
    <3> QED BY <2>1, <2>4, <2>6, <2>7 DEF Good
  <2> QED BY <2>8
<1> QED BY <1>3, <1>4, <1>5

\* The clock passes the next run time of an optimizer.
LEMMA DueKeepsGood ==
  ASSUME NEW o, Good(o), o.next = "later"
  PROVE  Good([o EXCEPT !.next = "due"])
<1> DEFINE new == [o EXCEPT !.next = "due"]
<1>1. /\ new \in Optimizer /\ new.runs = o.runs /\ new.type = o.type /\ new.enabled = o.enabled
      /\ new.failures = o.failures /\ new.next = "due"
  BY DEF Good, Optimizer, Schedule
<1>2. HasActiveRun(new) <=> HasActiveRun(o)
  BY <1>1 DEF HasActiveRun
<1>3. Good(new)
  <2> HIDE DEF new
  <2> QED BY <1>1, <1>2 DEF Good, ScheduleAgrees, NotGivenUp
<1> QED BY <1>3

-----------------------------------------------------------------------------
(***************************************************************************)
(* Types, and the consistency of every optimizer.                          *)
(***************************************************************************)
GoodOptimizers ==
  /\ optimizer \in [Names -> Optimizer]
  /\ \A n \in Names : Good(optimizer[n])

TypedInv == TypeOK /\ GoodOptimizers

\* Where a worker can go without being claimed or lost to a crash.
TaskPc == WorkerPc \ {"none", "claimed", "gone"}

\* Cancelling a worker, or ending its stopper, gives a worker of the same claim.
LEMMA WorkerChanges ==
  ASSUME NEW w \in Worker
  PROVE  /\ CancelWorker(w) \in Worker
         /\ AfterStop(w) \in Worker
         /\ \A pc \in WorkerPc :
              /\ [w EXCEPT !.pc = pc] \in Worker
              /\ [w EXCEPT !.pc = pc, !.stopper = TRUE] \in Worker
              /\ [w EXCEPT !.pc = pc, !.lost = TRUE] \in Worker
              /\ [w EXCEPT !.pc = pc, !.owned = TRUE] \in Worker
              /\ [w EXCEPT !.recording = FALSE, !.pc = pc] \in Worker
              /\ [w EXCEPT !.recording = FALSE, !.pc = pc, !.lost = TRUE] \in Worker
         /\ [w EXCEPT !.owned = FALSE] \in Worker
<1>1. CancelWorker(w) \in Worker
  BY DEF Worker, WorkerPc, CancelWorker, Interrupted
<1>2. AfterStop(w) \in Worker
  BY DEF Worker, WorkerPc, AfterStop, Interrupted
<1> QED BY <1>1, <1>2 DEF Worker

LEMMA OneWorker ==
  ASSUME worker \in [RunIds -> Worker], NEW r \in RunIds, NEW w \in Worker,
         worker' = [worker EXCEPT ![r] = w]
  PROVE  worker' \in [RunIds -> Worker]
OBVIOUS

LEMMA GotoType ==
  ASSUME worker \in [RunIds -> Worker], NEW r \in RunIds, NEW pc \in WorkerPc, Goto(r, pc)
  PROVE  worker' \in [RunIds -> Worker]
BY DEF Goto, Worker

\* Replacing one optimizer by a good one.
LEMMA OneOptimizer ==
  ASSUME GoodOptimizers, NEW n \in Names, NEW o, Good(o),
         optimizer' = [optimizer EXCEPT ![n] = o]
  PROVE  GoodOptimizers'
BY DEF GoodOptimizers, Good

\* What a worker reports is a change of a good optimizer, or nothing.
LEMMA TransitionKeepsGood ==
  ASSUME TypedInv, NEW r \in RunIds, NEW o, Transition(r, o),
         HasActiveRun(Claimed(r)) /\ Good(Claimed(r)) => Good(o)
  PROVE  GoodOptimizers'
<1>1. CASE Current(r)
  <2>1. /\ worker[r].name \in Names
        /\ optimizer' = [optimizer EXCEPT ![worker[r].name] = o]
        /\ HasActiveRun(Claimed(r)) /\ Good(Claimed(r))
    BY <1>1 DEF Current, Transition, IsActiveRun, Claimed, TypedInv, GoodOptimizers
  <2> QED BY <2>1, OneOptimizer DEF TypedInv
<1>2. CASE ~Current(r)
  BY <1>2 DEF Transition, TypedInv, GoodOptimizers
<1> QED BY <1>1, <1>2

LEMMA CommandKeepsTyped ==
  ASSUME TypedInv, NEW n \in Names, Command(n)
  PROVE  TypedInv'
<1> USE DEF TypedInv
<1>1. /\ table' \in [Names -> TableState] => TypedInv' \/ ~GoodOptimizers'
      /\ table \in [Names -> TableState] /\ TableFormats \subseteq TableState
      /\ "absent" \in TableState
  BY ConstantsAssumption DEF TypeOK, Command, GoodOptimizers, TableState
<1>2. CASE CreateTable(n)
  BY <1>1, <1>2 DEF CreateTable, GoodOptimizers
<1>3. CASE UpdateTable(n)
  <2> PICK format \in TableFormats :
       \/ /\ table' = [table EXCEPT ![n] = format]
          /\ UNCHANGED optimizer
       \/ \E m \in Names :
            /\ table[m] = "absent"
            /\ table' = [table EXCEPT ![n] = "absent", ![m] = format]
            /\ optimizer' = [optimizer EXCEPT ![n] = NoOptimizer, ![m] = Moved(optimizer[n])]
    BY <1>3 DEF UpdateTable
  <2>1. CASE table' = [table EXCEPT ![n] = format] /\ UNCHANGED optimizer
    BY <1>1, <2>1 DEF GoodOptimizers
  <2>2. ASSUME NEW m \in Names,
               table' = [table EXCEPT ![n] = "absent", ![m] = format],
               optimizer' = [optimizer EXCEPT ![n] = NoOptimizer, ![m] = Moved(optimizer[n])]
        PROVE  TypedInv'
    <3>1. Good(NoOptimizer) /\ Good(Moved(optimizer[n]))
      BY FreshOptimizers, CancelKeepsGood DEF Moved, GoodOptimizers
    <3>2. GoodOptimizers'
      BY <2>2, <3>1 DEF GoodOptimizers, Good
    <3> QED BY <1>1, <2>2, <3>2
  <2> QED BY <2>1, <2>2
<1>4. CASE DeleteTable(n)
  BY <1>1, <1>4, FreshOptimizers, OneOptimizer DEF DeleteTable
<1>5. CASE CreateTableOptimizer(n)
  <2> PICK type \in Types, enabled \in BOOLEAN :
       optimizer' = [optimizer EXCEPT ![n] = NewOptimizer(type, enabled)]
    BY <1>5 DEF CreateTableOptimizer, InsertOptimizer
  <2>1. Good(NewOptimizer(type, enabled))
    BY FreshOptimizers, ConstantsAssumption
  <2> QED BY <1>1, <1>5, <2>1, OneOptimizer DEF CreateTableOptimizer, InsertOptimizer
<1>6. CASE UpdateTableOptimizer(n)
  <2> PICK enabled \in BOOLEAN :
       optimizer' = [optimizer EXCEPT ![n] = Revise(CancelActiveRun(@), enabled)]
    BY <1>6 DEF UpdateTableOptimizer, ReplaceOptimizer
  <2>1. Good(Revise(CancelActiveRun(optimizer[n]), enabled))
    BY CancelKeepsGood, ReviseKeepsGood DEF GoodOptimizers
  <2> QED BY <1>1, <1>6, <2>1, OneOptimizer DEF UpdateTableOptimizer, ReplaceOptimizer
<1>7. CASE DeleteTableOptimizer(n)
  BY <1>1, <1>7, FreshOptimizers, OneOptimizer DEF DeleteTableOptimizer, RemoveOptimizer
<1> QED BY <1>2, <1>3, <1>4, <1>5, <1>6, <1>7 DEF Command

\* A refused transaction has the worker record a failure, or leaves it lost.
LEMMA RefusedEffect ==
  ASSUME worker \in [RunIds -> Worker], NEW r \in RunIds, Refused(r)
  PROVE  /\ \A s \in RunIds \ {r} : worker'[s] = worker[s]
         /\ worker'[r].name = worker[r].name
         /\ worker'[r].revision = worker[r].revision
         /\ worker'[r].owned = worker[r].owned
         /\ worker'[r].pc = "failing" \/ (worker'[r].pc = "left" /\ worker'[r].lost)
         /\ worker'[r].recording => worker[r].recording
         /\ worker'[r].pc = "failing" => worker[r].pc \in {"marking", "completing"}
         /\ process' = process
<1> DEFINE w == worker[r]
           v1 == [w EXCEPT !.pc = "failing"]
           v2 == [w EXCEPT !.pc = "left", !.lost = TRUE]
           v3 == [w EXCEPT !.recording = FALSE, !.pc = "left", !.lost = TRUE]
<1>1. \/ worker' = [worker EXCEPT ![r] = v1] /\ w.pc \in {"marking", "completing"}
      \/ worker' = [worker EXCEPT ![r] = v2]
      \/ worker' = [worker EXCEPT ![r] = v3]
  BY Zenon DEF Refused, Goto
<1>2. /\ v1.name = w.name /\ v1.revision = w.revision /\ v1.owned = w.owned /\ v1.pc = "failing"
      /\ v1.recording = w.recording
  BY DEF Worker
<1>3. /\ v2.name = w.name /\ v2.revision = w.revision /\ v2.owned = w.owned /\ v2.pc = "left"
      /\ v2.lost /\ v2.recording = w.recording
  BY DEF Worker
<1>4. /\ v3.name = w.name /\ v3.revision = w.revision /\ v3.owned = w.owned /\ v3.pc = "left"
      /\ v3.lost /\ ~v3.recording
  BY DEF Worker
<1>5. process' = process
  BY DEF Refused
<1>6. CASE worker' = [worker EXCEPT ![r] = v1] /\ w.pc \in {"marking", "completing"}
  <2> HIDE DEF v1
  <2> QED BY <1>2, <1>5, <1>6
<1>7. CASE worker' = [worker EXCEPT ![r] = v2]
  <2> HIDE DEF v2
  <2> QED BY <1>3, <1>5, <1>7
<1>8. CASE worker' = [worker EXCEPT ![r] = v3]
  <2> HIDE DEF v3
  <2> QED BY <1>4, <1>5, <1>8
<1> QED BY <1>1, <1>6, <1>7, <1>8

LEMMA WorkerKeepsTyped ==
  ASSUME TypedInv, NEW r \in RunIds, Work(r) \/ Finish(r) \/ StrayEnds(r)
  PROVE  TypedInv'
<1> USE DEF TypedInv
<1>1. /\ worker \in [RunIds -> Worker] /\ process \in [RunIds -> {"none", "running", "signalled"}]
      /\ table' = table /\ scheduler' = scheduler
  BY DEF TypeOK, Work, Finish, StrayEnds
<1>2. SUFFICES /\ GoodOptimizers'
               /\ worker' \in [RunIds -> Worker]
               /\ process' \in [RunIds -> {"none", "running", "signalled"}]
  BY <1>1 DEF TypeOK, GoodOptimizers
<1>3. optimizer' = optimizer => GoodOptimizers'
  BY DEF GoodOptimizers
<1>4. CASE Start(r)
  BY <1>1, <1>3, <1>4, GotoType DEF Start, WorkerPc
<1>5. CASE Mark(r)
  <2>1. GoodOptimizers'
    <3>1. Transition(r, MarkInProgress(Claimed(r)))
      BY <1>5 DEF Mark
    <3> QED BY <3>1, TransitionKeepsGood, ReportKeepsGood
  <2>2. worker' \in [RunIds -> Worker] /\ process' = process
    BY <1>1, <1>5, GotoType DEF Mark, WorkerPc
  <2> QED BY <1>1, <2>1, <2>2
<1>6. CASE Spawn(r)
  BY <1>1, <1>3, <1>6, GotoType DEF Spawn, WorkerPc
<1>7. CASE Exit(r)
  <2>1. worker' \in [RunIds -> Worker]
    BY <1>1, <1>7, GotoType DEF Exit, WorkerPc
  <2> QED BY <1>1, <1>3, <1>7, <2>1 DEF Exit
<1>8. CASE Timeout(r)
  BY <1>1, <1>3, <1>8, WorkerChanges, OneWorker DEF Timeout, WorkerPc
<1>9. CASE Stopped(r)
  BY <1>1, <1>3, <1>9, WorkerChanges DEF Stopped
<1>10. CASE Complete(r)
  <2>1. GoodOptimizers'
    <3>1. Transition(r, CompleteRun(Claimed(r)))
      BY <1>10 DEF Complete
    <3> QED BY <3>1, TransitionKeepsGood, ReportKeepsGood
  <2>2. worker' \in [RunIds -> Worker] /\ process' = process
    BY <1>1, <1>10, GotoType DEF Complete, WorkerPc
  <2> QED BY <1>1, <2>1, <2>2
<1>11. CASE RecordFailure(r) \/ RecordInterruption(r)
  <2>1. GoodOptimizers'
    <3>1. Transition(r, FailRun(Claimed(r)))
      BY <1>11 DEF RecordFailure, RecordInterruption
    <3> QED BY <3>1, TransitionKeepsGood, ReportKeepsGood
  <2>2. worker' \in [RunIds -> Worker] /\ process' = process
    BY <1>1, <1>11, WorkerChanges, GotoType, OneWorker DEF RecordFailure, RecordInterruption, WorkerPc
  <2> QED BY <1>1, <2>1, <2>2
<1>12. CASE Refused(r)
  BY <1>1, <1>3, <1>12, WorkerChanges, GotoType, OneWorker DEF Refused, WorkerPc
<1>13. CASE StrayEnds(r)
  BY <1>1, <1>3, <1>13 DEF StrayEnds
<1> QED BY <1>4, <1>5, <1>6, <1>7, <1>8, <1>9, <1>10, <1>11, <1>12, <1>13 DEF Work, Finish

\* What the claim of the listed optimizers does to each optimizer and worker.
LEMMA ClaimEffect ==
  ASSUME TypedInv, Claim
  PROVE  \E id \in [Listed -> FreshIds] :
           /\ \A m, n \in Listed : id[m] = id[n] => m = n
           /\ optimizer' = [n \in Names |-> IF n \in Listed THEN ClaimRun(optimizer[n], id[n])
                                            ELSE optimizer[n]]
           /\ DOMAIN worker' = RunIds
           /\ \A n \in Listed : worker'[id[n]] = ClaimedWork(n)
           /\ \A r \in RunIds : (\A n \in Listed : id[n] # r) => worker'[r] = worker[r]
<1>1. PICK id \in Assignments :
        /\ optimizer' = [n \in Names |-> IF n \in Listed THEN ClaimRun(optimizer[n], id[n])
                                         ELSE optimizer[n]]
        /\ worker' = [r \in RunIds |->
                        IF \E n \in Listed : id[n] = r
                        THEN ClaimedWork(CHOOSE n \in Listed : id[n] = r)
                        ELSE worker[r]]
  BY DEF Claim
<1>2. id \in [Listed -> FreshIds] /\ \A m, n \in Listed : id[m] = id[n] => m = n
  BY <1>1 DEF Assignments
<1>3. ASSUME NEW n \in Listed PROVE worker'[id[n]] = ClaimedWork(n)
  <2>1. id[n] \in RunIds
    BY <1>2 DEF FreshIds
  <2>2. (CHOOSE m \in Listed : id[m] = id[n]) = n
    BY <1>2
  <2> QED BY <1>1, <2>1, <2>2
<1>4. DOMAIN worker' = RunIds
      /\ \A r \in RunIds : (\A n \in Listed : id[n] # r) => worker'[r] = worker[r]
  BY <1>1
<1> QED BY <1>1, <1>2, <1>3, <1>4

\* What is listed is enabled and due, and belongs to a claim of this configuration.
LEMMA ListedAreDue ==
  ASSUME TypedInv, NEW n \in Listed
  PROVE  /\ n \in Names /\ optimizer[n].enabled /\ optimizer[n].next = "due"
         /\ ClaimedWork(n) \in Worker
         /\ ClaimedWork(n).pc = "claimed" /\ ClaimedWork(n).name = n
         /\ ClaimedWork(n).revision = optimizer[n].revision
         /\ ~ClaimedWork(n).owned /\ ~ClaimedWork(n).stopper /\ ~ClaimedWork(n).recording
<1>1. n \in Names /\ optimizer[n].enabled /\ optimizer[n].next = "due"
  BY DEF Listed, Due
<1>2. optimizer[n].revision \in Nat
  BY <1>1 DEF TypedInv, TypeOK, Optimizer
<1> QED BY <1>1, <1>2 DEF ClaimedWork, NoWorker, Worker, WorkerPc

LEMMA SchedulerKeepsTyped ==
  ASSUME TypedInv, Tick
  PROVE  TypedInv'
<1> USE DEF TypedInv
<1>1. /\ worker \in [RunIds -> Worker] /\ process \in [RunIds -> {"none", "running", "signalled"}]
      /\ table' = table /\ scheduler' \in {"reap", "claim", "dispatch"}
  BY DEF TypeOK, Tick, Reap, Claim, ClaimNothing, Dispatch
<1>2. SUFFICES /\ GoodOptimizers'
               /\ worker' \in [RunIds -> Worker]
               /\ process' \in [RunIds -> {"none", "running", "signalled"}]
  BY <1>1 DEF TypeOK, GoodOptimizers
<1>3. optimizer' = optimizer => GoodOptimizers'
  BY DEF GoodOptimizers
<1>4. CASE Reap
  <2>1. worker' \in [RunIds -> Worker]
    <3>1. \A r \in RunIds : [worker[r] EXCEPT !.owned = FALSE] \in Worker /\ CancelWorker(worker[r]) \in Worker
      BY <1>1, WorkerChanges
    <3> QED BY <1>1, <1>4, <3>1 DEF Reap
  <2>2. process' \in [RunIds -> {"none", "running", "signalled"}]
    BY <1>1, <1>4 DEF Reap
  <2> QED BY <1>3, <1>4, <2>1, <2>2 DEF Reap
<1>5. CASE Claim
  <2> PICK id \in [Listed -> FreshIds] :
           /\ \A m, n \in Listed : id[m] = id[n] => m = n
           /\ optimizer' = [n \in Names |-> IF n \in Listed THEN ClaimRun(optimizer[n], id[n])
                                            ELSE optimizer[n]]
           /\ DOMAIN worker' = RunIds
           /\ \A n \in Listed : worker'[id[n]] = ClaimedWork(n)
           /\ \A r \in RunIds : (\A n \in Listed : id[n] # r) => worker'[r] = worker[r]
    BY <1>5, ClaimEffect
  <2>1. \A n \in Listed : Good(ClaimRun(optimizer[n], id[n]))
    BY ListedAreDue, ClaimKeepsGood DEF GoodOptimizers, FreshIds
  <2>2. GoodOptimizers'
    BY <2>1 DEF GoodOptimizers, Good
  <2>3. \A r \in RunIds : worker'[r] \in Worker
    BY <1>1, ListedAreDue
  <2>4. worker' = [r \in RunIds |-> worker'[r]]
    BY <1>5 DEF Claim
  <2>5. worker' \in [RunIds -> Worker]
    BY <2>3, <2>4
  <2> QED BY <1>1, <1>5, <2>2, <2>5 DEF Claim
<1>6. CASE ClaimNothing
  BY <1>1, <1>3, <1>6 DEF ClaimNothing
<1>7. CASE Dispatch
  BY <1>1, <1>3, <1>7 DEF Dispatch, Worker, WorkerPc
<1> QED BY <1>4, <1>5, <1>6, <1>7 DEF Tick

LEMMA ServiceKeepsTyped ==
  ASSUME TypedInv, Close \/ Closed \/ Crash \/ Restart
  PROVE  TypedInv'
<1> USE DEF TypedInv
<1>1. CASE Close
  <2>1. worker' \in [RunIds -> Worker] /\ process' \in [RunIds -> {"none", "running", "signalled"}]
    BY <1>1, WorkerChanges DEF Close, CancelWorkers, TypeOK
  <2> QED BY <1>1, <2>1 DEF Close, TypeOK, GoodOptimizers
<1>2. CASE Closed \/ Crash
  <2>1. GoDown
    BY <1>2 DEF Closed, Crash
  <2>2. worker' \in [RunIds -> Worker]
    BY <2>1 DEF GoDown, NoWorker, Worker, WorkerPc
  <2> QED BY <2>1, <2>2 DEF GoDown, TypeOK, GoodOptimizers
<1>3. CASE Restart
  <2>1. \A n \in Names : Good(Recovered(optimizer[n]))
    BY ReportKeepsGood DEF Recovered, GoodOptimizers
  <2>2. GoodOptimizers'
    BY <1>3, <2>1 DEF Restart, GoodOptimizers, Good
  <2> QED BY <1>3, <2>2 DEF Restart, TypeOK, GoodOptimizers
<1> QED BY <1>1, <1>2, <1>3

LEMMA TypedStep ==
  ASSUME TypedInv, [Next]_vars
  PROVE  TypedInv'
<1>1. ASSUME NEW n \in Names, BecomesDue(n) PROVE TypedInv'
  <2>1. Good([optimizer[n] EXCEPT !.next = "due"])
    BY <1>1, DueKeepsGood DEF BecomesDue, TypedInv, GoodOptimizers
  <2>2. optimizer' = [optimizer EXCEPT ![n] = [optimizer[n] EXCEPT !.next = "due"]]
    BY <1>1 DEF BecomesDue
  <2>3. GoodOptimizers'
    BY <2>1, <2>2, OneOptimizer DEF TypedInv
  <2> QED BY <1>1, <2>3 DEF BecomesDue, TypedInv, TypeOK, GoodOptimizers
<1>2. CASE UNCHANGED vars
  BY <1>2 DEF vars, TypedInv, TypeOK, GoodOptimizers
<1> QED BY <1>1, <1>2, CommandKeepsTyped, WorkerKeepsTyped, SchedulerKeepsTyped, ServiceKeepsTyped
        DEF Next

LEMMA TypedInit ==
  ASSUME Init
  PROVE  TypedInv
<1>1. NoWorker \in Worker
  BY DEF NoWorker, Worker, WorkerPc
<1>2. NoOptimizer \in Optimizer
  BY FreshOptimizers DEF Good
<1> QED BY <1>1, <1>2, FreshOptimizers DEF Init, TypedInv, TypeOK, GoodOptimizers, TableState

LEMMA TypedInvariant == Spec => []TypedInv
BY TypedInit, TypedStep, PTL DEF Spec

\* Every variable stays in the shape the code gives it, for any tables, runs and limits.
THEOREM TypeCorrect == Spec => []TypeOK
BY TypedInvariant, PTL DEF TypedInv

\* However an optimizer's run ends, and whoever changes the optimizer meanwhile, its schedule
\* agrees with its history.
THEOREM ScheduleAlwaysConsistent == Spec => []SchedulingIsConsistent
<1>1. TypedInv => SchedulingIsConsistent
  BY DEF TypedInv, GoodOptimizers, Good, ScheduleAgrees, SchedulingIsConsistent
<1> QED BY <1>1, TypedInvariant, PTL

\* The history stays bounded, and only its newest run is ever active.
THEOREM HistoryAlwaysSettled == Spec => []HistoryIsSettled
<1>1. TypedInv => HistoryIsSettled
  BY DEF TypedInv, GoodOptimizers, Good, Settled, HistoryIsSettled
<1> QED BY <1>1, TypedInvariant, PTL

\* A compaction is disabled by the failure that reaches the limit.
THEOREM FailingCompactionAlwaysGivenUp == Spec => []FailingCompactionIsGivenUp
<1>1. TypedInv => FailingCompactionIsGivenUp
  BY DEF TypedInv, GoodOptimizers, Good, NotGivenUp, FailingCompactionIsGivenUp
<1> QED BY <1>1, TypedInvariant, PTL

-----------------------------------------------------------------------------
(***************************************************************************)
(* Active runs and their workers.                                          *)
(***************************************************************************)
NewestState(o) == o.runs[Len(o.runs)].state

\* What an optimizer becomes in o2 without a claim: it may end its active run or report it as
\* in progress, but it has no other, and its configuration stays while the run is active.
Continues(o, o2) ==
  \A r \in RunIds :
    IsActiveRun(o2, r) =>
      /\ IsActiveRun(o, r)
      /\ o2.revision = o.revision
      /\ NewestState(o2) \in {NewestState(o), "in_progress"}

LEMMA IdleContinues ==
  ASSUME NEW o, NEW o2, ~HasActiveRun(o2)
  PROVE  Continues(o, o2)
BY DEF Continues, IsActiveRun

\* Every outcome but "in_progress" ends the active run.
LEMMA ReportedOptimizers ==
  ASSUME NEW o \in Optimizer, HasActiveRun(o)
  PROVE  /\ Continues(o, MarkInProgress(o))
         /\ NewestState(MarkInProgress(o)) = "in_progress"
         /\ ~HasActiveRun(CompleteRun(o)) /\ ~HasActiveRun(FailRun(o))
<1>1. \A state \in ActiveRunState \cup TerminalRunState :
        LET hist == SetActiveRun(o, state) IN
        /\ hist # <<>> /\ Len(hist) = Len(o.runs)
        /\ hist[Len(hist)].state = state
        /\ hist[Len(hist)].id = o.runs[Len(o.runs)].id
  BY ActiveRunIsSet
<1>3. /\ MarkInProgress(o).runs = SetActiveRun(o, "in_progress")
      /\ MarkInProgress(o).revision = o.revision
      /\ CompleteRun(o).runs = SetActiveRun(o, "completed")
      /\ FailRun(o).runs = SetActiveRun(o, "failed")
  <2> DEFINE h1 == SetActiveRun(o, "in_progress")
             h2 == SetActiveRun(o, "completed")
             h3 == SetActiveRun(o, "failed")
  <2>1. MarkInProgress(o) = [o EXCEPT !.runs = h1]
    BY DEF MarkInProgress
  <2>2. CompleteRun(o) = [o EXCEPT !.runs = h2, !.next = "later", !.failures = 0]
    BY DEF CompleteRun
  <2>3. FailRun(o) = [o EXCEPT !.runs = h3, !.failures = o.failures + 1,
                        !.enabled = o.enabled /\ ~GivenUp(o),
                        !.next = IF GivenUp(o) THEN "none" ELSE "later"]
    BY DEF FailRun
  <2>4. MarkInProgress(o).runs = h1 /\ MarkInProgress(o).revision = o.revision
    <3> HIDE DEF h1
    <3> QED BY <2>1 DEF Optimizer
  <2>5. CompleteRun(o).runs = h2
    <3> HIDE DEF h2
    <3> QED BY <2>2 DEF Optimizer
  <2>6. FailRun(o).runs = h3
    <3> HIDE DEF h3
    <3> QED BY <2>3 DEF Optimizer
  <2> QED BY <2>4, <2>5, <2>6
<1>4. ~HasActiveRun(CompleteRun(o)) /\ ~HasActiveRun(FailRun(o))
  BY <1>1, <1>3 DEF HasActiveRun, ActiveRunState, TerminalRunState
<1>5. NewestState(MarkInProgress(o)) = "in_progress"
  BY <1>1, <1>3 DEF NewestState, ActiveRunState
<1>6. ASSUME NEW r \in RunIds, IsActiveRun(MarkInProgress(o), r)
      PROVE  IsActiveRun(o, r)
  BY <1>1, <1>3, <1>6 DEF IsActiveRun, ActiveRunState
<1> QED BY <1>3, <1>4, <1>5, <1>6 DEF Continues

LEMMA SameContinues ==
  ASSUME NEW o
  PROVE  Continues(o, o)
BY DEF Continues

\* A report of a worker, whether its claim is current or stale.
LEMMA TransitionContinues ==
  ASSUME TypedInv, NEW r \in RunIds, NEW o, Transition(r, o),
         HasActiveRun(Claimed(r)) /\ Claimed(r) \in Optimizer => Continues(Claimed(r), o)
  PROVE  \A n \in Names : Continues(optimizer[n], optimizer'[n])
<1>1. CASE Current(r)
  <2>1. /\ worker[r].name \in Names /\ optimizer \in [Names -> Optimizer]
        /\ optimizer' = [optimizer EXCEPT ![worker[r].name] = o]
        /\ HasActiveRun(Claimed(r)) /\ Claimed(r) \in Optimizer
    BY <1>1 DEF Current, Transition, IsActiveRun, Claimed, TypedInv, GoodOptimizers
  <2>2. Continues(optimizer[worker[r].name], o)
    BY <2>1 DEF Claimed
  <2> QED BY <2>1, <2>2, SameContinues
<1>2. CASE ~Current(r)
  BY <1>2, SameContinues DEF Transition
<1> QED BY <1>1, <1>2

\* Only a claim makes a run active.
LEMMA OnlyClaimsActivate ==
  ASSUME TypedInv, Next, ~Claim, NEW n \in Names
  PROVE  Continues(optimizer[n], optimizer'[n])
<1>1. optimizer \in [Names -> Optimizer] /\ \A m \in Names : Good(optimizer[m])
  BY DEF TypedInv, GoodOptimizers
<1>2. CASE UNCHANGED optimizer
  BY <1>2, SameContinues
<1>3. ~HasActiveRun(NoOptimizer)
  BY DEF NoOptimizer, HasActiveRun
<1>4. ASSUME NEW m \in Names, Command(m) PROVE Continues(optimizer[n], optimizer'[n])
  <2>1. CASE UpdateTable(m)
    <3>1. ASSUME NEW k \in Names,
                 optimizer' = [optimizer EXCEPT ![m] = NoOptimizer, ![k] = Moved(optimizer[m])]
          PROVE  Continues(optimizer[n], optimizer'[n])
      <4>1. ~HasActiveRun(Moved(optimizer[m]))
        BY <1>1, CancelKeepsGood DEF Moved
      <4> QED BY <1>1, <1>3, <3>1, <4>1, IdleContinues, SameContinues
    <3> QED BY <1>2, <2>1, <3>1 DEF UpdateTable
  <2>2. CASE CreateTableOptimizer(m)
    <3>1. \A type \in Types, enabled \in BOOLEAN : ~HasActiveRun(NewOptimizer(type, enabled))
      BY DEF NewOptimizer, HasActiveRun
    <3> QED BY <1>1, <2>2, <3>1, IdleContinues, SameContinues DEF CreateTableOptimizer, InsertOptimizer
  <2>3. CASE UpdateTableOptimizer(m)
    <3> PICK enabled \in BOOLEAN :
         optimizer' = [optimizer EXCEPT ![m] = Revise(CancelActiveRun(@), enabled)]
      BY <2>3 DEF UpdateTableOptimizer, ReplaceOptimizer
    <3> DEFINE o == CancelActiveRun(optimizer[m])
    <3>1. o \in Optimizer /\ ~HasActiveRun(o)
      BY <1>1, CancelKeepsGood DEF Good
    <3>2. ~HasActiveRun(Revise(o, enabled))
      <4> HIDE DEF o
      <4> QED BY <3>1 DEF Revise, HasActiveRun, Optimizer
    <3> QED BY <1>1, <3>2, IdleContinues, SameContinues
  <2>4. CASE DeleteTable(m) \/ DeleteTableOptimizer(m)
    BY <1>1, <1>3, <2>4, IdleContinues, SameContinues DEF DeleteTable, DeleteTableOptimizer, RemoveOptimizer
  <2>5. CASE CreateTable(m)
    BY <1>2, <2>5 DEF CreateTable
  <2> QED BY <1>4, <2>1, <2>2, <2>3, <2>4, <2>5 DEF Command
<1>5. ASSUME NEW m \in Names, BecomesDue(m) PROVE Continues(optimizer[n], optimizer'[n])
  <2>1. Continues(optimizer[m], [optimizer[m] EXCEPT !.next = "due"])
    BY <1>1 DEF Continues, IsActiveRun, HasActiveRun, NewestState, Optimizer
  <2> QED BY <1>1, <1>5, <2>1, SameContinues DEF BecomesDue
<1>6. ASSUME NEW r \in RunIds, Mark(r) PROVE Continues(optimizer[n], optimizer'[n])
  BY <1>6, ReportedOptimizers, TransitionContinues DEF Mark
<1>7. ASSUME NEW r \in RunIds, Complete(r) PROVE Continues(optimizer[n], optimizer'[n])
  BY <1>7, ReportedOptimizers, IdleContinues, TransitionContinues DEF Complete
<1>8. ASSUME NEW r \in RunIds, RecordFailure(r) \/ RecordInterruption(r)
      PROVE  Continues(optimizer[n], optimizer'[n])
  BY <1>8, ReportedOptimizers, IdleContinues, TransitionContinues DEF RecordFailure, RecordInterruption
<1>9. CASE Restart
  <2>1. ~HasActiveRun(Recovered(optimizer[n]))
    BY <1>1, ReportedOptimizers DEF Recovered
  <2> QED BY <1>1, <1>9, <2>1, IdleContinues DEF Restart
<1>10. ASSUME NEW r \in RunIds, Work(r) \/ Finish(r) \/ StrayEnds(r)
       PROVE  Continues(optimizer[n], optimizer'[n])
  BY <1>2, <1>6, <1>7, <1>8, <1>10
     DEF Work, Start, Spawn, Stopped, Refused, Finish, Exit, Timeout, StrayEnds
<1>11. CASE Reap \/ ClaimNothing \/ Dispatch \/ Close \/ Closed \/ Crash
  BY <1>2, <1>11 DEF Reap, ClaimNothing, Dispatch, Close, Closed, Crash, GoDown
<1> QED BY <1>4, <1>5, <1>9, <1>10, <1>11 DEF Next, Tick

\* Somebody is going to end the run the worker w has claimed.
InHand(w) ==
  /\ w.pc \notin {"none", "gone"}
  /\ w.pc = "left" => w.recording \/ w.lost

\* An active run belongs to the worker that has claimed it, under the same configuration.
ActiveRunInHand ==
  Open =>
    \A n \in Names, r \in RunIds :
      IsActiveRun(optimizer[n], r) =>
        /\ worker[r].name = n
        /\ worker[r].revision = optimizer[n].revision
        /\ InHand(worker[r])

\* The claim of an active run is current.
LEMMA ActiveIsCurrent ==
  ASSUME ActiveRunInHand, Open, NEW n \in Names, NEW r \in RunIds, IsActiveRun(optimizer[n], r)
  PROVE  Current(r) /\ worker[r].name = n /\ InHand(worker[r])
BY DEF ActiveRunInHand, Current

\* A worker acts for itself alone, and what it has claimed does not change.
LEMMA WorkerActsAlone ==
  ASSUME TypedInv, NEW r \in RunIds, Work(r) \/ Finish(r) \/ StrayEnds(r)
  PROVE  /\ scheduler' = scheduler
         /\ \A s \in RunIds \ {r} : worker'[s] = worker[s] /\ process'[s] = process[s]
         /\ worker'[r].name = worker[r].name
         /\ worker'[r].revision = worker[r].revision
         /\ worker'[r].owned = worker[r].owned
         /\ worker'[r].pc \in {"none", "claimed", "gone"} => worker'[r].pc = worker[r].pc
         /\ worker'[r].pc = "spawning" => worker[r].pc = "spawning" \/ (Mark(r) /\ Current(r))
         /\ worker'[r].pc = "waiting" => worker[r].pc \in {"spawning", "waiting"}
<1>1. worker \in [RunIds -> Worker] /\ process \in [RunIds -> {"none", "running", "signalled"}]
  BY DEF TypedInv, TypeOK
<1>2. scheduler' = scheduler
  BY DEF Work, Finish, StrayEnds
<1>3. CASE Start(r) \/ Mark(r) \/ Complete(r) \/ RecordFailure(r)
  BY <1>1, <1>2, <1>3 DEF Start, Mark, Complete, RecordFailure, Goto, Worker
<1>4. CASE Spawn(r)
  BY <1>1, <1>2, <1>4 DEF Spawn, Goto, Worker
<1>5. CASE Exit(r)
  BY <1>1, <1>2, <1>5 DEF Exit, Goto, Worker
<1>6. CASE Timeout(r)
  BY <1>1, <1>2, <1>6 DEF Timeout, Worker
<1>7. CASE Stopped(r)
  BY <1>1, <1>2, <1>7 DEF Stopped, AfterStop, Interrupted, Worker
<1>8. CASE RecordInterruption(r)
  BY <1>1, <1>2, <1>8 DEF RecordInterruption, Worker
<1>9. CASE Refused(r)
  BY <1>1, <1>2, <1>9, RefusedEffect
<1>10. CASE StrayEnds(r)
  BY <1>1, <1>2, <1>10 DEF StrayEnds
<1> QED BY <1>3, <1>4, <1>5, <1>6, <1>7, <1>8, <1>9, <1>10 DEF Work, Finish

\* A worker keeps an active run in hand until it ends it.
LEMMA WorkerKeepsInHand ==
  ASSUME TypedInv, ActiveRunInHand, Next, NEW r \in RunIds, Work(r) \/ Finish(r) \/ StrayEnds(r)
  PROVE  ActiveRunInHand'
<1> SUFFICES ASSUME Open, NEW n \in Names, NEW s \in RunIds, IsActiveRun(optimizer'[n], s)
             PROVE  /\ worker'[s].name = n
                    /\ worker'[s].revision = optimizer'[n].revision
                    /\ InHand(worker'[s])
  BY WorkerActsAlone DEF ActiveRunInHand, Open
<1>1. IsActiveRun(optimizer[n], s) /\ optimizer'[n].revision = optimizer[n].revision
  <2>1. ~Claim
    BY WorkerActsAlone DEF Open, Claim
  <2> QED BY <2>1, OnlyClaimsActivate DEF Continues
<1>2. /\ Current(s) /\ worker[s].name = n /\ InHand(worker[s])
      /\ worker[s].revision = optimizer[n].revision
  BY <1>1, ActiveIsCurrent DEF ActiveRunInHand
<1>3. CASE s # r
  BY <1>1, <1>2, <1>3, WorkerActsAlone
<1>4. CASE s = r
  <2>1. worker \in [RunIds -> Worker] /\ optimizer \in [Names -> Optimizer]
    BY DEF TypedInv, TypeOK
  <2>2. HasActiveRun(Claimed(r)) /\ Claimed(r) = optimizer[n]
    BY <1>1, <1>2, <1>4 DEF IsActiveRun, Claimed
  <2>3. ~Complete(r) /\ ~RecordFailure(r) /\ ~RecordInterruption(r)
    <3>1. \A o : Transition(r, o) => optimizer'[n] = o
      BY <1>2, <1>4, <2>1 DEF Transition
    <3>2. ~HasActiveRun(CompleteRun(optimizer[n])) /\ ~HasActiveRun(FailRun(optimizer[n]))
      BY <2>1, <2>2, ReportedOptimizers
    <3> QED BY <2>2, <3>1, <3>2 DEF Complete, RecordFailure, RecordInterruption, IsActiveRun
  <2>4. InHand(worker'[r])
    <3>1. CASE Start(r) \/ Mark(r)
      BY <1>2, <1>4, <2>1, <3>1 DEF Start, Mark, Goto, InHand, Worker
    <3>2. CASE Spawn(r)
      BY <2>1, <3>2 DEF Spawn, Goto, InHand, Worker
    <3>3. CASE Exit(r)
      BY <2>1, <3>3 DEF Exit, Goto, InHand, Worker
    <3>4. CASE Timeout(r)
      BY <2>1, <3>4 DEF Timeout, InHand, Worker
    <3>5. CASE Stopped(r)
      BY <1>2, <1>4, <2>1, <3>5 DEF Stopped, AfterStop, Interrupted, InHand, Worker
    <3>6. CASE Refused(r)
      BY <2>1, <3>6, RefusedEffect DEF InHand
    <3>7. CASE StrayEnds(r)
      BY <1>2, <1>4, <3>7 DEF StrayEnds
    <3> QED BY <2>3, <3>1, <3>2, <3>3, <3>4, <3>5, <3>6, <3>7 DEF Work, Finish
  <2> QED BY <1>1, <1>2, <1>4, <2>4, WorkerActsAlone
<1> QED BY <1>3, <1>4

\* Cancelling a worker changes neither its claim nor its place outside its task.
LEMMA CancelledWorker ==
  ASSUME NEW w \in Worker
  PROVE  /\ CancelWorker(w).name = w.name
         /\ CancelWorker(w).revision = w.revision
         /\ CancelWorker(w).owned = w.owned
         /\ w.pc \in {"none", "claimed", "gone"} => CancelWorker(w) = w
         /\ CancelWorker(w).pc \in {"none", "claimed", "gone", "left"} \cup {"stopping", "interrupted"}
         /\ CancelWorker(w).pc \in {"none", "claimed", "gone"} => CancelWorker(w).pc = w.pc
<1>1. w.pc \in WorkerPc
  BY DEF Worker
<1> QED BY <1>1 DEF CancelWorker, Interrupted, Worker, WorkerPc

\* The scheduler gives every run it claims to a new worker, and cancels none that is current.
LEMMA SchedulerKeepsInHand ==
  ASSUME TypedInv, ActiveRunInHand, Next, Tick
  PROVE  ActiveRunInHand'
<1>1. Open /\ worker \in [RunIds -> Worker] /\ optimizer \in [Names -> Optimizer]
  BY DEF Tick, Reap, Claim, ClaimNothing, Dispatch, Open, TypedInv, TypeOK
<1> SUFFICES ASSUME NEW n \in Names, NEW r \in RunIds, IsActiveRun(optimizer'[n], r)
             PROVE  /\ worker'[r].name = n
                    /\ worker'[r].revision = optimizer'[n].revision
                    /\ InHand(worker'[r])
  BY DEF ActiveRunInHand
<1>2. IsActiveRun(optimizer[n], r) =>
        /\ Current(r) /\ worker[r].name = n /\ InHand(worker[r])
        /\ worker[r].revision = optimizer[n].revision
  BY <1>1, ActiveIsCurrent DEF ActiveRunInHand
<1>3. CASE Reap
  <2>1. IsActiveRun(optimizer[n], r) /\ optimizer'[n] = optimizer[n]
    BY <1>3 DEF Reap
  <2>2. worker'[r] \in {worker[r], [worker[r] EXCEPT !.owned = FALSE]}
    BY <1>2, <1>3, <2>1 DEF Reap
  <2>3. /\ worker'[r].name = worker[r].name /\ worker'[r].revision = worker[r].revision
        /\ worker'[r].pc = worker[r].pc /\ worker'[r].recording = worker[r].recording
        /\ worker'[r].lost = worker[r].lost
    BY <1>1, <2>2 DEF Worker
  <2> QED BY <1>2, <2>1, <2>3 DEF InHand
<1>4. CASE Claim
  <2> PICK id \in [Listed -> FreshIds] :
           /\ \A k, m \in Listed : id[k] = id[m] => k = m
           /\ optimizer' = [m \in Names |-> IF m \in Listed THEN ClaimRun(optimizer[m], id[m])
                                            ELSE optimizer[m]]
           /\ DOMAIN worker' = RunIds
           /\ \A m \in Listed : worker'[id[m]] = ClaimedWork(m)
           /\ \A s \in RunIds : (\A m \in Listed : id[m] # s) => worker'[s] = worker[s]
    BY <1>4, ClaimEffect
  <2>1. CASE n \in Listed
    <3>1. IsActiveRun(ClaimRun(optimizer[n], id[n]), id[n])
      BY <2>1, ListedAreDue, ClaimKeepsGood DEF FreshIds, TypedInv, GoodOptimizers
    <3>2. r = id[n] /\ worker'[r] = ClaimedWork(n)
      BY <2>1, <3>1 DEF IsActiveRun
    <3>3. optimizer'[n].revision = optimizer[n].revision
      <4>1. optimizer'[n] = ClaimRun(optimizer[n], id[n])
        BY <2>1
      <4> QED BY <1>1, <4>1 DEF ClaimRun, Optimizer
    <3> QED BY <2>1, <3>2, <3>3, ListedAreDue DEF InHand
  <2>2. CASE n \notin Listed
    <3>1. optimizer'[n] = optimizer[n]
      BY <2>2
    <3>2. CASE \A m \in Listed : id[m] # r
      BY <1>2, <3>1, <3>2
    <3>3. ASSUME NEW m \in Listed, id[m] = r PROVE FALSE
      <4>1. worker[r].pc = "none" /\ Current(r) /\ InHand(worker[r])
        BY <1>2, <3>1, <3>3 DEF FreshIds
      <4> QED BY <4>1 DEF InHand
    <3> QED BY <3>2, <3>3
  <2> QED BY <2>1, <2>2
<1>5. CASE ClaimNothing
  BY <1>2, <1>5 DEF ClaimNothing
<1>6. CASE Dispatch
  <2>1. IsActiveRun(optimizer[n], r) /\ optimizer'[n] = optimizer[n]
    BY <1>6 DEF Dispatch
  <2> QED BY <1>1, <1>2, <1>6, <2>1 DEF Dispatch, InHand, Worker
<1> QED BY <1>3, <1>4, <1>5, <1>6 DEF Tick

LEMMA InHandStep ==
  ASSUME TypedInv, ActiveRunInHand, [Next]_vars
  PROVE  ActiveRunInHand'
<1>1. CASE UNCHANGED vars
  BY <1>1 DEF vars, ActiveRunInHand, Open
<1>2. ASSUME Next, UNCHANGED <<scheduler, worker>>, ~Claim PROVE ActiveRunInHand'
  BY <1>2, OnlyClaimsActivate DEF ActiveRunInHand, Open, Continues
<1>3. ASSUME NEW n \in Names, Next, Command(n) \/ BecomesDue(n) PROVE ActiveRunInHand'
  <2>1. scheduler' = scheduler /\ worker' = worker
    BY <1>3 DEF Command, BecomesDue
  <2>2. ~Claim
    BY <2>1 DEF Claim
  <2> QED BY <1>2, <1>3, <2>1, <2>2
<1>4. CASE Close \/ Closed \/ Crash
  BY <1>4 DEF Close, Closed, Crash, GoDown, Open, ActiveRunInHand
<1>5. CASE Restart
  <2>1. \A n \in Names, r \in RunIds : ~IsActiveRun(optimizer'[n], r)
    <3>1. \A n \in Names : ~HasActiveRun(Recovered(optimizer[n]))
      BY ReportedOptimizers DEF Recovered, TypedInv, TypeOK
    <3> QED BY <1>5, <3>1 DEF Restart, IsActiveRun
  <2> QED BY <2>1 DEF ActiveRunInHand
<1> QED BY <1>1, <1>3, <1>4, <1>5, WorkerKeepsInHand, SchedulerKeepsInHand DEF Next

\* Nobody has claimed anything in a new catalog.
LEMMA InHandInit ==
  ASSUME Init
  PROVE  ActiveRunInHand
BY DEF Init, ActiveRunInHand, IsActiveRun, HasActiveRun, NoOptimizer

LEMMA InHandInvariant == Spec => []ActiveRunInHand
<1>1. Init => ActiveRunInHand
  BY InHandInit
<1>2. TypedInv /\ ActiveRunInHand /\ [Next]_vars => ActiveRunInHand'
  BY InHandStep
<1> QED BY <1>1, <1>2, TypedInvariant, PTL DEF Spec

\* While the service is up, every active run is in the hands of a worker that will end it,
\* unless recording its failure was refused.
THEOREM ActiveRunAlwaysHasWorker == Spec => []ActiveRunHasWorker
<1>1. ActiveRunInHand => ActiveRunHasWorker
  BY DEF ActiveRunInHand, ActiveRunHasWorker, InHand
<1> QED BY <1>1, InHandInvariant, PTL

-----------------------------------------------------------------------------
(***************************************************************************)
(* Processes and what the catalog says about them.                         *)
(***************************************************************************)
\* Only a worker that has been interrupted records its failure on the side.
RecorderIsInterrupted ==
  \A r \in RunIds : worker[r].recording => worker[r].pc \in {"interrupted", "left"}

\* A process that was not told to end has a worker waiting for it, or outlived its service.
RunningIsAwaited ==
  \A r \in RunIds : process[r] = "running" => worker[r].pc \in {"waiting", "gone"}

\* A worker starts a process for an active run after it has marked the run.
SpawnedIsMarked ==
  Open =>
    \A n \in Names, r \in RunIds :
      IsActiveRun(optimizer[n], r) /\ worker[r].pc \in {"spawning", "waiting"}
        => NewestState(optimizer[n]) = "in_progress"

ProcessInv == RecorderIsInterrupted /\ RunningIsAwaited /\ SpawnedIsMarked

\* The worker of r, with whatever its transactions do to the catalog.
LEMMA WorkerKeepsProcess ==
  ASSUME TypedInv, ActiveRunInHand, ProcessInv, Next,
         NEW r \in RunIds, Work(r) \/ Finish(r) \/ StrayEnds(r)
  PROVE  ProcessInv'
<1>1. /\ worker \in [RunIds -> Worker] /\ process \in [RunIds -> {"none", "running", "signalled"}]
      /\ optimizer \in [Names -> Optimizer]
  BY DEF TypedInv, TypeOK
<1>2. /\ worker'[r].recording => worker'[r].pc \in {"interrupted", "left"}
      /\ process'[r] = "running" => worker'[r].pc \in {"waiting", "gone"}
  <2>1. /\ worker[r].recording => worker[r].pc \in {"interrupted", "left"}
        /\ process[r] = "running" => worker[r].pc \in {"waiting", "gone"}
    BY DEF ProcessInv, RecorderIsInterrupted, RunningIsAwaited
  <2>2. CASE Start(r) \/ Mark(r) \/ Complete(r) \/ RecordFailure(r)
    BY <1>1, <2>1, <2>2 DEF Start, Mark, Complete, RecordFailure, Goto, Worker
  <2>3. CASE Spawn(r)
    BY <1>1, <2>1, <2>3 DEF Spawn, Goto, Worker
  <2>4. CASE Exit(r)
    BY <1>1, <2>1, <2>4 DEF Exit, Goto, Worker
  <2>5. CASE Timeout(r)
    BY <1>1, <2>1, <2>5 DEF Timeout, Worker
  <2>6. CASE Stopped(r)
    BY <1>1, <2>1, <2>6 DEF Stopped, AfterStop, Interrupted, Worker
  <2>7. CASE RecordInterruption(r)
    BY <1>1, <2>1, <2>7 DEF RecordInterruption, Worker
  <2>8. CASE Refused(r)
    <3>1. worker[r].pc \in {"marking", "completing", "failing"} \/ worker[r].recording
      BY <2>8, Zenon DEF Refused
    <3> QED BY <1>1, <2>1, <2>8, <3>1, RefusedEffect
  <2>9. CASE StrayEnds(r)
    BY <1>1, <2>1, <2>9 DEF StrayEnds
  <2> QED BY <2>2, <2>3, <2>4, <2>5, <2>6, <2>7, <2>8, <2>9 DEF Work, Finish
<1>3. RecorderIsInterrupted' /\ RunningIsAwaited'
  BY <1>2, WorkerActsAlone DEF ProcessInv, RecorderIsInterrupted, RunningIsAwaited
<1>4. SpawnedIsMarked'
  <2> SUFFICES ASSUME Open, NEW n \in Names, NEW s \in RunIds, IsActiveRun(optimizer'[n], s),
                      worker'[s].pc \in {"spawning", "waiting"}
               PROVE  NewestState(optimizer'[n]) = "in_progress"
    BY WorkerActsAlone DEF SpawnedIsMarked, Open
  <2>1. /\ IsActiveRun(optimizer[n], s)
        /\ NewestState(optimizer'[n]) \in {NewestState(optimizer[n]), "in_progress"}
    <3>1. ~Claim
      BY WorkerActsAlone DEF Open, Claim
    <3> QED BY <3>1, OnlyClaimsActivate DEF Continues
  <2>2. CASE worker[s].pc \in {"spawning", "waiting"}
    BY <2>1, <2>2 DEF ProcessInv, SpawnedIsMarked
  <2>3. CASE worker[s].pc \notin {"spawning", "waiting"}
    <3>1. s = r /\ Mark(r) /\ Current(r)
      BY <2>3, WorkerActsAlone
    <3>2. worker[r].name = n /\ HasActiveRun(optimizer[n])
      BY <2>1, <3>1, ActiveIsCurrent DEF IsActiveRun
    <3>3. optimizer'[n] = MarkInProgress(optimizer[n])
      BY <1>1, <3>1, <3>2 DEF Mark, Transition, Claimed
    <3> QED BY <1>1, <3>2, <3>3, ReportedOptimizers
  <2> QED BY <2>2, <2>3
<1> QED BY <1>3, <1>4 DEF ProcessInv

LEMMA CancelKeepsProcess ==
  ASSUME NEW w \in Worker, w.recording => w.pc \in {"interrupted", "left"}
  PROVE  CancelWorker(w).recording => CancelWorker(w).pc \in {"interrupted", "left"}
BY DEF CancelWorker, Interrupted, Worker

LEMMA SchedulerKeepsProcess ==
  ASSUME TypedInv, ActiveRunInHand, ProcessInv, Next, Tick \/ Close
  PROVE  ProcessInv'
<1>1. /\ worker \in [RunIds -> Worker] /\ process \in [RunIds -> {"none", "running", "signalled"}]
      /\ optimizer \in [Names -> Optimizer] /\ Open
  BY DEF Tick, Reap, Claim, ClaimNothing, Dispatch, Close, Open, TypedInv, TypeOK
<1>2. /\ \A r \in RunIds : worker[r].recording => worker[r].pc \in {"interrupted", "left"}
      /\ \A r \in RunIds : process[r] = "running" => worker[r].pc \in {"waiting", "gone"}
  BY DEF ProcessInv, RecorderIsInterrupted, RunningIsAwaited
<1>3. CASE Claim
  <2> PICK id \in [Listed -> FreshIds] :
           /\ \A k, m \in Listed : id[k] = id[m] => k = m
           /\ optimizer' = [m \in Names |-> IF m \in Listed THEN ClaimRun(optimizer[m], id[m])
                                            ELSE optimizer[m]]
           /\ DOMAIN worker' = RunIds
           /\ \A m \in Listed : worker'[id[m]] = ClaimedWork(m)
           /\ \A s \in RunIds : (\A m \in Listed : id[m] # s) => worker'[s] = worker[s]
    BY <1>3, ClaimEffect
  <2>1. process' = process
    BY <1>3 DEF Claim
  <2>2. ASSUME NEW r \in RunIds
        PROVE  \/ worker'[r] = worker[r] /\ \A m \in Listed : id[m] # r
               \/ \E m \in Listed : id[m] = r /\ worker[r].pc = "none" /\ worker'[r] = ClaimedWork(m)
    BY DEF FreshIds
  <2>3. RecorderIsInterrupted' /\ RunningIsAwaited'
    BY <1>2, <2>1, <2>2, ListedAreDue DEF RecorderIsInterrupted, RunningIsAwaited
  <2>4. SpawnedIsMarked'
    <3> SUFFICES ASSUME NEW n \in Names, NEW r \in RunIds, IsActiveRun(optimizer'[n], r),
                        worker'[r].pc \in {"spawning", "waiting"}
                 PROVE  NewestState(optimizer'[n]) = "in_progress"
      BY DEF SpawnedIsMarked
    <3>1. worker'[r] = worker[r] /\ \A m \in Listed : id[m] # r
      BY <2>2, ListedAreDue
    <3>2. n \notin Listed
      <4>1. n \in Listed => IsActiveRun(ClaimRun(optimizer[n], id[n]), id[n])
        BY ListedAreDue, ClaimKeepsGood DEF FreshIds, TypedInv, GoodOptimizers
      <4> QED BY <3>1, <4>1 DEF IsActiveRun
    <3>3. optimizer'[n] = optimizer[n]
      BY <3>2
    <3> QED BY <1>1, <3>1, <3>3 DEF ProcessInv, SpawnedIsMarked
  <2> QED BY <2>3, <2>4 DEF ProcessInv
<1>4. ASSUME UNCHANGED optimizer,
             \A r \in RunIds :
               \/ /\ worker'[r] \in {worker[r], [worker[r] EXCEPT !.owned = FALSE],
                                     [worker[r] EXCEPT !.pc = "created", !.owned = TRUE]}
                  /\ worker'[r] # worker[r] => worker[r].pc \in {"left", "claimed"}
                  /\ worker'[r].pc = "created" => worker[r].pc \in {"created", "claimed"}
                  /\ process'[r] = process[r]
               \/ /\ worker'[r] = CancelWorker(worker[r])
                  /\ process'[r] = (IF worker[r].pc = "waiting" THEN "signalled" ELSE process[r])
      PROVE  ProcessInv'
  <2>1. ASSUME NEW r \in RunIds
        PROVE  /\ worker'[r].recording => worker'[r].pc \in {"interrupted", "left"}
               /\ process'[r] = "running" => worker'[r].pc \in {"waiting", "gone"}
               /\ worker'[r].pc \in {"spawning", "waiting"} => worker'[r].pc = worker[r].pc
    <3>1. CASE worker'[r] = worker[r] /\ process'[r] = process[r]
      BY <1>2, <3>1
    <3>2. CASE worker'[r] = [worker[r] EXCEPT !.owned = FALSE] /\ process'[r] = process[r]
      BY <1>1, <1>2, <3>2 DEF Worker
    <3>3. CASE /\ worker'[r] = [worker[r] EXCEPT !.pc = "created", !.owned = TRUE]
               /\ worker[r].pc \in {"created", "claimed"} /\ process'[r] = process[r]
      BY <1>1, <1>2, <3>3 DEF Worker
    <3>4. CASE /\ worker'[r] = CancelWorker(worker[r])
               /\ process'[r] = (IF worker[r].pc = "waiting" THEN "signalled" ELSE process[r])
      BY <1>1, <1>2, <3>4, CancelledWorker, CancelKeepsProcess
    <3>5. worker'[r] = [worker[r] EXCEPT !.pc = "created", !.owned = TRUE] => worker'[r].pc = "created"
      BY <1>1 DEF Worker
    <3> QED BY <1>4, <3>1, <3>2, <3>3, <3>4, <3>5
  <2>2. SpawnedIsMarked'
    BY <1>1, <1>4, <2>1 DEF ProcessInv, SpawnedIsMarked
  <2> QED BY <2>1, <2>2 DEF ProcessInv, RecorderIsInterrupted, RunningIsAwaited
<1>5. CASE Reap
  <2>1. UNCHANGED optimizer
    BY <1>5 DEF Reap
  <2>2. ASSUME NEW r \in RunIds
        PROVE  \/ worker'[r] = worker[r] /\ process'[r] = process[r]
               \/ /\ worker'[r] = [worker[r] EXCEPT !.owned = FALSE] /\ process'[r] = process[r]
                  /\ worker[r].pc = "left"
               \/ /\ worker'[r] = CancelWorker(worker[r])
                  /\ process'[r] = (IF worker[r].pc = "waiting" THEN "signalled" ELSE process[r])
    BY <1>1, <1>5 DEF Reap
  <2>3. \A r \in RunIds : worker[r].pc = "left" => [worker[r] EXCEPT !.owned = FALSE].pc = "left"
    BY <1>1 DEF Worker
  <2> QED BY <1>4, <2>1, <2>2, <2>3
<1>6. CASE Close
  BY <1>1, <1>4, <1>6 DEF Close, CancelWorkers
<1>7. CASE Dispatch
  BY <1>1, <1>4, <1>7 DEF Dispatch
<1>8. CASE ClaimNothing
  BY <1>4, <1>8 DEF ClaimNothing
<1> QED BY <1>3, <1>5, <1>6, <1>7, <1>8 DEF Tick

LEMMA ProcessStep ==
  ASSUME TypedInv, ActiveRunInHand, ProcessInv, [Next]_vars
  PROVE  ProcessInv'
<1>1. CASE UNCHANGED vars
  BY <1>1 DEF vars, ProcessInv, RecorderIsInterrupted, RunningIsAwaited, SpawnedIsMarked, Open
<1>2. ASSUME NEW n \in Names, Next, Command(n) \/ BecomesDue(n) PROVE ProcessInv'
  <2>1. scheduler' = scheduler /\ worker' = worker /\ process' = process
    BY <1>2 DEF Command, BecomesDue
  <2>2. ~Claim
    BY <2>1 DEF Claim
  <2>3. \A m \in Names : Continues(optimizer[m], optimizer'[m])
    BY <1>2, <2>2, OnlyClaimsActivate
  <2>4. SpawnedIsMarked'
    BY <2>1, <2>3 DEF ProcessInv, SpawnedIsMarked, Continues, Open
  <2> QED BY <2>1, <2>4 DEF ProcessInv, RecorderIsInterrupted, RunningIsAwaited
<1>3. CASE Closed \/ Crash
  <2>1. GoDown
    BY <1>3 DEF Closed, Crash
  <2>2. \A r \in RunIds : ~worker'[r].recording /\ (process[r] = "running" => worker'[r].pc = "gone")
    BY <2>1 DEF GoDown, NoWorker, ProcessInv, RunningIsAwaited
  <2> QED BY <2>1, <2>2 DEF GoDown, ProcessInv, RecorderIsInterrupted, RunningIsAwaited,
                            SpawnedIsMarked, Open
<1>4. CASE Restart
  <2>1. \A n \in Names, r \in RunIds : ~IsActiveRun(optimizer'[n], r)
    <3>1. \A n \in Names : ~HasActiveRun(Recovered(optimizer[n]))
      BY ReportedOptimizers DEF Recovered, TypedInv, TypeOK
    <3> QED BY <1>4, <3>1 DEF Restart, IsActiveRun
  <2> QED BY <1>4, <2>1 DEF Restart, ProcessInv, RecorderIsInterrupted, RunningIsAwaited,
                            SpawnedIsMarked
<1> QED BY <1>1, <1>2, <1>3, <1>4, WorkerKeepsProcess, SchedulerKeepsProcess DEF Next

LEMMA ProcessInvariant == Spec => []ProcessInv
<1>1. Init => ProcessInv
  BY DEF Init, ProcessInv, RecorderIsInterrupted, RunningIsAwaited, SpawnedIsMarked,
         NoWorker, NoOptimizer, IsActiveRun, HasActiveRun
<1>2. TypedInv /\ ActiveRunInHand /\ ProcessInv /\ [Next]_vars => ProcessInv'
  BY ProcessStep
<1> QED BY <1>1, <1>2, TypedInvariant, InHandInvariant, PTL DEF Spec

\* A process that works for the current run of an optimizer is reported as in progress.
THEOREM ProcessAlwaysReported == Spec => []ProcessIsReported
<1>1. ProcessInv => ProcessIsReported
  BY DEF ProcessInv, RunningIsAwaited, SpawnedIsMarked, NewestState, ProcessIsReported
<1> QED BY <1>1, ProcessInvariant, PTL

-----------------------------------------------------------------------------
(***************************************************************************)
(* The number of workers.                                                  *)
(***************************************************************************)
Held == Owned \cup {r \in RunIds : worker[r].pc = "claimed"}

LimitInv ==
  /\ scheduler \in {"reap", "claim", "down"} => \A r \in RunIds : worker[r].pc # "claimed"
  /\ IsFiniteSet(Held)
  /\ Cardinality(Held) <= MaxConcurrent

\* The listing leaves room for the workers there are: each listed name has its own rank among
\* the due ones, and ranks stay within the free capacity.
LEMMA ListedAreFew ==
  ASSUME IsFiniteSet(Owned), Cardinality(Owned) <= MaxConcurrent
  PROVE  /\ IsFiniteSet(Listed)
         /\ Cardinality(Listed) + Cardinality(Owned) <= MaxConcurrent
<1> DEFINE UpTo(n) == {m \in Due : m <= n}
           room    == MaxConcurrent - Cardinality(Owned)
           rank    == [n \in Listed |-> Cardinality(UpTo(n))]
<1>1. Cardinality(Owned) \in Nat /\ room \in Nat /\ Due \in SUBSET Nat /\ Listed \subseteq Due
  <2>1. Cardinality(Owned) \in Nat
    BY FS_CardinalityType
  <2>2. room \in Nat
    BY <2>1, ConstantsAssumption
  <2>3. Due \in SUBSET Nat
    BY ConstantsAssumption DEF Due
  <2>4. Listed \subseteq Due
    BY DEF Listed
  <2> QED BY <2>1, <2>2, <2>3, <2>4
<1>2. ASSUME NEW n \in Due
      PROVE  /\ IsFiniteSet(UpTo(n)) /\ Cardinality(UpTo(n)) \in Nat
             /\ n \in UpTo(n) /\ Cardinality(UpTo(n)) >= 1
  <2>1. UpTo(n) \in SUBSET Nat /\ n \in Nat /\ \A m \in UpTo(n) : m <= n
    BY <1>1
  <2>2. IsFiniteSet(UpTo(n))
    <3> HIDE DEF UpTo
    <3> QED BY <2>1, FS_BoundedSetOfNaturals
  <2>3. n \in UpTo(n)
    BY <2>1
  <2>4. Cardinality(UpTo(n)) \in Nat /\ (Cardinality(UpTo(n)) = 0 <=> UpTo(n) = {})
    <3> HIDE DEF UpTo
    <3> QED BY <2>2, FS_CardinalityType, FS_EmptySet
  <2>5. Cardinality(UpTo(n)) # 0
    BY <2>3, <2>4
  <2> QED BY <2>2, <2>3, <2>4, <2>5
<1>3. ASSUME NEW m \in Due, NEW n \in Due, m < n
      PROVE  Cardinality(UpTo(m)) # Cardinality(UpTo(n))
  <2>1. UpTo(m) \in SUBSET UpTo(n) /\ n \notin UpTo(m) /\ n \in UpTo(n)
    <3>1. m \in Nat /\ n \in Nat /\ \A k \in Due : k \in Nat
      BY <1>1
    <3>2. \A k \in UpTo(m) : k \in UpTo(n)
      BY <1>3, <3>1
    <3>3. n \notin UpTo(m) /\ n \in UpTo(n)
      BY <1>3, <3>1
    <3> HIDE DEF UpTo
    <3> QED BY <3>2, <3>3
  <2>2. Cardinality(UpTo(n)) = Cardinality(UpTo(m)) => UpTo(n) = UpTo(m)
    <3>1. IsFiniteSet(UpTo(n)) /\ UpTo(m) \in SUBSET UpTo(n)
      BY <1>2, <2>1
    <3> HIDE DEF UpTo
    <3> QED BY <3>1, FS_Subset
  <2> QED BY <2>1, <2>2
<1>4. rank \in Injection(Listed, 1..room)
  <2>1. \A n \in Listed : rank[n] = Cardinality(UpTo(n))
    OBVIOUS
  <2>2. \A n \in Listed : rank[n] \in 1..room
    <3> TAKE n \in Listed
    <3>1. Cardinality(UpTo(n)) + Cardinality(Owned) <= MaxConcurrent
      BY DEF Listed
    <3>2. Cardinality(UpTo(n)) \in Nat /\ Cardinality(UpTo(n)) >= 1
      BY <1>1, <1>2
    <3> HIDE DEF UpTo
    <3> QED BY <1>1, <2>1, <3>1, <3>2, ConstantsAssumption
  <2>3. \A m, n \in Listed : rank[m] = rank[n] => m = n
    <3> TAKE m, n \in Listed
    <3>1. m \in Due /\ n \in Due /\ m \in Nat /\ n \in Nat
      BY <1>1
    <3>2. m < n => Cardinality(UpTo(m)) # Cardinality(UpTo(n))
      BY <1>3, <3>1
    <3>3. n < m => Cardinality(UpTo(m)) # Cardinality(UpTo(n))
      BY <1>3, <3>1
    <3> HIDE DEF UpTo, rank
    <3> QED BY <2>1, <3>1, <3>2, <3>3
  <2>4. rank \in [Listed -> 1..room]
    BY <2>2
  <2> HIDE DEF rank
  <2> QED BY <2>3, <2>4 DEF Injection, IsInjective
<1>5. IsFiniteSet(1..room) /\ Cardinality(1..room) = room
  <2>1. IsFiniteSet(1..room) /\ Cardinality(1..room) = (IF 1 > room THEN 0 ELSE room - 1 + 1)
    <3> HIDE DEF room
    <3> QED BY <1>1, FS_Interval
  <2> HIDE DEF room
  <2> QED BY <1>1, <2>1
<1>6. IsFiniteSet(Listed) /\ Cardinality(Listed) <= room
  <2> HIDE DEF rank, room
  <2> QED BY <1>4, <1>5, FS_Injection
<1>7. Cardinality(Listed) \in Nat
  BY <1>6, FS_CardinalityType
<1> QED BY <1>1, <1>6, <1>7, ConstantsAssumption

\* Without a claim no run is held that was not held before.
LEMMA HeldShrinks ==
  ASSUME LimitInv, Held' \subseteq Held
  PROVE  IsFiniteSet(Held') /\ Cardinality(Held') <= MaxConcurrent
<1>1. IsFiniteSet(Held') /\ Cardinality(Held') <= Cardinality(Held)
  BY FS_Subset DEF LimitInv
<1>2. Cardinality(Held') \in Nat /\ Cardinality(Held) \in Nat
  BY <1>1, FS_CardinalityType DEF LimitInv
<1> QED BY <1>1, <1>2, ConstantsAssumption DEF LimitInv

LEMMA ClaimKeepsLimit ==
  ASSUME TypedInv, LimitInv, Claim
  PROVE  LimitInv'
<1> PICK id \in [Listed -> FreshIds] :
         /\ \A k, m \in Listed : id[k] = id[m] => k = m
         /\ optimizer' = [m \in Names |-> IF m \in Listed THEN ClaimRun(optimizer[m], id[m])
                                          ELSE optimizer[m]]
         /\ DOMAIN worker' = RunIds
         /\ \A m \in Listed : worker'[id[m]] = ClaimedWork(m)
         /\ \A s \in RunIds : (\A m \in Listed : id[m] # s) => worker'[s] = worker[s]
  BY ClaimEffect
<1> DEFINE new == {id[n] : n \in Listed}
<1>1. scheduler = "claim" /\ scheduler' = "dispatch"
  BY DEF Claim
<1>2. IsFiniteSet(Owned) /\ Cardinality(Owned) <= MaxConcurrent /\ Cardinality(Owned) \in Nat
  <2>1. Owned \in SUBSET Held
    BY DEF Held
  <2>2. IsFiniteSet(Owned) /\ Cardinality(Owned) <= Cardinality(Held)
    BY <2>1, FS_Subset DEF LimitInv
  <2>3. Cardinality(Owned) \in Nat /\ Cardinality(Held) \in Nat
    BY <2>2, FS_CardinalityType DEF LimitInv
  <2> QED BY <2>2, <2>3, ConstantsAssumption DEF LimitInv
<1>3. Held' \subseteq Owned \cup new
  <2> SUFFICES ASSUME NEW r \in RunIds, worker'[r].owned \/ worker'[r].pc = "claimed",
                      \A m \in Listed : id[m] # r
               PROVE  worker[r].owned
    BY DEF Held, Owned
  <2>1. worker'[r] = worker[r]
    OBVIOUS
  <2> QED BY <1>1, <2>1 DEF LimitInv
<1>4. IsFiniteSet(new) /\ Cardinality(new) <= Cardinality(Listed)
  <2>1. id \in Surjection(Listed, new)
    BY DEF Surjection
  <2>2. IsFiniteSet(Listed)
    BY <1>2, ListedAreFew
  <2> HIDE DEF new
  <2> QED BY <2>1, <2>2, FS_Surjection
<1>5. IsFiniteSet(Owned \cup new) /\ Cardinality(Owned \cup new) <= MaxConcurrent
  <2>1. Cardinality(Listed) + Cardinality(Owned) <= MaxConcurrent /\ IsFiniteSet(Listed)
    BY <1>2, ListedAreFew
  <2> HIDE DEF new
  <2>2. /\ IsFiniteSet(Owned \cup new) /\ IsFiniteSet(Owned \cap new)
        /\ Cardinality(Owned \cup new) =
             Cardinality(Owned) + Cardinality(new) - Cardinality(Owned \cap new)
    BY <1>2, <1>4, FS_Union, FS_Intersection
  <2>3. /\ Cardinality(Listed) \in Nat /\ Cardinality(new) \in Nat
        /\ Cardinality(Owned \cap new) \in Nat
    BY <1>4, <2>1, <2>2, FS_CardinalityType
  <2> QED BY <1>2, <1>4, <2>1, <2>2, <2>3, ConstantsAssumption
<1>6. IsFiniteSet(Held') /\ Cardinality(Held') <= MaxConcurrent
  <2> HIDE DEF new
  <2>1. Held' \in SUBSET (Owned \cup new)
    BY <1>3
  <2>2. IsFiniteSet(Held') /\ Cardinality(Held') <= Cardinality(Owned \cup new)
    BY <1>5, <2>1, FS_Subset
  <2>3. Cardinality(Held') \in Nat /\ Cardinality(Owned \cup new) \in Nat
    BY <1>5, <2>2, FS_CardinalityType
  <2> QED BY <1>5, <2>2, <2>3, ConstantsAssumption
<1> QED BY <1>1, <1>6 DEF LimitInv

LEMMA LimitStep ==
  ASSUME TypedInv, LimitInv, [Next]_vars
  PROVE  LimitInv'
<1>1. worker \in [RunIds -> Worker]
  BY DEF TypedInv, TypeOK
<1>2. SUFFICES ASSUME ~Claim
               PROVE  /\ \A r \in RunIds : worker'[r].pc = "claimed" =>
                           worker[r].pc = "claimed" /\ scheduler' \notin {"reap", "claim", "down"}
                      /\ \A r \in RunIds : worker'[r].owned =>
                           worker[r].owned \/ worker[r].pc = "claimed"
  <2>1. ASSUME /\ \A r \in RunIds : worker'[r].pc = "claimed" =>
                    worker[r].pc = "claimed" /\ scheduler' \notin {"reap", "claim", "down"}
               /\ \A r \in RunIds : worker'[r].owned =>
                    worker[r].owned \/ worker[r].pc = "claimed"
        PROVE  LimitInv'
    <3>1. Held' \subseteq Held
      BY <2>1 DEF Held, Owned
    <3> QED BY <2>1, <3>1, HeldShrinks DEF LimitInv
  <2> QED BY <2>1, ClaimKeepsLimit
<1>3. \A r \in RunIds : worker[r].pc = "claimed" => scheduler \notin {"reap", "claim", "down"}
  BY DEF LimitInv
<1>4. CASE UNCHANGED <<scheduler, worker>>
  BY <1>3, <1>4
<1>5. ASSUME NEW r \in RunIds, Work(r) \/ Finish(r) \/ StrayEnds(r)
      PROVE  /\ \A s \in RunIds : worker'[s].pc = "claimed" =>
                  worker[s].pc = "claimed" /\ scheduler' \notin {"reap", "claim", "down"}
             /\ \A s \in RunIds : worker'[s].owned => worker[s].owned \/ worker[s].pc = "claimed"
  BY <1>3, <1>5, WorkerActsAlone
<1>6. CASE Reap
  <2>1. ASSUME NEW r \in RunIds
        PROVE  worker'[r] \in {worker[r], [worker[r] EXCEPT !.owned = FALSE], CancelWorker(worker[r])}
    BY <1>1, <1>6 DEF Reap
  <2>2. \A r \in RunIds : /\ [worker[r] EXCEPT !.owned = FALSE].pc = worker[r].pc
                          /\ ~[worker[r] EXCEPT !.owned = FALSE].owned
    BY <1>1 DEF Worker
  <2>3. \A r \in RunIds : worker[r].pc # "claimed"
    BY <1>6 DEF Reap, LimitInv
  <2>4. ASSUME NEW r \in RunIds
        PROVE  worker'[r].pc # "claimed" /\ (worker'[r].owned => worker[r].owned)
    <3>1. CASE worker'[r] = worker[r]
      BY <2>3, <3>1
    <3>2. CASE worker'[r] = [worker[r] EXCEPT !.owned = FALSE]
      BY <2>2, <2>3, <3>2
    <3>3. CASE worker'[r] = CancelWorker(worker[r])
      <4>1. worker[r] \in Worker
        BY <1>1
      <4> QED BY <2>3, <3>3, <4>1, CancelledWorker
    <3> QED BY <2>1, <3>1, <3>2, <3>3
  <2> QED BY <2>4
<1>7. CASE ClaimNothing
  BY <1>3, <1>7 DEF ClaimNothing
<1>8. CASE Dispatch
  BY <1>1, <1>8 DEF Dispatch, Worker
<1>9. CASE Close
  <2>1. \A r \in RunIds : worker'[r] \in {worker[r], CancelWorker(worker[r])}
    BY <1>1, <1>9 DEF Close, CancelWorkers
  <2> QED BY <1>1, <1>9, <2>1, CancelledWorker DEF Close
<1>10. CASE Closed \/ Crash
  BY <1>10 DEF Closed, Crash, GoDown, NoWorker
<1>11. CASE Restart
  BY <1>3, <1>11 DEF Restart
<1> QED BY <1>2, <1>4, <1>5, <1>6, <1>7, <1>8, <1>9, <1>10, <1>11
        DEF Next, Tick, Command, BecomesDue, vars

LEMMA LimitInvariant == Spec => []LimitInv
<1>1. ASSUME Init PROVE LimitInv
  <2>1. Held = {} /\ \A r \in RunIds : worker[r].pc # "claimed"
    BY <1>1 DEF Init, Held, Owned, NoWorker
  <2> QED BY <2>1, FS_EmptySet, ConstantsAssumption DEF LimitInv
<1>2. TypedInv /\ LimitInv /\ [Next]_vars => LimitInv'
  BY LimitStep
<1> QED BY <1>1, <1>2, TypedInvariant, PTL DEF Spec

\* No claim exceeds the configured concurrency.
THEOREM WorkersAlwaysLimited == Spec => []WorkersAreLimited
<1>1. LimitInv => WorkersAreLimited
  BY DEF LimitInv, Held, WorkersAreLimited
<1> QED BY <1>1, LimitInvariant, PTL

-----------------------------------------------------------------------------
(***************************************************************************)
(* The identity and the end of runs.                                       *)
(***************************************************************************)
\* An identifier names one run of one optimizer.
RunsAreUnique ==
  \A m, n \in Names :
    \A i \in DOMAIN optimizer[m].runs, j \in DOMAIN optimizer[n].runs :
      optimizer[m].runs[i].id = optimizer[n].runs[j].id => m = n /\ i = j

\* A recorded run was claimed by a worker.
RunsAreClaimed ==
  \A n \in Names : \A i \in DOMAIN optimizer[n].runs :
    worker[optimizer[n].runs[i].id].pc # "none"

HistoryInv == RunsAreUnique /\ RunsAreClaimed

\* The history of an optimizer after a change that starts no run.
Updates(o, o2) ==
  /\ DOMAIN o2.runs = DOMAIN o.runs
  /\ \A i \in DOMAIN o.runs :
       /\ o2.runs[i].id = o.runs[i].id
       /\ o.runs[i].state \in TerminalRunState => o2.runs[i].state = o.runs[i].state

\* The optimizers after a step without a claim: each has no history, or continues the one of
\* its table, which may have been renamed.
Inherited(src) ==
  /\ \A n \in Names : \/ DOMAIN optimizer'[n].runs = {}
                      \/ Updates(optimizer[src[n]], optimizer'[n])
  /\ \A m, n \in Names : src[m] = src[n] =>
       \/ m = n
       \/ DOMAIN optimizer'[m].runs = {} \/ DOMAIN optimizer'[n].runs = {}

Inherit == \E src \in [Names -> Names] : Inherited(src)

LEMMA SameUpdates ==
  ASSUME NEW o
  PROVE  Updates(o, o)
BY DEF Updates

\* What replaces the state of the active run alone.
LEMMA ActiveRunUpdates ==
  ASSUME NEW o \in Optimizer, HasActiveRun(o), NEW o2,
         NEW state \in ActiveRunState \cup TerminalRunState, o2.runs = SetActiveRun(o, state)
  PROVE  Updates(o, o2)
<1> DEFINE hist == SetActiveRun(o, state)
<1>1. /\ DOMAIN hist = DOMAIN o.runs
      /\ \A i \in DOMAIN o.runs :
           hist[i] = IF i = Len(o.runs) THEN [o.runs[i] EXCEPT !.state = state] ELSE o.runs[i]
  BY ActiveRunIsSet
<1>2. \A i \in DOMAIN o.runs : o.runs[i] \in Run
  BY Runs
<1>3. o.runs[Len(o.runs)].state \notin TerminalRunState
  BY DEF HasActiveRun, ActiveRunState, TerminalRunState
<1>4. ASSUME NEW i \in DOMAIN o.runs
      PROVE  /\ hist[i].id = o.runs[i].id
             /\ o.runs[i].state \in TerminalRunState => hist[i].state = o.runs[i].state
  <2> HIDE DEF hist
  <2>1. CASE i = Len(o.runs)
    <3>1. hist[i] = [o.runs[i] EXCEPT !.state = state] /\ o.runs[i] \in Run
      BY <1>1, <1>2, <2>1
    <3>2. hist[i].id = o.runs[i].id
      BY <3>1 DEF Run
    <3> QED BY <1>3, <2>1, <3>2
  <2>2. CASE i # Len(o.runs)
    BY <1>1, <2>2
  <2> QED BY <2>1, <2>2
<1> HIDE DEF hist
<1>5. o2.runs = hist
  BY DEF hist
<1> QED BY <1>1, <1>4, <1>5 DEF Updates

\* The methods of the aggregate that start no run.
LEMMA MethodsUpdate ==
  ASSUME NEW o \in Optimizer
  PROVE  /\ HasActiveRun(o) => Updates(o, MarkInProgress(o)) /\ Updates(o, CompleteRun(o))
                               /\ Updates(o, FailRun(o))
         /\ Updates(o, CancelActiveRun(o))
         /\ Updates(o, Recovered(o))
         /\ \A enabled \in BOOLEAN : Updates(o, Revise(o, enabled))
         /\ Updates(o, [o EXCEPT !.next = "due"])
<1>1. {"in_progress", "completed", "failed"} \subseteq ActiveRunState \cup TerminalRunState
  BY DEF ActiveRunState, TerminalRunState
<1>2. ASSUME HasActiveRun(o)
      PROVE  /\ Updates(o, MarkInProgress(o)) /\ Updates(o, CompleteRun(o))
             /\ Updates(o, FailRun(o)) /\ Updates(o, CancelRun(o))
  <2> DEFINE h1 == SetActiveRun(o, "in_progress")
             h2 == SetActiveRun(o, "completed")
             h3 == SetActiveRun(o, "failed")
  <2>1. MarkInProgress(o).runs = h1
    <3>1. MarkInProgress(o) = [o EXCEPT !.runs = h1]
      BY DEF MarkInProgress
    <3> HIDE DEF h1
    <3> QED BY <3>1 DEF Optimizer
  <2>2. CompleteRun(o).runs = h2
    <3>1. CompleteRun(o) = [o EXCEPT !.runs = h2, !.next = "later", !.failures = 0]
      BY DEF CompleteRun
    <3> HIDE DEF h2
    <3> QED BY <3>1 DEF Optimizer
  <2>3. FailRun(o).runs = h3
    <3>1. FailRun(o) = [o EXCEPT !.runs = h3, !.failures = o.failures + 1,
                          !.enabled = o.enabled /\ ~GivenUp(o),
                          !.next = IF GivenUp(o) THEN "none" ELSE "later"]
      BY DEF FailRun
    <3> HIDE DEF h3
    <3> QED BY <3>1 DEF Optimizer
  <2>4. CancelRun(o).runs = h3
    <3>1. CancelRun(o) = [o EXCEPT !.runs = h3, !.next = IF o.enabled THEN "due" ELSE "none"]
      BY DEF CancelRun
    <3> HIDE DEF h3
    <3> QED BY <3>1 DEF Optimizer
  <2> QED BY <1>1, <1>2, <2>1, <2>2, <2>3, <2>4, ActiveRunUpdates
<1>3. Updates(o, CancelActiveRun(o)) /\ Updates(o, Recovered(o))
  BY <1>2, SameUpdates DEF CancelActiveRun, Recovered
<1>4. ASSUME NEW enabled \in BOOLEAN PROVE Updates(o, Revise(o, enabled))
  <2>1. Revise(o, enabled).runs = o.runs
    BY DEF Revise, Optimizer
  <2> QED BY <2>1 DEF Updates
<1>5. Updates(o, [o EXCEPT !.next = "due"])
  <2>1. [o EXCEPT !.next = "due"].runs = o.runs
    BY DEF Optimizer
  <2> QED BY <2>1 DEF Updates
<1> QED BY <1>2, <1>3, <1>4, <1>5

\* The histories when each optimizer keeps its own, or loses it.
LEMMA InheritOwn ==
  ASSUME \A n \in Names : DOMAIN optimizer'[n].runs = {} \/ Updates(optimizer[n], optimizer'[n])
  PROVE  Inherit
<1> DEFINE same == [n \in Names |-> n]
<1>1. same \in [Names -> Names] /\ \A n \in Names : same[n] = n
  OBVIOUS
<1> HIDE DEF same
<1>2. Inherited(same)
  BY <1>1 DEF Inherited
<1> QED BY <1>1, <1>2 DEF Inherit

LEMMA TransitionInherits ==
  ASSUME TypedInv, NEW r \in RunIds, NEW o, Transition(r, o),
         HasActiveRun(Claimed(r)) /\ Claimed(r) \in Optimizer => Updates(Claimed(r), o)
  PROVE  Inherit
<1>1. \A n \in Names : Updates(optimizer[n], optimizer'[n])
  <2>1. CASE Current(r)
    <3>1. /\ worker[r].name \in Names /\ optimizer \in [Names -> Optimizer]
          /\ optimizer' = [optimizer EXCEPT ![worker[r].name] = o]
          /\ Updates(optimizer[worker[r].name], o)
      BY <2>1 DEF Current, Transition, IsActiveRun, Claimed, TypedInv, GoodOptimizers
    <3> QED BY <3>1, SameUpdates
  <2>2. CASE ~Current(r)
    BY <2>2, SameUpdates DEF Transition
  <2> QED BY <2>1, <2>2
<1> QED BY <1>1, InheritOwn

LEMMA OnlyClaimsStart ==
  ASSUME TypedInv, Next, ~Claim
  PROVE  Inherit
<1>1. optimizer \in [Names -> Optimizer]
  BY DEF TypedInv, GoodOptimizers
<1>2. CASE UNCHANGED optimizer
  BY <1>2, SameUpdates, InheritOwn
<1>3. DOMAIN NoOptimizer.runs = {} /\ \A t, e : DOMAIN NewOptimizer(t, e).runs = {}
  BY DEF NoOptimizer, NewOptimizer
<1>4. ASSUME NEW n \in Names, Command(n) PROVE Inherit
  <2>1. CASE UpdateTable(n)
    <3>1. ASSUME NEW k \in Names, table[k] = "absent",
                 optimizer' = [optimizer EXCEPT ![n] = NoOptimizer, ![k] = Moved(optimizer[n])]
          PROVE  Inherit
      <4> DEFINE src == [m \in Names |-> IF m = k THEN n ELSE m]
      <4>1. k # n
        BY <2>1, <3>1 DEF UpdateTable
      <4>2. Updates(optimizer[n], Moved(optimizer[n]))
        BY <1>1, MethodsUpdate DEF Moved
      <4>3. /\ optimizer'[n] = NoOptimizer /\ optimizer'[k] = Moved(optimizer[n])
            /\ \A m \in Names \ {n, k} : optimizer'[m] = optimizer[m]
        BY <1>1, <3>1, <4>1
      <4>4. /\ src \in [Names -> Names] /\ src[k] = n /\ src[n] = n
            /\ \A m \in Names \ {n, k} : src[m] = m
        BY <4>1
      <4> HIDE DEF src
      <4>5. \A m \in Names : \/ DOMAIN optimizer'[m].runs = {}
                             \/ Updates(optimizer[src[m]], optimizer'[m])
        BY <1>3, <4>2, <4>3, <4>4, SameUpdates
      <4>6. \A l, m \in Names : src[l] = src[m] =>
              l = m \/ DOMAIN optimizer'[l].runs = {} \/ DOMAIN optimizer'[m].runs = {}
        BY <1>3, <4>3, <4>4
      <4>7. Inherited(src)
        BY <4>5, <4>6 DEF Inherited
      <4> QED BY <4>4, <4>7 DEF Inherit
    <3> QED BY <1>2, <2>1, <3>1 DEF UpdateTable
  <2>2. CASE CreateTableOptimizer(n)
    BY <1>1, <1>3, <2>2, SameUpdates, InheritOwn DEF CreateTableOptimizer, InsertOptimizer
  <2>3. CASE UpdateTableOptimizer(n)
    <3> PICK enabled \in BOOLEAN :
         optimizer' = [optimizer EXCEPT ![n] = Revise(CancelActiveRun(@), enabled)]
      BY <2>3 DEF UpdateTableOptimizer, ReplaceOptimizer
    <3> DEFINE o  == CancelActiveRun(optimizer[n])
               o2 == Revise(o, enabled)
    <3>1. o \in Optimizer
      BY CancelKeepsGood DEF Good, TypedInv, GoodOptimizers
    <3>2. Updates(optimizer[n], o) /\ Updates(o, o2)
      <4> HIDE DEF o
      <4>1. Updates(optimizer[n], o)
        BY <1>1, MethodsUpdate DEF o
      <4> QED BY <3>1, <4>1, MethodsUpdate
    <3> HIDE DEF o, o2
    <3>3. Updates(optimizer[n], o2)
      BY <3>2 DEF Updates
    <3>4. optimizer' = [optimizer EXCEPT ![n] = o2]
      BY DEF o, o2
    <3> QED BY <1>1, <3>3, <3>4, SameUpdates, InheritOwn
  <2>4. CASE DeleteTable(n) \/ DeleteTableOptimizer(n)
    BY <1>1, <1>3, <2>4, SameUpdates, InheritOwn DEF DeleteTable, DeleteTableOptimizer, RemoveOptimizer
  <2>5. CASE CreateTable(n)
    BY <1>2, <2>5 DEF CreateTable
  <2> QED BY <1>4, <2>1, <2>2, <2>3, <2>4, <2>5 DEF Command
<1>5. ASSUME NEW n \in Names, BecomesDue(n) PROVE Inherit
  <2>1. optimizer' = [optimizer EXCEPT ![n] = [optimizer[n] EXCEPT !.next = "due"]]
    BY <1>5 DEF BecomesDue
  <2>2. Updates(optimizer[n], [optimizer[n] EXCEPT !.next = "due"])
    BY <1>1, MethodsUpdate
  <2> QED BY <1>1, <2>1, <2>2, SameUpdates, InheritOwn
<1>6. ASSUME NEW r \in RunIds, Mark(r) \/ Complete(r) \/ RecordFailure(r) \/ RecordInterruption(r)
      PROVE  Inherit
  BY <1>6, MethodsUpdate, TransitionInherits DEF Mark, Complete, RecordFailure, RecordInterruption
<1>7. CASE Restart
  BY <1>1, <1>7, MethodsUpdate, InheritOwn DEF Restart
<1>8. ASSUME NEW r \in RunIds, Work(r) \/ Finish(r) \/ StrayEnds(r)
      PROVE  Inherit
  BY <1>2, <1>6, <1>8 DEF Work, Start, Spawn, Stopped, Refused, Finish, Exit, Timeout, StrayEnds
<1>9. CASE Reap \/ ClaimNothing \/ Dispatch \/ Close \/ Closed \/ Crash
  BY <1>2, <1>9 DEF Reap, ClaimNothing, Dispatch, Close, Closed, Crash, GoDown
<1> QED BY <1>4, <1>5, <1>7, <1>8, <1>9 DEF Next, Tick

\* A claim drops runs from the front of a history and adds its own at the end.
Extends(o, o2, id) ==
  \E d \in Nat :
    \A i \in DOMAIN o2.runs :
      IF i = Len(o2.runs) THEN o2.runs[i].id = id
      ELSE i + d \in DOMAIN o.runs /\ o2.runs[i] = o.runs[i + d] /\ i \in Nat

LEMMA ClaimExtends ==
  ASSUME NEW o \in Optimizer, NEW id \in RunIds
  PROVE  Extends(o, ClaimRun(o, id), id)
<1> DEFINE run  == [id |-> id, state |-> "starting"]
           all  == Append(o.runs, run)
           kept == LastRuns(all)
<1>1. run \in Run /\ run.id = id
  BY DEF Run, ActiveRunState
<1>2. o.runs \in Seq(Run) /\ Len(o.runs) \in Nat /\ DOMAIN o.runs = 1..Len(o.runs)
  BY Runs
<1>3. /\ all \in Seq(Run) /\ Len(all) = Len(o.runs) + 1 /\ all # <<>>
      /\ DOMAIN all = 1..(Len(o.runs) + 1) /\ all[Len(all)] = run
      /\ \A j \in DOMAIN o.runs : all[j] = o.runs[j]
  <2> HIDE DEF run
  <2>1. all \in Seq(Run) /\ Len(all) = Len(o.runs) + 1 /\ all[Len(o.runs) + 1] = run
        /\ \A j \in 1..Len(o.runs) : all[j] = o.runs[j]
    BY <1>1, <1>2
  <2>2. all # <<>> /\ DOMAIN all = 1..Len(all)
    <3> HIDE DEF all
    <3> QED BY <1>2, <2>1, EmptySeq, LenProperties
  <2> QED BY <1>2, <2>1, <2>2
<1>4. kept \in Seq(Run) /\ kept # <<>> /\ kept[Len(kept)] = run
  <2> HIDE DEF all, run
  <2> QED BY <1>3, LastRunsIsEnd
<1>5. PICK d \in Nat :
        /\ Len(all) = Len(kept) + d
        /\ \A i \in DOMAIN kept : i + d \in DOMAIN all /\ kept[i] = all[i + d]
  <2> HIDE DEF all, run
  <2> QED BY <1>3, LastRunsIsEnd
<1>6. Len(kept) \in Nat /\ DOMAIN kept = 1..Len(kept)
  <2> HIDE DEF kept
  <2> QED BY <1>4, LenProperties
<1>7. ASSUME NEW i \in DOMAIN kept
      PROVE  IF i = Len(kept) THEN kept[i].id = id
             ELSE i + d \in DOMAIN o.runs /\ kept[i] = o.runs[i + d] /\ i \in Nat
  <2> HIDE DEF kept, all, run
  <2>1. CASE i = Len(kept)
    BY <1>1, <1>4, <2>1
  <2>2. CASE i # Len(kept)
    <3>1. i \in Nat /\ i < Len(kept) /\ i + d \in DOMAIN all /\ kept[i] = all[i + d]
      BY <1>5, <1>6, <2>2
    <3>2. i + d \in 1..Len(o.runs)
      BY <1>2, <1>3, <1>5, <1>6, <3>1
    <3> QED BY <1>2, <1>3, <2>2, <3>1, <3>2
  <2> QED BY <2>1, <2>2
<1>8. ClaimRun(o, id).runs = kept
  <2>1. ClaimRun(o, id) = [o EXCEPT !.runs = kept, !.next = "none"]
    BY DEF ClaimRun
  <2> HIDE DEF kept
  <2> QED BY <2>1 DEF Optimizer
<1> HIDE DEF kept
<1> QED BY <1>7, <1>8 DEF Extends

\* Where a recorded run comes from in a claim: a fresh identifier, or the same history.
LEMMA ClaimHistories ==
  ASSUME TypedInv, Claim
  PROVE  \E id \in [Listed -> FreshIds] :
           /\ \A m, n \in Listed : id[m] = id[n] => m = n
           /\ \A n \in Names : IF n \in Listed THEN Extends(optimizer[n], optimizer'[n], id[n])
                               ELSE optimizer'[n] = optimizer[n]
           /\ \A n \in Listed : worker'[id[n]].pc # "none"
           /\ \A r \in RunIds : (\A n \in Listed : id[n] # r) => worker'[r] = worker[r]
<1> PICK id \in [Listed -> FreshIds] :
         /\ \A m, n \in Listed : id[m] = id[n] => m = n
         /\ optimizer' = [n \in Names |-> IF n \in Listed THEN ClaimRun(optimizer[n], id[n])
                                          ELSE optimizer[n]]
         /\ DOMAIN worker' = RunIds
         /\ \A n \in Listed : worker'[id[n]] = ClaimedWork(n)
         /\ \A r \in RunIds : (\A n \in Listed : id[n] # r) => worker'[r] = worker[r]
  BY ClaimEffect
<1>1. \A n \in Listed : Extends(optimizer[n], ClaimRun(optimizer[n], id[n]), id[n])
  BY ListedAreDue, ClaimExtends DEF FreshIds, TypedInv, GoodOptimizers
<1>2. \A n \in Names : IF n \in Listed THEN Extends(optimizer[n], optimizer'[n], id[n])
                       ELSE optimizer'[n] = optimizer[n]
  BY <1>1
<1>3. \A n \in Listed : worker'[id[n]].pc # "none"
  BY ListedAreDue
<1> QED BY <1>2, <1>3

\* Every run of a history after a claim.
LEMMA ClaimSource ==
  ASSUME TypedInv, NEW id \in [Listed -> FreshIds], NEW n \in Names,
         IF n \in Listed THEN Extends(optimizer[n], optimizer'[n], id[n])
         ELSE optimizer'[n] = optimizer[n]
  PROVE  \E d \in Nat : \A i \in DOMAIN optimizer'[n].runs :
           \/ /\ n \in Listed /\ i = Len(optimizer'[n].runs)
              /\ optimizer'[n].runs[i].id = id[n]
           \/ /\ i \in Nat /\ i + d \in DOMAIN optimizer[n].runs
              /\ optimizer'[n].runs[i] = optimizer[n].runs[i + d]
<1>1. CASE n \in Listed
  BY <1>1 DEF Extends
<1>2. CASE n \notin Listed
  <2>1. \A i \in DOMAIN optimizer[n].runs : i \in Nat /\ i + 0 = i
    <3>1. optimizer[n] \in Optimizer
      BY DEF TypedInv, GoodOptimizers
    <3>2. DOMAIN optimizer[n].runs = 1..Len(optimizer[n].runs) /\ Len(optimizer[n].runs) \in Nat
      BY <3>1, Runs
    <3> QED BY <3>2
  <2> QED BY <1>2, <2>1
<1> QED BY <1>1, <1>2

\* The ids of recorded runs are run ids.
LEMMA RecordedIds ==
  ASSUME TypedInv, NEW n \in Names, NEW i \in DOMAIN optimizer[n].runs
  PROVE  optimizer[n].runs[i].id \in RunIds
<1>1. optimizer[n] \in Optimizer
  BY DEF TypedInv, GoodOptimizers
<1> QED BY <1>1, Runs DEF Run

\* A claimed worker is never taken for an unused identifier again.
LEMMA ClaimedStays ==
  ASSUME TypedInv, [Next]_vars, NEW r \in RunIds, worker'[r].pc = "none"
  PROVE  worker[r].pc = "none"
<1>1. worker \in [RunIds -> Worker]
  BY DEF TypedInv, TypeOK
<1>2. ASSUME NEW s \in RunIds, Work(s) \/ Finish(s) \/ StrayEnds(s) PROVE worker[r].pc = "none"
  BY <1>2, WorkerActsAlone
<1>3. CASE Reap
  <2>1. worker'[r] \in {worker[r], [worker[r] EXCEPT !.owned = FALSE], CancelWorker(worker[r])}
    BY <1>1, <1>3 DEF Reap
  <2>2. [worker[r] EXCEPT !.owned = FALSE].pc = worker[r].pc
    BY <1>1 DEF Worker
  <2> QED BY <1>1, <2>1, <2>2, CancelledWorker
<1>4. CASE Claim
  BY <1>4, ClaimHistories DEF FreshIds
<1>5. CASE Dispatch
  BY <1>1, <1>5 DEF Dispatch, Worker
<1>6. CASE Close
  BY <1>1, <1>6, CancelledWorker DEF Close, CancelWorkers
<1>7. CASE Closed \/ Crash
  BY <1>1, <1>7 DEF Closed, Crash, GoDown, NoWorker
<1>8. CASE worker' = worker
  BY <1>8
<1> QED BY <1>2, <1>3, <1>4, <1>5, <1>6, <1>7, <1>8
        DEF Next, Tick, ClaimNothing, Restart, Command, BecomesDue, vars

LEMMA ClaimKeepsHistory ==
  ASSUME TypedInv, HistoryInv, Next, Claim
  PROVE  HistoryInv'
<1> PICK id \in [Listed -> FreshIds] :
         /\ \A m, n \in Listed : id[m] = id[n] => m = n
         /\ \A n \in Names : IF n \in Listed THEN Extends(optimizer[n], optimizer'[n], id[n])
                             ELSE optimizer'[n] = optimizer[n]
         /\ \A n \in Listed : worker'[id[n]].pc # "none"
         /\ \A r \in RunIds : (\A n \in Listed : id[n] # r) => worker'[r] = worker[r]
  BY ClaimHistories
<1>1. \A n \in Listed, m \in Names : \A i \in DOMAIN optimizer[m].runs :
        optimizer[m].runs[i].id # id[n]
  BY DEF HistoryInv, RunsAreClaimed, FreshIds
<1>2. ASSUME NEW m \in Names, NEW n \in Names,
             NEW i \in DOMAIN optimizer'[m].runs, NEW j \in DOMAIN optimizer'[n].runs,
             optimizer'[m].runs[i].id = optimizer'[n].runs[j].id
      PROVE  m = n /\ i = j
  <2> PICK d \in Nat : \A k \in DOMAIN optimizer'[m].runs :
           \/ /\ m \in Listed /\ k = Len(optimizer'[m].runs)
              /\ optimizer'[m].runs[k].id = id[m]
           \/ /\ k \in Nat /\ k + d \in DOMAIN optimizer[m].runs
              /\ optimizer'[m].runs[k] = optimizer[m].runs[k + d]
    BY ClaimSource
  <2> PICK e \in Nat : \A k \in DOMAIN optimizer'[n].runs :
           \/ /\ n \in Listed /\ k = Len(optimizer'[n].runs)
              /\ optimizer'[n].runs[k].id = id[n]
           \/ /\ k \in Nat /\ k + e \in DOMAIN optimizer[n].runs
              /\ optimizer'[n].runs[k] = optimizer[n].runs[k + e]
    BY ClaimSource
  <2>1. CASE m \in Listed /\ i = Len(optimizer'[m].runs) /\ optimizer'[m].runs[i].id = id[m]
    <3>1. CASE n \in Listed /\ j = Len(optimizer'[n].runs) /\ optimizer'[n].runs[j].id = id[n]
      BY <1>2, <2>1, <3>1
    <3>2. CASE /\ j + e \in DOMAIN optimizer[n].runs
               /\ optimizer'[n].runs[j] = optimizer[n].runs[j + e]
      BY <1>1, <1>2, <2>1, <3>2
    <3> QED BY <3>1, <3>2
  <2>2. CASE /\ i \in Nat /\ i + d \in DOMAIN optimizer[m].runs
             /\ optimizer'[m].runs[i] = optimizer[m].runs[i + d]
    <3>1. \A k \in Listed : optimizer'[n].runs[j].id # id[k]
      BY <1>1, <1>2, <2>2
    <3>2. /\ j + e \in DOMAIN optimizer[n].runs
          /\ optimizer'[n].runs[j] = optimizer[n].runs[j + e]
      BY <3>1
    <3>3. m = n
      BY <1>2, <2>2, <3>2 DEF HistoryInv, RunsAreUnique
    <3>4. /\ j \in Nat /\ j + d \in DOMAIN optimizer[m].runs
          /\ optimizer'[m].runs[j] = optimizer[m].runs[j + d]
      BY <3>1, <3>3
    <3>5. i + d = j + d
      BY <1>2, <2>2, <3>3, <3>4 DEF HistoryInv, RunsAreUnique
    <3>6. i = j
      BY <2>2, <3>4, <3>5
    <3> QED BY <3>3, <3>6
  <2> QED BY <2>1, <2>2
<1>3. RunsAreUnique'
  BY <1>2 DEF RunsAreUnique
<1>4. ASSUME NEW n \in Names, NEW i \in DOMAIN optimizer'[n].runs
      PROVE  worker'[optimizer'[n].runs[i].id].pc # "none"
  <2> PICK d \in Nat : \A k \in DOMAIN optimizer'[n].runs :
           \/ /\ n \in Listed /\ k = Len(optimizer'[n].runs)
              /\ optimizer'[n].runs[k].id = id[n]
           \/ /\ k \in Nat /\ k + d \in DOMAIN optimizer[n].runs
              /\ optimizer'[n].runs[k] = optimizer[n].runs[k + d]
    BY ClaimSource
  <2>1. CASE n \in Listed /\ optimizer'[n].runs[i].id = id[n]
    BY <2>1
  <2>2. CASE i + d \in DOMAIN optimizer[n].runs /\ optimizer'[n].runs[i] = optimizer[n].runs[i + d]
    <3>1. /\ optimizer[n].runs[i + d].id \in RunIds
          /\ worker[optimizer[n].runs[i + d].id].pc # "none"
      BY <2>2, RecordedIds DEF HistoryInv, RunsAreClaimed
    <3> QED BY <2>2, <3>1, ClaimedStays
  <2> QED BY <1>4, <2>1, <2>2
<1> QED BY <1>3, <1>4 DEF HistoryInv, RunsAreClaimed

LEMMA HistoryStep ==
  ASSUME TypedInv, HistoryInv, [Next]_vars
  PROVE  HistoryInv'
<1>1. CASE UNCHANGED vars
  BY <1>1 DEF vars, HistoryInv, RunsAreUnique, RunsAreClaimed
<1>2. ASSUME Next, ~Claim PROVE HistoryInv'
  <2> PICK src \in [Names -> Names] : Inherited(src)
    BY <1>2, OnlyClaimsStart DEF Inherit
  <2>1. ASSUME NEW n \in Names, NEW i \in DOMAIN optimizer'[n].runs
        PROVE  /\ src[n] \in Names /\ i \in DOMAIN optimizer[src[n]].runs
               /\ optimizer'[n].runs[i].id = optimizer[src[n]].runs[i].id
    BY <2>1 DEF Inherited, Updates
  <2>2. RunsAreUnique'
    <3> SUFFICES ASSUME NEW m \in Names, NEW n \in Names,
                        NEW i \in DOMAIN optimizer'[m].runs, NEW j \in DOMAIN optimizer'[n].runs,
                        optimizer'[m].runs[i].id = optimizer'[n].runs[j].id
                 PROVE  m = n /\ i = j
      BY DEF RunsAreUnique
    <3>1. src[m] = src[n] /\ i = j
      BY <2>1 DEF HistoryInv, RunsAreUnique
    <3>2. m = n
      BY <3>1 DEF Inherited
    <3> QED BY <3>1, <3>2
  <2>3. RunsAreClaimed'
    <3> SUFFICES ASSUME NEW n \in Names, NEW i \in DOMAIN optimizer'[n].runs
                 PROVE  worker'[optimizer'[n].runs[i].id].pc # "none"
      BY DEF RunsAreClaimed
    <3> DEFINE id == optimizer[src[n]].runs[i].id
    <3>1. id \in RunIds /\ worker[id].pc # "none" /\ optimizer'[n].runs[i].id = id
      BY <2>1, RecordedIds DEF HistoryInv, RunsAreClaimed
    <3> HIDE DEF id
    <3> QED BY <3>1, ClaimedStays
  <2> QED BY <2>2, <2>3 DEF HistoryInv
<1> QED BY <1>1, <1>2, ClaimKeepsHistory

LEMMA HistoryInvariant == Spec => []HistoryInv
<1>1. Init => HistoryInv
  <2>1. DOMAIN NoOptimizer.runs = {}
    BY DEF NoOptimizer
  <2> QED BY <2>1 DEF Init, HistoryInv, RunsAreUnique, RunsAreClaimed
<1>2. TypedInv /\ HistoryInv /\ [Next]_vars => HistoryInv'
  BY HistoryStep
<1> QED BY <1>1, <1>2, TypedInvariant, PTL DEF Spec

\* No step records another outcome for a run whose outcome is recorded.
LEMMA EndStays ==
  ASSUME TypedInv, HistoryInv, [Next]_vars,
         NEW m \in Names, NEW n \in Names,
         NEW i \in DOMAIN optimizer[m].runs, NEW j \in DOMAIN optimizer'[n].runs,
         optimizer[m].runs[i].id = optimizer'[n].runs[j].id,
         optimizer[m].runs[i].state \in TerminalRunState
  PROVE  optimizer'[n].runs[j].state = optimizer[m].runs[i].state
<1>1. CASE UNCHANGED vars
  <2>1. optimizer' = optimizer
    BY <1>1 DEF vars
  <2>2. m = n /\ i = j
    BY <2>1 DEF HistoryInv, RunsAreUnique
  <2> QED BY <2>1, <2>2
<1>2. CASE Next /\ ~Claim
  <2> PICK src \in [Names -> Names] : Inherited(src)
    BY <1>2, OnlyClaimsStart DEF Inherit
  <2>1. Updates(optimizer[src[n]], optimizer'[n]) /\ src[n] \in Names
    BY DEF Inherited
  <2>2. j \in DOMAIN optimizer[src[n]].runs
        /\ optimizer'[n].runs[j].id = optimizer[src[n]].runs[j].id
    BY <2>1 DEF Updates
  <2>3. m = src[n] /\ i = j
    BY <2>1, <2>2 DEF HistoryInv, RunsAreUnique
  <2> QED BY <2>1, <2>2, <2>3 DEF Updates
<1>3. CASE Claim
  <2> PICK id \in [Listed -> FreshIds] :
           /\ \A k, l \in Listed : id[k] = id[l] => k = l
           /\ \A k \in Names : IF k \in Listed THEN Extends(optimizer[k], optimizer'[k], id[k])
                               ELSE optimizer'[k] = optimizer[k]
           /\ \A k \in Listed : worker'[id[k]].pc # "none"
           /\ \A r \in RunIds : (\A k \in Listed : id[k] # r) => worker'[r] = worker[r]
    BY <1>3, ClaimHistories
  <2> PICK d \in Nat : \A k \in DOMAIN optimizer'[n].runs :
           \/ /\ n \in Listed /\ k = Len(optimizer'[n].runs)
              /\ optimizer'[n].runs[k].id = id[n]
           \/ /\ k \in Nat /\ k + d \in DOMAIN optimizer[n].runs
              /\ optimizer'[n].runs[k] = optimizer[n].runs[k + d]
    BY ClaimSource
  <2>1. ~(n \in Listed /\ optimizer'[n].runs[j].id = id[n])
    BY DEF HistoryInv, RunsAreClaimed, FreshIds
  <2>2. j + d \in DOMAIN optimizer[n].runs /\ optimizer'[n].runs[j] = optimizer[n].runs[j + d]
    BY <2>1
  <2>3. m = n /\ i = j + d
    BY <2>2 DEF HistoryInv, RunsAreUnique
  <2> QED BY <2>2, <2>3
<1> QED BY <1>1, <1>2, <1>3

\* The outcome of a run is recorded once.
THEOREM RunEndAlwaysFinal == Spec => RunEndIsFinal
<1>1. TypedInv /\ HistoryInv /\ [Next]_vars =>
        [\A m, n \in Names :
           \A i \in DOMAIN optimizer[m].runs, j \in DOMAIN optimizer'[n].runs :
             (/\ optimizer[m].runs[i].id = optimizer'[n].runs[j].id
              /\ optimizer[m].runs[i].state \in TerminalRunState)
             => optimizer'[n].runs[j].state = optimizer[m].runs[i].state]_vars
  BY EndStays
<1> QED BY <1>1, TypedInvariant, HistoryInvariant, PTL DEF Spec, RunEndIsFinal

=============================================================================
