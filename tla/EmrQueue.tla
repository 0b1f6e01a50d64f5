------------------------------ MODULE EmrQueue ------------------------------
(***************************************************************************)
(* What an EMR cluster promises the client that submits steps to it: the   *)
(* steps run one at a time, each at most once, in the order in which they  *)
(* were accepted, none before the cluster has been set up and none after   *)
(* the cluster has ended; a cluster ends once, and while it has not ended  *)
(* it gets on with the work it has accepted.                               *)
(*                                                                         *)
(* No task, lock, copy or child process appears here.  EmrClusterRefinement *)
(* shows that EmrCluster implements this.                                  *)
(***************************************************************************)
EXTENDS Naturals, FiniteSets

CONSTANTS Clusters, StepBound

VARIABLE queue

ClusterPhase == {"absent", "booting", "open", "ended"}

Queue ==
  [phase    : ClusterPhase,
   accepted : 0..StepBound,      \* how many steps were accepted while it was alive
   waiting  : SUBSET (1..StepBound),
   current  : 0..StepBound]      \* the step that has a runner, or 0

NoQueue == [phase |-> "absent", accepted |-> 0, waiting |-> {}, current |-> 0]

\* An ended cluster owes nothing; what was running is being stopped.
Ended(q) == [NoQueue EXCEPT !.phase = "ended", !.current = q.current]

First(S) == CHOOSE i \in S : \A j \in S : i <= j

Init == queue = [c \in Clusters |-> NoQueue]

-----------------------------------------------------------------------------
Become(c, q) == queue' = [queue EXCEPT ![c] = q]

Alive(c) == queue[c].phase \in {"booting", "open"}

\* The cluster is created with its initial steps.
Create(c) ==
  /\ queue[c].phase = "absent"
  /\ \E n \in 0..StepBound :
       Become(c, [phase |-> "booting", accepted |-> n, waiting |-> 1..n, current |-> 0])

\* Steps are appended behind everything accepted so far.
Accept(c) ==
  /\ queue[c].phase = "open"
  /\ \E n \in (queue[c].accepted + 1)..StepBound :
       Become(c, [queue[c] EXCEPT !.accepted = n,
                                  !.waiting = @ \cup ((queue[c].accepted + 1)..n)])

\* A client withdraws a step that has not started.
Withdraw(c) ==
  /\ Alive(c)
  /\ \E i \in queue[c].waiting : Become(c, [queue[c] EXCEPT !.waiting = @ \ {i}])

\* The first waiting step takes the turn; the step that had it is done.
Take(c) ==
  /\ Alive(c)
  /\ queue[c].waiting # {}
  /\ LET i == First(queue[c].waiting) IN
       Become(c, [queue[c] EXCEPT !.phase = "open", !.waiting = @ \ {i}, !.current = i])

\* Nothing takes the turn: nothing waits, or a failed step gave up what waited.
Rest(c) ==
  /\ Alive(c)
  /\ queue[c].waiting = {} \/ queue[c].current # 0
  /\ Become(c, [queue[c] EXCEPT !.phase = "open", !.waiting = {}, !.current = 0])

\* The cluster ends for good, and with it everything that waits.
End(c) ==
  /\ Alive(c)
  /\ Become(c, Ended(queue[c])) \/ Become(c, Ended([queue[c] EXCEPT !.current = 0]))

\* What was running when the cluster ended has been stopped.
Drain(c) ==
  /\ queue[c].phase = "ended"
  /\ queue[c].current # 0
  /\ Become(c, Ended([queue[c] EXCEPT !.current = 0]))

\* What the cluster does by itself about the work it owes.
Advance(c) ==
  /\ queue[c].waiting # {} \/ queue[c].current # 0
  /\ Take(c) \/ Rest(c) \/ End(c) \/ Drain(c)

Next ==
  \E c \in Clusters :
    \/ Create(c) \/ Accept(c) \/ Withdraw(c)
    \/ Take(c) \/ Rest(c) \/ End(c) \/ Drain(c)

Spec == Init /\ [][Next]_queue /\ \A c \in Clusters : WF_queue(Advance(c))
=============================================================================
