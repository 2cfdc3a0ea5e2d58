------------------------- MODULE NodeOutcomesProofs -------------------------
(***************************************************************************)
(* What becomes of the node states of a run, for every graph, any number   *)
(* of executions of a wait and any number of crashes, whether or not       *)
(* clients resume the run.                                                 *)
(***************************************************************************)
EXTENDS NodeOutcomes, TLAPS

\* From the acquisition of the lock to the parking or the end of the run an
\* execution writes its copy; it holds the lock a little longer.
Writing == {"activate", "dag", "admit", "settle", "publish", "checkpoint", "park",
            "complete", "fail"}
Holding == Writing \cup {"parked", "announce"}

\* The inductive invariant.  What it says of the lock and of the deliveries
\* holds always, the rest until a checkpoint is put back or an execution
\* gets the lock with an outdated copy.

LockInv == \A a \in Actors : ex[a].pc \in Holding => lock = a

\* A checkpoint is put back only when there is one, and a delivery is one
\* of an execution of its wait.
CallInv ==
  /\ \A a \in Actors : ex[a].pc = "restore" => saved \in NodeStates
  /\ \A w \in Waits : ex[w].pc # "off" => ex[w].inst > 0

\* A wait does not fail, has no instance before it begins, and completes as
\* an instance.
WaitsOK(states) ==
  \A w \in Waits :
    /\ states[w].st # "failed"
    /\ states[w].st = "none" => states[w].no = 0
    /\ states[w].st = "completed" => states[w].no > 0

\* How the copy of execution e differs from what it published last: by the
\* batch, whose waits nobody else knows an instance of yet.
BatchOK(e) ==
  /\ e.pc \in (Writing \cup {"acquire"}) \ {"admit", "publish"} => e.mem = e.pub
  /\ e.pc = "admit" =>
       \A n \in Nodes :
         /\ n \notin e.batch => e.mem[n] = e.pub[n]
         /\ n \in e.batch \cap Waits => e.pub[n].st = "none"
  /\ e.pc \in {"admit", "settle"} =>
       \A n \in e.batch : e.mem[n].st = "running" /\ (n \in Waits => e.mem[n].no = 0)
  /\ e.pc = "publish" =>
       \A n \in Nodes :
         /\ n \notin e.batch => e.mem[n] = e.pub[n]
         /\ n \in e.batch \cap Waits => e.pub[n].st = "running" /\ e.pub[n].no = 0
  /\ e.pc = "complete" => \A n \in Nodes : e.mem[n].st = "completed"

CopyOK(e) == e.from = None /\ Closed(e.mem) /\ WaitsOK(e.mem) /\ BatchOK(e)

\* What the run's state owes to the copy of execution e.
Current(e) == e.pc \in Writing /\ status \in Active => Follows(e.pub, node)

\* What a delivery found is still so when it writes.
PatchOK(w) ==
  ex[w].pc = "patch" /\ status \in Active =>
    node[w].no = ex[w].inst /\ node[w].st \in {"running", "completed"}

Sound ==
  /\ Closed(node) /\ WaitsOK(node)
  /\ \A a \in Actors : CopyOK(ex[a])
  /\ \A a \in Actors : Current(ex[a])
  /\ \A w \in Waits : PatchOK(w)

SoundInv == ~restored /\ ~raced => Sound

GraphInv == TypeOK /\ LockInv /\ CallInv /\ SoundInv

---------------------------------------------------------------------------
(* Types of what the actions store                                         *)

LEMMA ActorFacts ==
  /\ Waits \subseteq Actors /\ {Starter, Worker, Client} \subseteq Actors
  /\ None \notin Actors /\ "dead" \notin Actors
  /\ Waits \subseteq Nodes /\ Steps \subseteq Nodes /\ Waits \cap Steps = {}
  /\ Deps \in [Nodes -> SUBSET Nodes] /\ MaxInstances \in Nat /\ MaxCrashes \in Nat
BY GraphAssumption DEF Actors, Nodes

LEMMA UntouchedType == Untouched \in NodeStates
BY DEF Untouched, NodeStates, NodeState

LEMMA StateType ==
  ASSUME NEW s \in NodeStates, NEW n \in Nodes
  PROVE  /\ s[n] \in NodeState /\ s[n].no \in Nat
         /\ s[n].st \in {"none", "running", "completed", "failed"}
         /\ Begun(s[n]) \in NodeState
         /\ [s[n] EXCEPT !.st = "running"] \in NodeState
         /\ [s[n] EXCEPT !.st = "completed"] \in NodeState
BY DEF NodeStates, NodeState, Begun

LEMMA OffType ==
  /\ Off \in Execution
  /\ \A l \in Labels, i \in Nat, s \in {"first", "worker"} :
       /\ [Off EXCEPT !.pc = l] \in Execution
       /\ [Off EXCEPT !.pc = l, !.inst = i] \in Execution
       /\ [Off EXCEPT !.inst = i, !.pc = l] \in Execution
       /\ [Off EXCEPT !.pc = l, !.as = s] \in Execution
       /\ [Off EXCEPT !.pc = l, !.as = s, !.inst = i] \in Execution
<1>1. Off \in Execution
  BY UntouchedType DEF Off, Execution, Labels
<1>2. ASSUME NEW l \in Labels, NEW i \in Nat, NEW s \in {"first", "worker"}
      PROVE  /\ [Off EXCEPT !.pc = l] \in Execution
             /\ [Off EXCEPT !.pc = l, !.inst = i] \in Execution
             /\ [Off EXCEPT !.inst = i, !.pc = l] \in Execution
             /\ [Off EXCEPT !.pc = l, !.as = s] \in Execution
             /\ [Off EXCEPT !.pc = l, !.as = s, !.inst = i] \in Execution
  BY <1>1 DEF Execution
<1> QED
  BY <1>1, <1>2

LEMMA GotoType ==
  ASSUME NEW e \in Execution, NEW l \in Labels
  PROVE  /\ [e EXCEPT !.pc = l] \in Execution
         /\ \A o \in {"first", "worker"} : [e EXCEPT !.pc = l, !.as = o] \in Execution
BY DEF Execution

\* The updates of an execution by what it reads, admits and publishes.
LEMMA UpdateType ==
  ASSUME NEW e \in Execution, NEW l \in Labels, NEW s \in NodeStates,
         NEW b \in SUBSET Nodes, NEW W \in SUBSET Waits
  PROVE  /\ [e EXCEPT !.pc = l, !.mem = s] \in Execution
         /\ [e EXCEPT !.pc = l, !.pub = s] \in Execution
         /\ [e EXCEPT !.pc = l, !.mem = s, !.pub = s] \in Execution
         /\ \A n \in Nodes : [e EXCEPT !.pc = l, !.from = n, !.mem = s] \in Execution
         /\ [e EXCEPT !.pc = l, !.batch = b, !.from = None, !.fresh = FALSE, !.mem = s] \in Execution
         /\ [e EXCEPT !.pc = l, !.pub = s, !.batch = b] \in Execution
         /\ [e EXCEPT !.batch = b] \in Execution
         /\ [e EXCEPT !.pc = l, !.stalled = TRUE, !.waits = W] \in Execution
         /\ [e EXCEPT !.pc = l, !.waits = W] \in Execution
BY DEF Execution

LEMMA ExecFields ==
  ASSUME TypeOK, NEW a \in Actors
  PROVE  /\ ex[a] \in Execution
         /\ ex[a].pc \in Labels /\ ex[a].as \in {"first", "worker"} /\ ex[a].inst \in Nat
         /\ ex[a].mem \in NodeStates /\ ex[a].pub \in NodeStates
         /\ ex[a].batch \in SUBSET Nodes /\ ex[a].waits \in SUBSET Waits
BY DEF TypeOK, Execution

LEMMA BecomeType ==
  ASSUME ex \in [Actors -> Execution], NEW a \in Actors, NEW e \in Execution, Become(a, e)
  PROVE  ex' \in [Actors -> Execution]
BY DEF Become

LEMMA LabelType ==
  \A l : l \in {"off", "read", "patch", "resume", "restore", "retireClaims",
           "retirePending", "load", "acquire", "activate", "dag", "admit",
           "settle", "publish", "checkpoint", "park", "parked", "announce",
           "unlock", "recheck", "verdict", "stuck", "failStalled", "complete",
           "fail", "release", "refused", "timer", "finalize"} => l \in Labels
BY DEF Labels

LEMMA MoveType ==
  ASSUME TypeOK, NEW a \in Actors
  PROVE  /\ \A l \in Labels : Goto(a, l) => ex' \in [Actors -> Execution]
         /\ Return(a) => ex' \in [Actors -> Execution]
         /\ Throw(a) => ex' \in [Actors -> Execution]
<1>1. ASSUME NEW l \in Labels, Goto(a, l) PROVE ex' \in [Actors -> Execution]
  BY <1>1, ExecFields, GotoType, BecomeType DEF Goto, TypeOK
<1>2. ASSUME Return(a) PROVE ex' \in [Actors -> Execution]
  BY <1>1, <1>2, LabelType DEF Return
<1>3. ASSUME Throw(a) PROVE ex' \in [Actors -> Execution]
  BY <1>1, <1>3, LabelType DEF Throw
<1> QED
  BY <1>1, <1>2, <1>3

LEMMA RecUpdate ==
  ASSUME TypeOK, NEW x, NEW v \in {"none", "pending", "claimed", "settled"}
  PROVE  [rec EXCEPT ![x] = v] \in [Waits \X (1..MaxInstances) -> {"none", "pending", "claimed", "settled"}]
BY DEF TypeOK

LEMMA GiveUpType ==
  ASSUME TypeOK, NEW w \in Waits, NEW st \in {"pending", "settled"}, GiveUp(w, st)
  PROVE  /\ ex' \in [Actors -> Execution]
         /\ rec' \in [Waits \X (1..MaxInstances) -> {"none", "pending", "claimed", "settled"}]
<1>1. ex' \in [Actors -> Execution]
  BY OffType, BecomeType, ActorFacts DEF GiveUp, TypeOK
<1>2. rec' \in [Waits \X (1..MaxInstances) -> {"none", "pending", "claimed", "settled"}]
  BY DEF GiveUp, TypeOK
<1> QED
  BY <1>1, <1>2

LEMMA PatchedType ==
  ASSUME TypeOK, NEW old \in NodeStates, NEW new \in NodeStates
  PROVE  Patched(old, new) \in NodeStates
BY DEF Patched, NodeStates, TypeOK

LEMMA PublishType ==
  ASSUME TypeOK, NEW a \in Actors, NEW l \in Labels, Publish(a, l)
  PROVE  ex' \in [Actors -> Execution] /\ node' \in NodeStates /\ UNCHANGED <<status, owner>>
<1>1. CASE /\ node' = Patched(ex[a].pub, ex[a].mem)
           /\ Become(a, [ex[a] EXCEPT !.pc = l, !.pub = ex[a].mem])
           /\ UNCHANGED <<status, owner>>
  <2>1. [ex[a] EXCEPT !.pc = l, !.pub = ex[a].mem] \in Execution
    BY ExecFields, UpdateType
  <2> QED
    BY <1>1, <2>1, ExecFields, PatchedType, BecomeType DEF TypeOK
<1>2. CASE Goto(a, "release") /\ SameRun
  BY <1>2, MoveType, LabelType DEF SameRun, TypeOK
<1> QED
  BY <1>1, <1>2 DEF Publish

LEMMA EndRunType ==
  ASSUME TypeOK, NEW a \in Actors, NEW expected, NEW s \in Ended, EndRun(a, expected, s)
  PROVE  TypeOK'
<1>1. ex' \in [Actors -> Execution]
  BY MoveType, LabelType DEF EndRun
<1>2. node' \in NodeStates /\ status' \in Active \cup Ended
  BY ExecFields DEF EndRun, TypeOK
<1> QED
  BY <1>1, <1>2 DEF EndRun, TypeOK, SameStore, Quietly
LEMMA TypeStep == GraphInv /\ [Next \/ ClientResume]_vars => TypeOK'
<1> SUFFICES ASSUME GraphInv, [Next \/ ClientResume]_vars PROVE TypeOK'
  OBVIOUS
<1> USE ActorFacts DEF GraphInv, TypeOK, SameRun, SameStore, Quietly
<1>1. ASSUME NEW a \in Actors, Resume(a) PROVE TypeOK'
  <2>1. ex' \in [Actors -> Execution]
    BY <1>1, MoveType, LabelType DEF Resume
  <2> QED
    BY <1>1, <2>1 DEF Resume
<1>2. ASSUME NEW a \in Actors, Restore(a) PROVE TypeOK'
  <2>1. CASE Throw(a) /\ SameRun /\ UNCHANGED restored
    BY <1>2, <2>1, MoveType DEF Restore
  <2>2. CASE status' = "running" /\ node' = saved /\ restored' = TRUE /\ UNCHANGED owner
             /\ \E n \in Ready(saved) :
                  Become(a, [ex[a] EXCEPT !.pc = "retireClaims", !.from = n, !.mem = saved])
    <3>1. saved \in NodeStates
      BY <1>2 DEF Restore, At, CallInv
    <3>2. PICK n \in Nodes : Become(a, [ex[a] EXCEPT !.pc = "retireClaims", !.from = n, !.mem = saved])
      BY <2>2 DEF Ready
    <3>3. [ex[a] EXCEPT !.pc = "retireClaims", !.from = n, !.mem = saved] \in Execution
      BY <3>1, ExecFields, UpdateType, LabelType
    <3>4. ex' \in [Actors -> Execution]
      BY <3>2, <3>3, BecomeType
    <3> QED
      BY <1>2, <2>2, <3>1, <3>4 DEF Restore, Active
  <2> QED
    BY <1>2, <2>1, <2>2 DEF Restore
<1>3. ASSUME NEW a \in Actors, RetireClaims(a) PROVE TypeOK'
  <2>1. ex' \in [Actors -> Execution]
    BY <1>3, MoveType, LabelType DEF RetireClaims
  <2>2. rec' \in [Waits \X (1..MaxInstances) -> {"none", "pending", "claimed", "settled"}]
    BY <1>3 DEF RetireClaims
  <2> QED
    BY <1>3, <2>1, <2>2 DEF RetireClaims
<1>4. ASSUME NEW a \in Actors, RetirePending(a) PROVE TypeOK'
  <2>1. ex' \in [Actors -> Execution]
    BY <1>4, MoveType, LabelType DEF RetirePending
  <2>2. rec' \in [Waits \X (1..MaxInstances) -> {"none", "pending", "claimed", "settled"}]
    BY <1>4 DEF RetirePending
  <2> QED
    BY <1>4, <2>1, <2>2 DEF RetirePending
<1>5. ASSUME NEW a \in Actors, Load(a) PROVE TypeOK'
  <2>1. ex' \in [Actors -> Execution]
    <3>1. [ex[a] EXCEPT !.pc = "acquire", !.mem = node, !.pub = node] \in Execution
      BY ExecFields, UpdateType, LabelType
    <3> QED
      BY <1>5, <3>1, BecomeType, MoveType DEF Load
  <2> QED
    BY <1>5, <2>1 DEF Load
<1>6. ASSUME NEW a \in Actors, Acquire(a) PROVE TypeOK'
  <2>1. ex' \in [Actors -> Execution]
    BY <1>6, MoveType, LabelType DEF Acquire
  <2>2. raced' \in BOOLEAN
    BY <1>6 DEF Acquire
  <2> QED
    BY <1>6, <2>1, <2>2 DEF Acquire
<1>7. ASSUME NEW a \in Actors, Activate(a) PROVE TypeOK'
  <2>1. ex' \in [Actors -> Execution]
    BY <1>7, MoveType, LabelType DEF Activate
  <2> QED
    BY <1>7, <2>1 DEF Activate, Active
<1>8. ASSUME NEW a \in Actors, Dag(a) PROVE TypeOK'
  <2> DEFINE begun == [n \in Nodes |-> IF n \notin Admitted(a) THEN ex[a].mem[n]
                                     ELSE IF n \in Steps THEN Begun(ex[a].mem[n])
                                     ELSE [ex[a].mem[n] EXCEPT !.st = "running"]]
             parked == {w \in Waits : ex[a].mem[w].st = "running"}
  <2>1. begun \in NodeStates
    BY ExecFields, StateType DEF NodeStates
  <2>2. Admitted(a) \in SUBSET Nodes
    BY ExecFields, ActorFacts DEF Admitted, Ready, Interrupted, Execution
  <2>3. /\ [ex[a] EXCEPT !.pc = "fail"] \in Execution
        /\ [ex[a] EXCEPT !.pc = "complete"] \in Execution
    BY ExecFields, GotoType, LabelType
  <2>4. [ex[a] EXCEPT !.pc = "park", !.stalled = TRUE, !.waits = parked] \in Execution
    BY ExecFields, UpdateType, LabelType
  <2>5. [ex[a] EXCEPT !.pc = "admit", !.batch = Admitted(a), !.from = None,
           !.fresh = FALSE, !.mem = begun] \in Execution
    <3> HIDE DEF begun
    <3> QED
      BY <2>1, <2>2, ExecFields, UpdateType, LabelType
  <2>6. ex' \in [Actors -> Execution]
    BY <1>8, <2>3, <2>4, <2>5, BecomeType DEF Dag
  <2> QED
    BY <1>8, <2>6 DEF Dag
<1>9. ASSUME NEW a \in Actors, Admit(a) PROVE TypeOK'
  BY <1>9, PublishType, LabelType DEF Admit
<1>10. ASSUME NEW a \in Actors, Settle(a) PROVE TypeOK'
  <2> DEFINE settled == [n \in Nodes |->
                          IF n \notin ex[a].batch THEN ex[a].mem[n]
                          ELSE IF n \in Steps THEN [ex[a].mem[n] EXCEPT !.st = "completed"]
                          ELSE [st |-> "running", no |-> born'[n]]]
  <2>1. born' \in [Waits -> 0..MaxInstances]
    BY <1>10, ActorFacts DEF Settle
  <2>2. settled \in NodeStates
    <3>1. \A n \in Nodes : n \notin Steps => n \in Waits
      BY DEF Nodes
    <3>2. ASSUME NEW n \in Nodes, n \notin Steps
          PROVE  [st |-> "running", no |-> born'[n]] \in NodeState
      <4>1. born'[n] \in Nat
        BY <2>1, <3>1, <3>2
      <4> QED
        BY <4>1 DEF NodeState
    <3>3. ASSUME NEW n \in Nodes PROVE settled[n] \in NodeState
      BY <3>2, ExecFields, StateType
    <3> QED
      BY <3>3 DEF NodeStates
  <2>3. [ex[a] EXCEPT !.pc = "publish", !.mem = settled] \in Execution
    <3> HIDE DEF settled
    <3> QED
      BY <2>2, ExecFields, UpdateType, LabelType
  <2>4. ex' \in [Actors -> Execution]
    BY <1>10, <2>3, BecomeType DEF Settle
  <2> QED
    BY <1>10, <2>1, <2>4 DEF Settle
<1>11. ASSUME NEW a \in Actors, PublishSettled(a) PROVE TypeOK'
  BY <1>11, PublishType, LabelType DEF PublishSettled, AfterBatch
<1>12. ASSUME NEW a \in Actors, Checkpoint(a) PROVE TypeOK'
  <2>1. ex' \in [Actors -> Execution]
    BY <1>12, MoveType, LabelType DEF Checkpoint, AfterBatch
  <2> QED
    BY <1>12, <2>1, ExecFields DEF Checkpoint
<1>13. ASSUME NEW a \in Actors, Complete(a) PROVE TypeOK'
  BY <1>13, EndRunType DEF Complete, Ended
<1>14. ASSUME NEW a \in Actors, Fail(a) PROVE TypeOK'
  BY <1>14, EndRunType DEF Fail, Ended
<1>15. ASSUME NEW a \in Actors, Release(a) PROVE TypeOK'
  <2>1. ex' \in [Actors -> Execution]
    BY <1>15, MoveType DEF Release
  <2> QED
    BY <1>15, <2>1 DEF Release
<1>16. ASSUME NEW a \in Actors, Park(a) PROVE TypeOK'
  <2> DEFINE W == IF ex[a].stalled THEN ex[a].waits ELSE ex[a].batch \cap Waits
  <2>1. [ex[a] EXCEPT !.pc = "parked", !.waits = W] \in Execution
    BY ExecFields, UpdateType, LabelType
  <2>2. ex' \in [Actors -> Execution]
    BY <1>16, <2>1, BecomeType, MoveType, LabelType DEF Park
  <2> QED
    BY <1>16, <2>2 DEF Park, Active
<1>17. ASSUME NEW a \in Actors, ReadParked(a) PROVE TypeOK'
  <2>1. [ex[a] EXCEPT !.pc = "announce", !.pub = node, !.batch = ex[a].waits] \in Execution
    BY ExecFields, UpdateType, LabelType, ActorFacts
  <2>2. ex' \in [Actors -> Execution]
    BY <1>17, <2>1, BecomeType, MoveType, LabelType DEF ReadParked
  <2> QED
    BY <1>17, <2>2 DEF ReadParked
<1>18. ASSUME NEW a \in Actors, Announce(a) PROVE TypeOK'
  <2>1. \A w : [ex[a] EXCEPT !.batch = @ \ {w}] \in Execution
    BY ExecFields DEF Execution
  <2>2. ex' \in [Actors -> Execution]
    BY <1>18, <2>1, BecomeType, MoveType, LabelType DEF Announce
  <2>3. rec' \in [Waits \X (1..MaxInstances) -> {"none", "pending", "claimed", "settled"}]
    BY <1>18, RecUpdate DEF Announce
  <2> QED
    BY <1>18, <2>2, <2>3 DEF Announce
<1>19. ASSUME NEW a \in Actors, Unlock(a) PROVE TypeOK'
  <2>1. ex' \in [Actors -> Execution]
    BY <1>19, MoveType, LabelType DEF Unlock
  <2> QED
    BY <1>19, <2>1 DEF Unlock
<1>20. ASSUME NEW a \in Actors, Recheck(a) PROVE TypeOK'
  <2>1. ex' \in [Actors -> Execution]
    BY <1>20, MoveType, LabelType DEF Recheck
  <2> QED
    BY <1>20, <2>1 DEF Recheck
<1>21. ASSUME NEW a \in Actors, ReadVerdict(a) PROVE TypeOK'
  <2>1. [ex[a] EXCEPT !.pc = "stuck", !.pub = node, !.batch = ex[a].waits] \in Execution
    BY ExecFields, UpdateType, LabelType, ActorFacts
  <2>2. ex' \in [Actors -> Execution]
    BY <1>21, <2>1, BecomeType, MoveType, LabelType DEF ReadVerdict
  <2> QED
    BY <1>21, <2>2 DEF ReadVerdict
<1>22. ASSUME NEW a \in Actors, MissingWait(a) PROVE TypeOK'
  <2>1. \A w : [ex[a] EXCEPT !.batch = @ \ {w}] \in Execution
    BY ExecFields DEF Execution
  <2>2. ex' \in [Actors -> Execution]
    BY <1>22, <2>1, BecomeType, MoveType, LabelType DEF MissingWait
  <2> QED
    BY <1>22, <2>2 DEF MissingWait
<1>23. ASSUME NEW a \in Actors, FailStalled(a) PROVE TypeOK'
  BY <1>23, EndRunType DEF FailStalled, Ended
<1>24. ASSUME NEW a \in Actors, Crash(a) PROVE TypeOK'
  <2>1. ex' \in [Actors -> Execution]
    BY <1>24, ExecFields, OffType, LabelType, BecomeType DEF Crash
  <2> QED
    BY <1>24, <2>1 DEF Crash
<1>25. ASSUME NEW w \in Waits, Claim(w) PROVE TypeOK'
  <2>1. PICK i \in 1..MaxInstances :
          /\ rec' = [rec EXCEPT ![<<w, i>>] = "claimed"]
          /\ Become(w, [Off EXCEPT !.pc = "read", !.inst = i])
    BY <1>25 DEF Claim
  <2>2. i \in Nat
    BY ActorFacts
  <2>3. ex' \in [Actors -> Execution]
    BY <2>1, <2>2, OffType, LabelType, BecomeType
  <2>4. rec' \in [Waits \X (1..MaxInstances) -> {"none", "pending", "claimed", "settled"}]
    BY <2>1, RecUpdate
  <2> QED
    BY <1>25, <2>3, <2>4 DEF Claim
<1>26. ASSUME NEW w \in Waits, ReadForDelivery(w) PROVE TypeOK'
  <2>1. [ex[w] EXCEPT !.pc = "patch", !.as = owner] \in Execution
    BY ExecFields, GotoType, LabelType
  <2>2. /\ ex' \in [Actors -> Execution]
        /\ rec' \in [Waits \X (1..MaxInstances) -> {"none", "pending", "claimed", "settled"}]
    BY <1>26, <2>1, GiveUpType, BecomeType DEF ReadForDelivery
  <2> QED
    BY <1>26, <2>2 DEF ReadForDelivery
<1>27. ASSUME NEW w \in Waits, Patch(w) PROVE TypeOK'
  <2>1. ex' \in [Actors -> Execution]
    BY <1>27, MoveType, LabelType DEF Patch
  <2>2. node' \in NodeStates
    <3>1. [st |-> "completed", no |-> ex[w].inst] \in NodeState
      BY ExecFields DEF NodeState
    <3> QED
      BY <1>27, <3>1 DEF Patch, NodeStates
  <2> QED
    BY <1>27, <2>1, <2>2 DEF Patch
<1>28. ASSUME NEW w \in Waits, Refused(w) PROVE TypeOK'
  <2>1. ex' \in [Actors -> Execution]
    BY <1>28, ExecFields, OffType, LabelType, BecomeType DEF Refused
  <2> QED
    BY <1>28, <2>1 DEF Refused
<1>29. ASSUME NEW w \in Waits, CommittedResume(w) PROVE TypeOK'
  <2>1. ex' \in [Actors -> Execution]
    BY <1>29, ExecFields, OffType, LabelType, BecomeType, MoveType DEF CommittedResume
  <2> QED
    BY <1>29, <2>1 DEF CommittedResume
<1>30. ASSUME NEW w \in Waits, RecoverClaim(w) PROVE TypeOK'
  BY <1>30, GiveUpType DEF RecoverClaim
<1>31. ASSUME NEW w \in Waits, Finalize(w) PROVE TypeOK'
  BY <1>31, GiveUpType DEF Finalize
<1>32. CASE WorkerClaim
  <2>1. ex' \in [Actors -> Execution]
    BY <1>32, OffType, LabelType, BecomeType DEF WorkerClaim
  <2> QED
    BY <1>32, <2>1 DEF WorkerClaim
<1>33. CASE Cancel
  BY <1>33 DEF Cancel, Ended
<1>34. CASE LockExpires
  BY <1>34 DEF LockExpires
<1>35. CASE ClientResume
  <2>1. ex' \in [Actors -> Execution]
    BY <1>35, OffType, LabelType, BecomeType DEF ClientResume
  <2> QED
    BY <1>35, <2>1 DEF ClientResume
<1>36. ASSUME NEW x \in DOMAIN rec, ClearWait(x) PROVE TypeOK'
  BY <1>36, RecUpdate DEF ClearWait
<1>37. CASE UNCHANGED vars
  BY <1>37 DEF vars
<1> QED
  BY <1>1, <1>2, <1>3, <1>4, <1>5, <1>6, <1>7, <1>8, <1>9, <1>10, <1>11, <1>12, <1>13, <1>14,
     <1>15, <1>16, <1>17, <1>18, <1>19, <1>20, <1>21, <1>22, <1>23, <1>24, <1>25, <1>26, <1>27, <1>28,
     <1>29, <1>30, <1>31, <1>32, <1>33, <1>34, <1>35, <1>36, <1>37
     DEF Next, Execute, Deliver

---------------------------------------------------------------------------
(* The lock and the calls                                                  *)

ControlInv == LockInv /\ CallInv

\* An execution comes to write or to park only by steps from where it held
\* the lock, or by the acquisition.
LEMMA MoveControl ==
  ASSUME TypeOK, ControlInv, UNCHANGED <<lock, saved>>,
         NEW a \in Actors, NEW e \in Execution, Become(a, e),
         e.pc \in Holding => ex[a].pc \in Holding,
         e.pc = "restore" => saved \in NodeStates,
         a \in Waits => e.pc = "off" \/ e.inst > 0
  PROVE  ControlInv'
BY DEF TypeOK, ControlInv, LockInv, CallInv, Become

LEMMA GotoControl ==
  ASSUME TypeOK, ControlInv, UNCHANGED <<lock, saved>>,
         NEW a \in Actors, NEW l \in Labels, Goto(a, l), ex[a].pc # "off",
         l \in Holding => ex[a].pc \in Holding,
         l = "restore" => saved \in NodeStates
  PROVE  ControlInv'
<1> DEFINE e == [ex[a] EXCEPT !.pc = l]
<1>1. e \in Execution /\ e.pc = l /\ e.inst = ex[a].inst
  BY ExecFields, GotoType DEF Execution
<1>2. a \in Waits => ex[a].inst > 0
  BY DEF ControlInv, CallInv
<1> QED
  BY <1>1, <1>2, MoveControl DEF Goto

LEMMA LeaveControl ==
  ASSUME TypeOK, ControlInv, UNCHANGED <<lock, saved>>,
         NEW a \in Actors, ex[a].pc # "off", Return(a) \/ Throw(a)
  PROVE  ControlInv'
BY GotoControl, LabelType DEF Return, Throw, Holding, Writing

LEMMA GiveUpControl ==
  ASSUME TypeOK, ControlInv, UNCHANGED <<lock, saved>>, NEW w \in Waits, NEW st, GiveUp(w, st)
  PROVE  ControlInv'
<1>1. Off \in Execution /\ Off.pc = "off"
  BY OffType DEF Off
<1> QED
  BY <1>1, MoveControl, ActorFacts DEF GiveUp, Holding, Writing

LEMMA ControlStep == GraphInv /\ [Next \/ ClientResume]_vars => ControlInv'
<1> SUFFICES ASSUME GraphInv, [Next \/ ClientResume]_vars PROVE ControlInv'
  OBVIOUS
<1>a. TypeOK /\ ControlInv
  BY DEF GraphInv, ControlInv
<1>b. ex' \in [Actors -> Execution]
  BY TypeStep DEF TypeOK
<1>c. \A a \in Waits : ex[a].pc # "off" => ex[a].inst > 0
  BY <1>a DEF ControlInv, CallInv
<1> USE <1>a, GraphAssumption DEF SameRun, SameStore, Quietly, At, Holding, Writing
<1>1. ASSUME NEW a \in Actors, Resume(a) PROVE ControlInv'
  BY <1>1, GotoControl, LeaveControl, LabelType DEF Resume, TypeOK
<1>2. ASSUME NEW a \in Actors, Restore(a) PROVE ControlInv'
  <2>1. CASE Throw(a)
    BY <1>2, <2>1, LeaveControl DEF Restore
  <2>2. CASE \E n \in Ready(saved) :
               Become(a, [ex[a] EXCEPT !.pc = "retireClaims", !.from = n, !.mem = saved])
    <3>1. PICK n \in Nodes : Become(a, [ex[a] EXCEPT !.pc = "retireClaims", !.from = n, !.mem = saved])
      BY <2>2 DEF Ready
    <3>2. saved \in NodeStates
      BY <1>2 DEF Restore, ControlInv, CallInv, TypeOK
    <3> DEFINE e == [ex[a] EXCEPT !.pc = "retireClaims", !.from = n, !.mem = saved]
    <3>3. e \in Execution
      BY <3>2, ExecFields, UpdateType, LabelType
    <3>4. e.pc = "retireClaims" /\ e.inst = ex[a].inst
      BY ExecFields DEF Execution
    <3>5. a \in Waits => ex[a].inst > 0
      BY <1>2 DEF Restore, ControlInv, CallInv
    <3> HIDE DEF e
    <3> QED
      BY <1>2, <3>1, <3>3, <3>4, <3>5, MoveControl DEF Restore, e
  <2> QED
    BY <1>2, <2>1, <2>2 DEF Restore
<1>3. ASSUME NEW a \in Actors, RetireClaims(a) PROVE ControlInv'
  BY <1>3, GotoControl, LabelType DEF RetireClaims
<1>4. ASSUME NEW a \in Actors, RetirePending(a) PROVE ControlInv'
  BY <1>4, GotoControl, LabelType DEF RetirePending
<1>5. ASSUME NEW a \in Actors, Load(a) PROVE ControlInv'
  <2> DEFINE e == [ex[a] EXCEPT !.pc = "acquire", !.mem = node, !.pub = node]
  <2>1. e \in Execution
    BY ExecFields, UpdateType, LabelType DEF TypeOK
  <2>2. e.pc = "acquire" /\ e.inst = ex[a].inst
    BY ExecFields DEF Execution
  <2>3. Become(a, e) => ControlInv'
    <3> HIDE DEF e
    <3> QED
      BY <1>5, <2>1, <2>2, <1>c, MoveControl DEF Load
  <2> QED
    BY <1>5, <2>3, GotoControl, LeaveControl, LabelType DEF Load
<1>6. ASSUME NEW a \in Actors, Acquire(a) PROVE ControlInv'
  <2>1. CASE lock = None /\ lock' = a /\ Goto(a, "activate")
    <3>1. \A b \in Actors : ex[b].pc \notin Holding
      BY <2>1, ActorFacts DEF ControlInv, LockInv
    <3>2. [ex[a] EXCEPT !.pc = "activate"] \in Execution
      BY ExecFields, GotoType, LabelType
    <3> QED
      BY <1>6, <2>1, <3>1, <3>2 DEF Acquire, Goto, Become, ControlInv, LockInv, CallInv, TypeOK, Execution
  <2>2. CASE Throw(a) /\ UNCHANGED lock
    BY <1>6, <2>2, LeaveControl DEF Acquire
  <2> QED
    BY <1>6, <2>1, <2>2 DEF Acquire
<1>7. ASSUME NEW a \in Actors, Activate(a) PROVE ControlInv'
  BY <1>7, GotoControl, LabelType DEF Activate
<1>8. ASSUME NEW a \in Actors, Dag(a) PROVE ControlInv'
  <2>1. Become(a, ex'[a]) /\ ex'[a].pc \in Writing /\ ex'[a].inst = ex[a].inst
    BY <1>8, ExecFields DEF Dag, Execution, Become, TypeOK
  <2>2. ex'[a] \in Execution
    BY <1>b
  <2>3. PICK e \in Execution : Become(a, e) /\ e.pc \in Writing /\ e.inst = ex[a].inst
    BY <2>1, <2>2
  <2> QED
    BY <1>8, <2>3, <1>c, MoveControl DEF Dag
<1>9. ASSUME NEW a \in Actors, Admit(a) PROVE ControlInv'
  <2> DEFINE l == "settle"
           e == [ex[a] EXCEPT !.pc = l, !.pub = ex[a].mem]
  <2>1. l \in Writing /\ l \in Labels
    BY DEF AfterBatch, Labels
  <2>2. e \in Execution /\ e.pc = l /\ e.inst = ex[a].inst
    <3>1. ex[a] \in Execution /\ ex[a].mem \in NodeStates /\ {} \in SUBSET Nodes /\ {} \in SUBSET Waits
      BY ExecFields
    <3>2. e \in Execution
      <4> HIDE DEF l
      <4> QED
        BY <2>1, <3>1, UpdateType
    <3>3. e.pc = l /\ e.inst = ex[a].inst
      <4> HIDE DEF l
      <4> QED
        BY <3>1 DEF Execution
    <3> QED
      BY <3>2, <3>3
  <2>3. Goto(a, "release") \/ Become(a, e)
    BY <1>9 DEF Admit, Publish
  <2>4. Become(a, e) => ControlInv'
    <3> HIDE DEF e, l
    <3> QED
      BY <1>9, <2>1, <2>2, <1>c, MoveControl DEF Admit
  <2> HIDE DEF e, l
  <2> QED
    BY <1>9, <2>3, <2>4, GotoControl, LabelType DEF Admit
<1>10. ASSUME NEW a \in Actors, Settle(a) PROVE ControlInv'
  <2>1. Become(a, ex'[a]) /\ ex'[a].pc = "publish" /\ ex'[a].inst = ex[a].inst
    BY <1>10, ExecFields DEF Settle, Execution, Become, TypeOK
  <2>2. ex'[a] \in Execution
    BY <1>b
  <2>3. PICK e \in Execution : Become(a, e) /\ e.pc = "publish" /\ e.inst = ex[a].inst
    BY <2>1, <2>2
  <2> QED
    BY <1>10, <2>3, <1>c, MoveControl DEF Settle
<1>11. ASSUME NEW a \in Actors, PublishSettled(a) PROVE ControlInv'
  <2> DEFINE l == IF ex[a].batch \cap Checkpointed # {} THEN "checkpoint" ELSE AfterBatch(a)
           e == [ex[a] EXCEPT !.pc = l, !.pub = ex[a].mem]
  <2>1. l \in Writing /\ l \in Labels
    BY DEF AfterBatch, Labels
  <2>2. e \in Execution /\ e.pc = l /\ e.inst = ex[a].inst
    <3>1. ex[a] \in Execution /\ ex[a].mem \in NodeStates /\ {} \in SUBSET Nodes /\ {} \in SUBSET Waits
      BY ExecFields
    <3>2. e \in Execution
      <4> HIDE DEF l
      <4> QED
        BY <2>1, <3>1, UpdateType
    <3>3. e.pc = l /\ e.inst = ex[a].inst
      <4> HIDE DEF l
      <4> QED
        BY <3>1 DEF Execution
    <3> QED
      BY <3>2, <3>3
  <2>3. Goto(a, "release") \/ Become(a, e)
    BY <1>11 DEF PublishSettled, Publish
  <2>4. Become(a, e) => ControlInv'
    <3> HIDE DEF e, l
    <3> QED
      BY <1>11, <2>1, <2>2, <1>c, MoveControl DEF PublishSettled
  <2> HIDE DEF e, l
  <2> QED
    BY <1>11, <2>3, <2>4, GotoControl, LabelType DEF PublishSettled
<1>12. ASSUME NEW a \in Actors, Checkpoint(a) PROVE ControlInv'
  <2>1. PICK l \in {"release", "dag", "park"} : Goto(a, l)
    BY <1>12 DEF Checkpoint, AfterBatch
  <2>2. [ex[a] EXCEPT !.pc = l] \in Execution
    BY ExecFields, GotoType, LabelType
  <2>3. saved' = ex[a].mem \/ saved' = saved
    BY <1>12 DEF Checkpoint
  <2>4. ex[a].mem \in NodeStates
    BY ExecFields
  <2> QED
    BY <1>12, <2>1, <2>2, <2>3, <2>4
       DEF Checkpoint, Goto, Become, ControlInv, LockInv, CallInv, TypeOK, Execution
<1>13. ASSUME NEW a \in Actors, Complete(a) PROVE ControlInv'
  BY <1>13, GotoControl, LabelType DEF Complete, EndRun
<1>14. ASSUME NEW a \in Actors, Fail(a) PROVE ControlInv'
  BY <1>14, GotoControl, LabelType DEF Fail, EndRun
<1>15. ASSUME NEW a \in Actors, Release(a) PROVE ControlInv'
  <2>1. PICK l \in {"finalize", "off", "recheck"} : Goto(a, l)
    BY <1>15 DEF Release, Return
  <2>2. [ex[a] EXCEPT !.pc = l] \in Execution
    BY ExecFields, GotoType, LabelType
  <2>3. \A b \in Actors : lock = b /\ b # a => lock' = b
    BY <1>15 DEF Release
  <2> QED
    BY <1>15, <2>1, <2>2, <2>3
       DEF Release, Goto, Become, ControlInv, LockInv, CallInv, TypeOK, Execution
<1>16. ASSUME NEW a \in Actors, Park(a) PROVE ControlInv'
  <2> DEFINE e == [ex[a] EXCEPT !.pc = "parked",
                           !.waits = IF ex[a].stalled THEN @ ELSE ex[a].batch \cap Waits]
  <2>1. e \in Execution
    BY ExecFields, UpdateType, LabelType
  <2>2. e.pc = "parked" /\ e.inst = ex[a].inst
    BY ExecFields DEF Execution
  <2>3. Become(a, e) => ControlInv'
    <3> HIDE DEF e
    <3> QED
      BY <1>16, <2>1, <2>2, <1>c, MoveControl DEF Park
  <2> QED
    BY <1>16, <2>3, GotoControl, LeaveControl, LabelType DEF Park
<1>17. ASSUME NEW a \in Actors, ReadParked(a) PROVE ControlInv'
  <2> DEFINE e == [ex[a] EXCEPT !.pc = "announce", !.pub = node, !.batch = ex[a].waits]
  <2>1. e \in Execution
    BY ExecFields, UpdateType, LabelType, ActorFacts DEF TypeOK
  <2>2. e.pc = "announce" /\ e.inst = ex[a].inst
    BY ExecFields DEF Execution
  <2>3. Become(a, e) => ControlInv'
    <3> HIDE DEF e
    <3> QED
      BY <1>17, <2>1, <2>2, <1>c, MoveControl DEF ReadParked
  <2> QED
    BY <1>17, <2>3, GotoControl, LeaveControl, LabelType DEF ReadParked
<1>18. ASSUME NEW a \in Actors, Announce(a) PROVE ControlInv'
  <2>1. CASE Goto(a, "release")
    BY <1>18, <2>1, GotoControl, LeaveControl, LabelType DEF Announce
  <2>2. CASE \E w : Become(a, [ex[a] EXCEPT !.batch = @ \ {w}])
    <3>1. PICK w : Become(a, [ex[a] EXCEPT !.batch = @ \ {w}])
      BY <2>2
    <3> DEFINE e == [ex[a] EXCEPT !.batch = @ \ {w}]
    <3>2. e \in Execution /\ e.pc = ex[a].pc /\ e.inst = ex[a].inst
      BY ExecFields DEF Execution
    <3> HIDE DEF e
    <3> QED
      BY <1>18, <3>1, <3>2, <1>c, MoveControl DEF Announce, e
  <2> QED
    BY <1>18, <2>1, <2>2 DEF Announce
<1>19. ASSUME NEW a \in Actors, Unlock(a) PROVE ControlInv'
  <2>1. PICK l \in {"finalize", "off", "recheck"} : Goto(a, l)
    BY <1>19 DEF Unlock, Return
  <2>2. [ex[a] EXCEPT !.pc = l] \in Execution
    BY ExecFields, GotoType, LabelType
  <2>3. \A b \in Actors : lock = b /\ b # a => lock' = b
    BY <1>19 DEF Unlock
  <2> QED
    BY <1>19, <2>1, <2>2, <2>3
       DEF Unlock, Goto, Become, ControlInv, LockInv, CallInv, TypeOK, Execution
<1>20. ASSUME NEW a \in Actors, Recheck(a) PROVE ControlInv'
  BY <1>20, GotoControl, LeaveControl, LabelType DEF Recheck
<1>21. ASSUME NEW a \in Actors, ReadVerdict(a) PROVE ControlInv'
  <2> DEFINE e == [ex[a] EXCEPT !.pc = "stuck", !.pub = node, !.batch = ex[a].waits]
  <2>1. e \in Execution
    BY ExecFields, UpdateType, LabelType, ActorFacts DEF TypeOK
  <2>2. e.pc = "stuck" /\ e.inst = ex[a].inst
    BY ExecFields DEF Execution
  <2>3. Become(a, e) => ControlInv'
    <3> HIDE DEF e
    <3> QED
      BY <1>21, <2>1, <2>2, <1>c, MoveControl DEF ReadVerdict
  <2> QED
    BY <1>21, <2>3, GotoControl, LeaveControl, LabelType DEF ReadVerdict
<1>22. ASSUME NEW a \in Actors, MissingWait(a) PROVE ControlInv'
  <2>1. CASE Return(a) \/ Goto(a, "failStalled")
    BY <1>22, <2>1, GotoControl, LeaveControl, LabelType DEF MissingWait
  <2>2. CASE \E w : Become(a, [ex[a] EXCEPT !.batch = @ \ {w}])
    <3>1. PICK w : Become(a, [ex[a] EXCEPT !.batch = @ \ {w}])
      BY <2>2
    <3> DEFINE e == [ex[a] EXCEPT !.batch = @ \ {w}]
    <3>2. e \in Execution /\ e.pc = ex[a].pc /\ e.inst = ex[a].inst
      BY ExecFields DEF Execution
    <3> HIDE DEF e
    <3> QED
      BY <1>22, <3>1, <3>2, <1>c, MoveControl DEF MissingWait, e
  <2> QED
    BY <1>22, <2>1, <2>2 DEF MissingWait
<1>23. ASSUME NEW a \in Actors, FailStalled(a) PROVE ControlInv'
  BY <1>23, GotoControl, LabelType DEF FailStalled, EndRun
<1>24. ASSUME NEW a \in Actors, Crash(a) PROVE ControlInv'
  <2>1. /\ Become(a, ex'[a]) /\ ex'[a].pc \in {"timer", "off"}
        /\ a \in Waits => ex'[a].inst = ex[a].inst
    BY <1>24 DEF Crash, Off, Become, TypeOK
  <2>2. ex'[a] \in Execution
    BY <1>b
  <2>3. \A b \in Actors : lock = b /\ b # a => lock' = b
    BY <1>24 DEF Crash
  <2>4. UNCHANGED saved /\ ex[a].pc # "off"
    BY <1>24 DEF Crash
  <2>5. LockInv'
    BY <2>1, <2>2, <2>3 DEF Become, ControlInv, LockInv, TypeOK
  <2>6. CallInv'
    <3>1. \A b \in Actors : b # a => ex'[b] = ex[b]
      BY <2>1 DEF Become, TypeOK
    <3>2. \A w \in Waits : w \in Actors
      BY ActorFacts
    <3> QED
      BY <2>1, <2>4, <3>1, <3>2 DEF ControlInv, CallInv
  <2> QED
    BY <2>5, <2>6 DEF ControlInv
<1>25. ASSUME NEW w \in Waits, Claim(w) PROVE ControlInv'
  <2>1. PICK i \in 1..MaxInstances : Become(w, [Off EXCEPT !.pc = "read", !.inst = i])
    BY <1>25 DEF Claim
  <2> DEFINE e == [Off EXCEPT !.pc = "read", !.inst = i]
  <2>2. i \in Nat /\ i > 0
    BY ActorFacts
  <2>3. e \in Execution
    BY <2>2, OffType, LabelType
  <2>4. e.pc = "read" /\ e.inst = i
    BY DEF Off
  <2> HIDE DEF e
  <2> QED
    BY <1>25, <2>1, <2>2, <2>3, <2>4, MoveControl, ActorFacts DEF Claim, e
<1>26. ASSUME NEW w \in Waits, ReadForDelivery(w) PROVE ControlInv'
  <2>1. CASE GiveUp(w, "pending") \/ GiveUp(w, "settled")
    BY <1>26, <2>1, GiveUpControl DEF ReadForDelivery
  <2>2. CASE Become(w, [ex[w] EXCEPT !.pc = "patch", !.as = owner])
    <3> DEFINE e == [ex[w] EXCEPT !.pc = "patch", !.as = owner]
    <3>1. e \in Execution
      BY ExecFields, GotoType, LabelType, ActorFacts DEF TypeOK
    <3>2. e.pc = "patch" /\ e.inst = ex[w].inst
      BY ExecFields, ActorFacts DEF Execution
    <3> HIDE DEF e
    <3> QED
      BY <1>26, <2>2, <3>1, <3>2, <1>c, MoveControl, ActorFacts DEF ReadForDelivery, e
  <2> QED
    BY <1>26, <2>1, <2>2 DEF ReadForDelivery
<1>27. ASSUME NEW w \in Waits, Patch(w) PROVE ControlInv'
  BY <1>27, GotoControl, LabelType, ActorFacts DEF Patch
<1>28. ASSUME NEW w \in Waits, Refused(w) PROVE ControlInv'
  <2> DEFINE e == [Off EXCEPT !.inst = ex[w].inst,
                   !.pc = IF status \in Active /\ owner # ex[w].as THEN "read" ELSE "timer"]
  <2>1. e \in Execution
    BY ExecFields, OffType, LabelType, ActorFacts DEF TypeOK
  <2>2. e.pc \in {"read", "timer"} /\ e.inst = ex[w].inst
    BY DEF Off
  <2>3. Become(w, e) => ControlInv'
    <3> HIDE DEF e
    <3> QED
      BY <1>28, <2>1, <2>2, <1>c, MoveControl, ActorFacts DEF Refused
  <2> QED
    BY <1>28, <2>3 DEF Refused
<1>29. ASSUME NEW w \in Waits, CommittedResume(w) PROVE ControlInv'
  <2> DEFINE e == [Off EXCEPT !.pc = "resume", !.as = owner, !.inst = ex[w].inst]
  <2>1. e \in Execution
    BY ExecFields, OffType, LabelType, ActorFacts DEF TypeOK
  <2>2. e.pc \in {"resume"} /\ e.inst = ex[w].inst
    BY DEF Off
  <2>3. Become(w, e) => ControlInv'
    <3> HIDE DEF e
    <3> QED
      BY <1>29, <2>1, <2>2, <1>c, MoveControl, ActorFacts DEF CommittedResume
  <2> QED
    BY <1>29, <2>3, GotoControl, LabelType, ActorFacts DEF CommittedResume
<1>30. ASSUME NEW w \in Waits, RecoverClaim(w) PROVE ControlInv'
  BY <1>30, GiveUpControl DEF RecoverClaim
<1>31. ASSUME NEW w \in Waits, Finalize(w) PROVE ControlInv'
  BY <1>31, GiveUpControl DEF Finalize
<1>32. CASE WorkerClaim
  <2> DEFINE e == [Off EXCEPT !.pc = "resume", !.as = "worker"]
  <2>1. e \in Execution /\ e.pc = "resume"
    BY OffType, LabelType DEF Off, TypeOK
  <2>2. Worker \in Actors /\ Worker \notin Waits
    BY GraphAssumption, ActorFacts
  <2> HIDE DEF e
  <2> QED
    BY <1>32, <2>1, <2>2, MoveControl DEF WorkerClaim, e
<1>33. CASE Cancel
  BY <1>33 DEF Cancel, ControlInv, LockInv, CallInv
<1>34. CASE LockExpires
  BY <1>34, ActorFacts DEF LockExpires, ControlInv, LockInv, CallInv
<1>35. CASE ClientResume
  <2> DEFINE e == [Off EXCEPT !.pc = "resume", !.as = owner]
  <2>1. e \in Execution /\ e.pc = "resume"
    BY OffType, LabelType DEF Off, TypeOK
  <2>2. Client \in Actors /\ Client \notin Waits
    BY GraphAssumption, ActorFacts
  <2> HIDE DEF e
  <2> QED
    BY <1>35, <2>1, <2>2, MoveControl DEF ClientResume, e
<1>36. ASSUME NEW x \in DOMAIN rec, ClearWait(x) PROVE ControlInv'
  BY <1>36 DEF ClearWait, ControlInv, LockInv, CallInv
<1>37. CASE UNCHANGED vars
  BY <1>37 DEF vars, ControlInv, LockInv, CallInv
<1> QED
  BY <1>1, <1>2, <1>3, <1>4, <1>5, <1>6, <1>7, <1>8, <1>9, <1>10, <1>11, <1>12, <1>13, <1>14,
     <1>15, <1>16, <1>17, <1>18, <1>19, <1>20, <1>21, <1>22, <1>23, <1>24, <1>25, <1>26, <1>27, <1>28,
     <1>29, <1>30, <1>31, <1>32, <1>33, <1>34, <1>35, <1>36, <1>37
     DEF Next, Execute, Deliver

---------------------------------------------------------------------------
(* Copies and the states they were taken from                              *)

LEMMA UntouchedSound == Closed(Untouched) /\ WaitsOK(Untouched)
BY ActorFacts DEF Untouched, Closed, WaitsOK

\* Deliveries leave the states closed, and what they say of the waits.
LEMMA FollowsSound ==
  ASSUME NEW old \in NodeStates, NEW new \in NodeStates, Follows(old, new),
         Closed(old), WaitsOK(old)
  PROVE  Closed(new) /\ WaitsOK(new)
<1>1. ASSUME NEW n \in Nodes
      PROVE  \/ new[n] = old[n]
             \/ /\ old[n].st = "running" /\ old[n].no > 0 /\ new[n].st = "completed"
                /\ new[n].no = old[n].no
  <2>1. old[n] \in NodeState
    BY StateType
  <2> QED
    BY <2>1 DEF Follows, NodeState
<1>2. \A n \in Nodes : old[n].st = "completed" => new[n].st = "completed"
  BY <1>1
<1>3. Closed(new)
  BY <1>1, <1>2, ActorFacts DEF Closed
<1>4. WaitsOK(new)
  BY <1>1, ActorFacts DEF WaitsOK
<1> QED
  BY <1>3, <1>4

LEMMA FollowsTrans ==
  ASSUME NEW s \in NodeStates, NEW t \in NodeStates, NEW u \in NodeStates,
         Follows(s, t), Follows(t, u)
  PROVE  Follows(s, u)
<1> SUFFICES ASSUME NEW n \in Nodes, t[n] # s[n]
             PROVE  u[n] = t[n]
  BY DEF Follows
<1>1. t[n].st = "completed"
  <2>1. s[n] \in NodeState
    BY StateType
  <2> QED
    BY <2>1 DEF Follows, NodeState
<1> QED
  BY <1>1 DEF Follows

\* The patch of an execution whose published copy the run follows brings
\* the run to follow its copy.
LEMMA PatchedFollows ==
  ASSUME NEW pub \in NodeStates, NEW mem \in NodeStates, Follows(pub, node)
  PROVE  Follows(mem, Patched(pub, mem))
BY DEF Follows, Patched

\* The nodes a graph admits are those nothing is known of, or interrupted
\* steps, and what they depend on is done.
LEMMA AdmittedFacts ==
  ASSUME TypeOK, NEW a \in Actors, ex[a].from = None, WaitsOK(ex[a].mem), NEW n \in Admitted(a)
  PROVE  /\ n \in Nodes /\ Unblocked(ex[a].mem, n) /\ ex[a].mem[n].st # "completed"
         /\ n \in Waits => ex[a].mem[n].st = "none" /\ ex[a].mem[n].no = 0
BY ActorFacts DEF Admitted, Ready, Interrupted, WaitsOK

---------------------------------------------------------------------------
(* Steps that leave the node states alone                                  *)

LEMMA StepSound ==
  ASSUME TypeOK, Sound, UNCHANGED node, status' \in Active => status \in Active,
         NEW a \in Actors, NEW e \in Execution, Become(a, e), CopyOK(e),
         e.pc \in Writing /\ status' \in Active => Follows(e.pub, node),
         a \in Waits /\ e.pc = "patch" /\ status' \in Active =>
           node[a].no = e.inst /\ node[a].st \in {"running", "completed"}
  PROVE  Sound'
<1>1. ex'[a] = e /\ \A b \in Actors : b # a => ex'[b] = ex[b]
  BY DEF Become, TypeOK
<1>2. (Closed(node) /\ WaitsOK(node))'
  BY DEF Sound, Closed, WaitsOK
<1>3. ASSUME NEW b \in Actors PROVE CopyOK(ex[b])'
  <2>1. CopyOK(ex'[b])
    BY <1>1 DEF Sound
  <2> QED
    BY <2>1 DEF CopyOK, Closed, WaitsOK, BatchOK
<1>4. ASSUME NEW b \in Actors PROVE Current(ex[b])'
  BY <1>1 DEF Sound, Current, Follows
<1>5. ASSUME NEW w \in Waits PROVE PatchOK(w)'
  BY <1>1, ActorFacts DEF Sound, PatchOK
<1> QED
  BY <1>2, <1>3, <1>4, <1>5 DEF Sound

\* An execution away from the graph keeps a copy nobody will write.
LEMMA AsideSound ==
  ASSUME TypeOK, Sound, UNCHANGED node, status' \in Active => status \in Active,
         NEW a \in Actors, NEW e \in Execution, Become(a, e),
         e.mem \in {ex[a].mem, Untouched}, e.from \in {ex[a].from, None},
         e.pc \notin Writing \cup {"acquire", "patch"}
  PROVE  Sound'
<1>1. e.from = None /\ Closed(e.mem) /\ WaitsOK(e.mem)
  BY UntouchedSound DEF Sound, CopyOK
<1>2. BatchOK(e)
  BY DEF BatchOK, Writing
<1> QED
  BY <1>1, <1>2, StepSound DEF CopyOK

LEMMA GotoFields ==
  ASSUME TypeOK, NEW a \in Actors, NEW l \in Labels
  PROVE  /\ [ex[a] EXCEPT !.pc = l] \in Execution
         /\ [ex[a] EXCEPT !.pc = l].pc = l
         /\ [ex[a] EXCEPT !.pc = l].mem = ex[a].mem
         /\ [ex[a] EXCEPT !.pc = l].pub = ex[a].pub
         /\ [ex[a] EXCEPT !.pc = l].from = ex[a].from
         /\ [ex[a] EXCEPT !.pc = l].inst = ex[a].inst
         /\ [ex[a] EXCEPT !.pc = l].batch = ex[a].batch
BY ExecFields, GotoType DEF Execution

LEMMA GotoSound ==
  ASSUME TypeOK, Sound, UNCHANGED node, status' \in Active => status \in Active,
         NEW a \in Actors, NEW l \in Labels, Goto(a, l),
         l \notin Writing \cup {"acquire", "patch"}
  PROVE  Sound'
<1> DEFINE e == [ex[a] EXCEPT !.pc = l]
<1>1. e \in Execution /\ e.pc = l /\ e.mem = ex[a].mem /\ e.from = ex[a].from
  BY GotoFields
<1>2. Become(a, e)
  BY DEF Goto
<1> HIDE DEF e
<1> QED
  BY <1>1, <1>2, AsideSound

LEMMA LeaveSound ==
  ASSUME TypeOK, Sound, UNCHANGED node, status' \in Active => status \in Active,
         NEW a \in Actors, Return(a) \/ Throw(a)
  PROVE  Sound'
BY GotoSound, LabelType DEF Return, Throw, Writing

LEMMA GiveUpSound ==
  ASSUME TypeOK, Sound, UNCHANGED <<node, status>>, NEW w \in Waits, NEW st, GiveUp(w, st)
  PROVE  Sound'
<1>1. Off \in Execution /\ Off.pc = "off" /\ Off.mem = Untouched /\ Off.from = None
  BY OffType DEF Off
<1>2. Become(w, Off)
  BY DEF GiveUp
<1> HIDE DEF Off
<1> QED
  BY <1>1, <1>2, AsideSound, ActorFacts DEF Writing

\* An execution that goes on with a copy it has published.
LEMMA OnwardSound ==
  ASSUME TypeOK, Sound, UNCHANGED node, status' \in Active => status \in Active,
         NEW a \in Actors, NEW l \in Labels, Goto(a, l),
         l \in {"activate", "dag", "park", "fail"}, ex[a].mem = ex[a].pub,
         status' \in Active => Follows(ex[a].pub, node)
  PROVE  Sound'
<1> DEFINE e == [ex[a] EXCEPT !.pc = l]
<1>1. e \in Execution /\ e.pc = l /\ e.mem = ex[a].mem /\ e.pub = ex[a].pub /\ e.from = ex[a].from
  BY GotoFields
<1>2. Become(a, e)
  BY DEF Goto
<1> HIDE DEF e
<1>3. e.from = None /\ Closed(e.mem) /\ WaitsOK(e.mem)
  BY <1>1 DEF Sound, CopyOK
<1>4. BatchOK(e)
  BY <1>1 DEF BatchOK, Writing
<1> QED
  BY <1>1, <1>2, <1>3, <1>4, StepSound DEF CopyOK

---------------------------------------------------------------------------
(* The publication of a copy                                               *)

Published(a, l) ==
  /\ status \in Active /\ UNCHANGED status
  /\ node' = Patched(ex[a].pub, ex[a].mem)
  /\ Become(a, [ex[a] EXCEPT !.pc = l, !.pub = ex[a].mem])

LEMMA PublishSound ==
  ASSUME TypeOK, LockInv, CallInv, Sound, NEW a \in Actors, NEW l \in Labels, Published(a, l),
         \/ ex[a].pc = "admit" /\ l = "settle"
         \/ ex[a].pc = "publish" /\ l \in {"checkpoint", "dag", "park"}
  PROVE  Sound'
<1> DEFINE e == [ex[a] EXCEPT !.pc = l, !.pub = ex[a].mem]
<1>1. /\ ex[a] \in Execution /\ ex[a].mem \in NodeStates /\ ex[a].pub \in NodeStates
      /\ {} \in SUBSET Nodes /\ {} \in SUBSET Waits
  BY ExecFields
<1>2. e \in Execution
  BY <1>1, UpdateType
<1>3. /\ e.pc = l /\ e.mem = ex[a].mem /\ e.pub = ex[a].mem /\ e.from = ex[a].from
      /\ e.batch = ex[a].batch /\ e.inst = ex[a].inst
  BY <1>1 DEF Execution
<1>4. Become(a, e) /\ node' = Patched(ex[a].pub, ex[a].mem) /\ status \in Active /\ status' = status
  BY DEF Published
<1> HIDE DEF e
<1>5. ex'[a] = e /\ \A b \in Actors : b # a => ex'[b] = ex[b]
  BY <1>4 DEF Become, TypeOK
<1>6. CopyOK(ex[a]) /\ Follows(ex[a].pub, node) /\ node \in NodeStates
  BY <1>4 DEF Sound, Current, Writing, TypeOK
<1>7. Follows(ex[a].mem, node')
  BY <1>1, <1>4, <1>6, PatchedFollows
<1>8. node' \in NodeStates
  BY <1>1, <1>4, PatchedType DEF TypeOK
<1>9. Closed(node') /\ WaitsOK(node')
  BY <1>1, <1>6, <1>7, <1>8, FollowsSound DEF CopyOK
<1>10. (Closed(node) /\ WaitsOK(node))'
  BY <1>9 DEF Closed, WaitsOK
<1>11. CopyOK(e)
  <2>1. l \in {"settle", "checkpoint", "dag", "park"}
    OBVIOUS
  <2>2. BatchOK(ex[a])
    BY <1>6 DEF CopyOK
  <2>3. l = "settle" => \A n \in e.batch : e.mem[n].st = "running" /\ (n \in Waits => e.mem[n].no = 0)
    BY <1>3, <2>2 DEF BatchOK
  <2>4. BatchOK(e)
    BY <1>3, <2>1, <2>3 DEF BatchOK, Writing
  <2> QED
    BY <1>3, <1>6, <2>4 DEF CopyOK
<1>12. ASSUME NEW b \in Actors PROVE CopyOK(ex[b])'
  <2>1. CopyOK(ex'[b])
    BY <1>5, <1>11 DEF Sound
  <2> QED
    BY <2>1 DEF CopyOK, Closed, WaitsOK, BatchOK
<1>13. ASSUME NEW b \in Actors PROVE Current(ex[b])'
  <2>1. CASE b = a
    BY <1>3, <1>5, <1>7, <2>1 DEF Current, Follows
  <2>2. CASE b # a
    BY <1>5, <2>2 DEF Current, LockInv, Holding, Writing
  <2> QED
    BY <2>1, <2>2
<1>14. ASSUME NEW w \in Waits PROVE PatchOK(w)'
  <2> SUFFICES ASSUME ex'[w].pc = "patch"
               PROVE  node'[w].no = ex'[w].inst /\ node'[w].st \in {"running", "completed"}
    BY DEF PatchOK
  <2>1. ex'[w] = ex[w]
    BY <1>3, <1>5, ActorFacts
  <2>2. node[w].no = ex[w].inst /\ node[w].st \in {"running", "completed"} /\ ex[w].inst > 0
    BY <1>4, <2>1 DEF Sound, PatchOK, CallInv
  <2>3. ex[a].mem[w] = ex[a].pub[w]
    <3> SUFFICES ASSUME ex[a].mem[w] # ex[a].pub[w] PROVE FALSE
      OBVIOUS
    <3>1. w \in ex[a].batch
      BY <1>6, ActorFacts DEF CopyOK, BatchOK
    <3>2. ex[a].pub[w].st = "none" \/ (ex[a].pub[w].st = "running" /\ ex[a].pub[w].no = 0)
      BY <1>6, <3>1, ActorFacts DEF CopyOK, BatchOK
    <3>3. node[w] = ex[a].pub[w]
      <4>1. node[w] = ex[a].pub[w] \/ (ex[a].pub[w].st = "running" /\ ex[a].pub[w].no > 0)
        BY <1>6, ActorFacts DEF Follows
      <4> QED
        BY <3>2, <4>1
    <3> QED
      BY <2>2, <3>2, <3>3
  <2> QED
    BY <1>4, <2>1, <2>2, <2>3, ActorFacts DEF Patched
<1> QED
  BY <1>10, <1>12, <1>13, <1>14 DEF Sound

---------------------------------------------------------------------------
(* The end of the run and the delivery of an outcome                       *)

LEMMA EndSound ==
  ASSUME TypeOK, Sound, NEW a \in Actors, NEW expected, NEW as \in Ended, EndRun(a, expected, as)
  PROVE  Sound'
<1>1. CASE UNCHANGED <<status, node>>
  BY <1>1, GotoSound, LabelType DEF EndRun, Writing
<1>2. CASE ~UNCHANGED <<status, node>>
  <2>1. status' \notin Active /\ node' = ex[a].mem
    BY <1>2 DEF EndRun, Active, Ended
  <2> DEFINE e == [ex[a] EXCEPT !.pc = "release"]
  <2>2. e \in Execution /\ e.pc = "release" /\ e.mem = ex[a].mem /\ e.from = ex[a].from
    BY GotoFields, LabelType
  <2>3. Become(a, e)
    BY DEF EndRun, Goto
  <2> HIDE DEF e
  <2>4. ex'[a] = e /\ \A b \in Actors : b # a => ex'[b] = ex[b]
    BY <2>3 DEF Become, TypeOK
  <2>5. CopyOK(e)
    BY <2>2 DEF Sound, CopyOK, BatchOK, Writing
  <2>6. Closed(node') /\ WaitsOK(node')
    BY <2>1 DEF Sound, CopyOK
  <2>7. ASSUME NEW b \in Actors PROVE CopyOK(ex[b])'
    <3>1. CopyOK(ex'[b])
      BY <2>4, <2>5 DEF Sound
    <3> QED
      BY <3>1 DEF CopyOK, Closed, WaitsOK, BatchOK
  <2>8. (\A b \in Actors : Current(ex[b]))' /\ (\A w \in Waits : PatchOK(w))'
    BY <2>1 DEF Current, PatchOK
  <2> QED
    BY <2>6, <2>7, <2>8 DEF Sound, Closed, WaitsOK
<1> QED
  BY <1>1, <1>2

\* What a delivery writes into sound states is the outcome of a wait under
\* way, or what is there already.
LEMMA PatchFollows ==
  ASSUME TypeOK, CallInv, Sound, NEW w \in Waits, ex[w].pc = "patch", status \in Active,
         node' = [node EXCEPT ![w] = [st |-> "completed", no |-> ex[w].inst]]
  PROVE  node' \in NodeStates /\ Follows(node, node')
<1>1. /\ node[w].no = ex[w].inst /\ node[w].st \in {"running", "completed"}
      /\ ex[w].inst > 0 /\ ex[w].inst \in Nat
  BY ExecFields, ActorFacts DEF Sound, PatchOK, CallInv
<1>2. node \in NodeStates /\ node[w] \in NodeState /\ w \in Nodes
  BY StateType, ActorFacts DEF TypeOK
<1>3. node' \in NodeStates
  BY <1>1, <1>2 DEF NodeStates, NodeState
<1>4. \A n \in Nodes : n # w => node'[n] = node[n]
  BY <1>2 DEF NodeStates
<1>5. node'[w] = [st |-> "completed", no |-> ex[w].inst]
  BY <1>2 DEF NodeStates
<1>6. [node[w] EXCEPT !.st = "completed"] = [st |-> "completed", no |-> ex[w].inst]
  BY <1>1, <1>2 DEF NodeState
<1>7. node[w].st = "completed" => node[w] = [st |-> "completed", no |-> ex[w].inst]
  BY <1>1, <1>2 DEF NodeState
<1> QED
  BY <1>1, <1>3, <1>4, <1>5, <1>6, <1>7 DEF Follows

LEMMA PatchSound ==
  ASSUME TypeOK, CallInv, Sound, NEW w \in Waits, Patch(w)
  PROVE  Sound'
<1>1. CASE Goto(w, "read")
  <2>1. UNCHANGED <<status, node>>
    <3>1. ex'[w] # [ex[w] EXCEPT !.pc = "resume"]
      <4>1. ex'[w] = [ex[w] EXCEPT !.pc = "read"] /\ ex[w] \in Execution
        BY <1>1, ExecFields, ActorFacts DEF Goto, Become, TypeOK
      <4> QED
        BY <4>1 DEF Execution
    <3>2. ~Goto(w, "resume")
      BY <3>1, ActorFacts DEF Goto, Become, TypeOK
    <3> QED
      BY <3>2 DEF Patch, SameRun
  <2> QED
    BY <1>1, <2>1, GotoSound, LabelType, ActorFacts DEF Writing
<1>2. CASE ~Goto(w, "read")
  <2>1. /\ ex[w].pc = "patch" /\ status \in Active /\ status' = status /\ Goto(w, "resume")
        /\ node' = [node EXCEPT ![w] = [st |-> "completed", no |-> ex[w].inst]]
    BY <1>2 DEF Patch, At, Matches
  <2>2. node \in NodeStates /\ node' \in NodeStates /\ Follows(node, node')
    BY <2>1, PatchFollows DEF TypeOK
  <2> DEFINE e == [ex[w] EXCEPT !.pc = "resume"]
  <2>3. e \in Execution /\ e.pc = "resume" /\ e.mem = ex[w].mem /\ e.from = ex[w].from
    BY GotoFields, LabelType, ActorFacts
  <2>4. Become(w, e)
    BY <2>1 DEF Goto
  <2> HIDE DEF e
  <2>5. ex'[w] = e /\ \A b \in Actors : b # w => ex'[b] = ex[b]
    BY <2>4, ActorFacts DEF Become, TypeOK
  <2>6. CopyOK(e)
    BY <2>3, ActorFacts DEF Sound, CopyOK, BatchOK, Writing
  <2>7. Closed(node') /\ WaitsOK(node')
    BY <2>2, FollowsSound DEF Sound
  <2>8. ASSUME NEW b \in Actors PROVE CopyOK(ex[b])'
    <3>1. CopyOK(ex'[b])
      BY <2>5, <2>6 DEF Sound
    <3> QED
      BY <3>1 DEF CopyOK, Closed, WaitsOK, BatchOK
  <2>9. ASSUME NEW b \in Actors PROVE Current(ex[b])'
    <3> SUFFICES ASSUME ex'[b].pc \in Writing PROVE Follows(ex'[b].pub, node')
      BY DEF Current, Follows
    <3>1. ex'[b] = ex[b]
      BY <2>3, <2>5 DEF Writing
    <3>2. Follows(ex[b].pub, node) /\ ex[b].pub \in NodeStates
      BY <2>1, <3>1, ExecFields DEF Sound, Current
    <3> QED
      BY <2>2, <3>1, <3>2, FollowsTrans
  <2>10. ASSUME NEW v \in Waits PROVE PatchOK(v)'
    <3>1. CASE v = w
      BY <2>3, <2>5, <3>1 DEF PatchOK
    <3>2. CASE v # w
      <4>1. ex'[v] = ex[v] /\ node'[v] = node[v]
        BY <2>1, <2>2, <2>5, <3>2, ActorFacts DEF NodeStates
      <4> QED
        BY <2>1, <4>1 DEF Sound, PatchOK
    <3> QED
      BY <3>1, <3>2
  <2> QED
    BY <2>7, <2>8, <2>9, <2>10 DEF Sound, Closed, WaitsOK
<1> QED
  BY <1>1, <1>2

---------------------------------------------------------------------------
(* The states stay sound                                                   *)

LEMMA HistoryStep == [Next \/ ClientResume]_vars => (restored => restored') /\ (raced => raced')
<1> SUFFICES ASSUME [Next \/ ClientResume]_vars
             PROVE  (restored => restored') /\ (raced => raced')
  OBVIOUS
<1> USE DEF Quietly
<1>1. ASSUME NEW a \in Actors, Execute(a) PROVE (restored => restored') /\ (raced => raced')
  <2>1. CASE Restore(a)
    <3>1. (restored' = TRUE \/ restored' = restored) /\ raced' = raced
      BY <2>1 DEF Restore
    <3> QED
      BY <3>1
  <2>5. CASE Acquire(a)
    <3>1. restored' = restored /\ (raced' = raced \/ raced' = TRUE)
      BY <2>5 DEF Acquire
    <3> QED
      BY <3>1
  <2>6. CASE Settle(a)
    BY <2>6 DEF Settle
  <2>2. CASE Complete(a) \/ Fail(a) \/ FailStalled(a)
    BY <2>2 DEF Complete, Fail, FailStalled, EndRun
  <2>3. CASE \/ Resume(a) \/ RetireClaims(a) \/ RetirePending(a) \/ Load(a) \/ Activate(a)
             \/ Admit(a) \/ PublishSettled(a) \/ Checkpoint(a) \/ Release(a) \/ Unlock(a)
    BY <2>3 DEF Resume, RetireClaims, RetirePending, Load, Activate, Admit, PublishSettled,
                Checkpoint, Release, Unlock
  <2>4. CASE \/ Park(a) \/ ReadParked(a) \/ Announce(a) \/ Recheck(a)
             \/ ReadVerdict(a) \/ MissingWait(a)
    BY <2>4 DEF Park, ReadParked, Announce, Recheck, ReadVerdict, MissingWait
  <2>7. CASE Dag(a)
    BY <2>7 DEF Dag
  <2> QED
    BY <1>1, <2>1, <2>2, <2>3, <2>4, <2>5, <2>6, <2>7 DEF Execute
<1>2. ASSUME NEW a \in Actors, Crash(a) PROVE UNCHANGED <<restored, raced>>
  BY <1>2 DEF Crash
<1>3. ASSUME NEW w \in Waits, Claim(w) \/ Deliver(w) PROVE UNCHANGED <<restored, raced>>
  BY <1>3 DEF Claim, Deliver, ReadForDelivery, Patch, Refused, CommittedResume, RecoverClaim,
              Finalize
<1>4. CASE WorkerClaim \/ Cancel \/ LockExpires \/ ClientResume
  BY <1>4 DEF WorkerClaim, Cancel, LockExpires, ClientResume
<1>5. ASSUME NEW x \in DOMAIN rec, ClearWait(x) PROVE UNCHANGED <<restored, raced>>
  BY <1>5 DEF ClearWait
<1>6. CASE UNCHANGED vars
  BY <1>6 DEF vars
<1> QED
  BY <1>1, <1>2, <1>3, <1>4, <1>5, <1>6 DEF Next

LEMMA SoundStep == GraphInv /\ ~restored' /\ ~raced' /\ [Next \/ ClientResume]_vars => Sound'
<1> SUFFICES ASSUME GraphInv /\ ~restored' /\ ~raced', [Next \/ ClientResume]_vars PROVE Sound'
  OBVIOUS
<1>a. TypeOK /\ Sound /\ ~restored /\ ~raced /\ ~restored' /\ ~raced'
  BY HistoryStep DEF GraphInv, SoundInv
<1>b. ex' \in [Actors -> Execution]
  BY TypeStep DEF TypeOK
<1>c. Ended = {"completed", "failed", "cancelled"}
  BY DEF Ended
<1> USE <1>a, <1>c DEF SameRun, SameStore, Quietly, At, Writing
<1>1. ASSUME NEW a \in Actors, Resume(a) PROVE Sound'
  BY <1>1, GotoSound, LeaveSound, LabelType DEF Resume
<1>2. ASSUME NEW a \in Actors, Restore(a) PROVE Sound'
  BY <1>2, LeaveSound DEF Restore
<1>3. ASSUME NEW a \in Actors, RetireClaims(a) PROVE Sound'
  BY <1>3, GotoSound, LabelType DEF RetireClaims
<1>4. ASSUME NEW a \in Actors, RetirePending(a) PROVE Sound'
  BY <1>4, GotoSound, LabelType DEF RetirePending
<1>5. ASSUME NEW a \in Actors, Load(a) PROVE Sound'
  <2> DEFINE e == [ex[a] EXCEPT !.pc = "acquire", !.mem = node, !.pub = node]
  <2>1. e \in Execution
    BY ExecFields, UpdateType, LabelType DEF TypeOK
  <2>2. e.pc = "acquire" /\ e.mem = node /\ e.pub = node /\ e.from = ex[a].from
    BY ExecFields DEF Execution
  <2>3. Become(a, e) \/ Throw(a)
    BY <1>5 DEF Load
  <2>4. UNCHANGED <<node, status>>
    BY <1>5 DEF Load
  <2> HIDE DEF e
  <2>5. CopyOK(e)
    BY <2>2 DEF Sound, CopyOK, BatchOK, Writing
  <2> QED
    BY <2>1, <2>2, <2>3, <2>4, <2>5, StepSound, LeaveSound DEF Writing
<1>6. ASSUME NEW a \in Actors, Acquire(a) PROVE Sound'
  <2>1. UNCHANGED <<node, status>>
    BY <1>6 DEF Acquire
  <2>2. CASE Throw(a)
    BY <2>1, <2>2, LeaveSound
  <2>3. CASE ~Throw(a)
    <3>1. Goto(a, "activate") /\ Follows(ex[a].mem, node) /\ ex[a].pc = "acquire"
      BY <1>6, <2>3, <1>a DEF Acquire
    <3>2. ex[a].mem = ex[a].pub
      BY <3>1 DEF Sound, CopyOK, BatchOK, Writing
    <3> QED
      BY <2>1, <3>1, <3>2, OnwardSound, LabelType
  <2> QED
    BY <2>2, <2>3
<1>7. ASSUME NEW a \in Actors, Activate(a) PROVE Sound'
  <2>1. UNCHANGED node /\ (status' \in Active => status \in Active) /\ ex[a].pc = "activate"
    BY <1>7 DEF Activate, Matches
  <2>2. ex[a].mem = ex[a].pub /\ (status \in Active => Follows(ex[a].pub, node))
    BY <2>1 DEF Sound, CopyOK, BatchOK, Writing, Current
  <2>3. Goto(a, "dag") \/ Goto(a, "release")
    BY <1>7 DEF Activate
  <2> QED
    BY <2>1, <2>2, <2>3, OnwardSound, GotoSound, LabelType DEF Writing
<1>8. ASSUME NEW a \in Actors, Dag(a) PROVE Sound'
  <2> DEFINE mem == ex[a].mem
           batch == Admitted(a)
           new == [n \in Nodes |-> IF n \notin batch THEN mem[n]
                                   ELSE IF n \in Steps THEN Begun(mem[n])
                                   ELSE [mem[n] EXCEPT !.st = "running"]]
           e1 == [ex[a] EXCEPT !.pc = "admit", !.batch = batch, !.from = None,
                                !.fresh = FALSE, !.mem = new]
           e2 == [ex[a] EXCEPT !.pc = "park", !.stalled = TRUE, !.waits = {w \in Waits : mem[w].st = "running"}]
  <2>1. UNCHANGED <<node, status>> /\ ex[a].pc = "dag"
    BY <1>8 DEF Dag
  <2>2. /\ mem = ex[a].pub /\ ex[a].from = None /\ Closed(mem) /\ WaitsOK(mem)
        /\ status \in Active => Follows(ex[a].pub, node)
    BY <2>1 DEF Sound, CopyOK, BatchOK, Writing, Current
  <2>3. \/ Goto(a, "fail") \/ Become(a, e1) \/ Become(a, e2)
        \/ Goto(a, "complete") /\ {n \in Nodes : mem[n].st # "completed"} = {}
    BY <1>8 DEF Dag, Goto
  <2>4. CASE Goto(a, "fail")
    BY <2>1, <2>2, <2>4, OnwardSound, LabelType
  <2>5. CASE Goto(a, "complete") /\ {n \in Nodes : mem[n].st # "completed"} = {}
    <3> DEFINE e == [ex[a] EXCEPT !.pc = "complete"]
    <3>1. e \in Execution /\ e.pc = "complete" /\ e.mem = mem /\ e.pub = ex[a].pub /\ e.from = ex[a].from
      BY GotoFields, LabelType
    <3>2. Become(a, e) /\ \A n \in Nodes : mem[n].st = "completed"
      BY <2>5 DEF Goto
    <3> HIDE DEF e, mem
    <3>3. CopyOK(e)
      BY <2>2, <3>1, <3>2 DEF CopyOK, BatchOK, Writing
    <3> QED
      BY <2>1, <2>2, <3>1, <3>2, <3>3, StepSound
  <2>6. CASE Become(a, e2)
    <3>1. {w \in Waits : mem[w].st = "running"} \in SUBSET Waits /\ {} \in SUBSET Nodes
      OBVIOUS
    <3>2. e2 \in Execution
      BY <3>1, ExecFields, UpdateType, LabelType
    <3>3. e2.pc = "park" /\ e2.mem = mem /\ e2.pub = ex[a].pub /\ e2.from = ex[a].from
      BY ExecFields DEF Execution
    <3> HIDE DEF e2, mem
    <3>4. CopyOK(e2)
      BY <2>2, <3>3 DEF CopyOK, BatchOK, Writing
    <3> QED
      BY <2>1, <2>2, <2>6, <3>2, <3>3, <3>4, StepSound
  <2>7. CASE Become(a, e1)
    <3>1. \A n \in batch : /\ n \in Nodes /\ Unblocked(mem, n) /\ mem[n].st # "completed"
                           /\ n \in Waits => mem[n].st = "none" /\ mem[n].no = 0
      BY <2>2, AdmittedFacts
    <3>2. ASSUME NEW n \in Nodes
          PROVE  /\ n \notin batch => new[n] = mem[n]
                 /\ n \in batch => new[n].st = "running"
                 /\ n \in batch /\ n \in Waits => new[n].no = 0
      <4>1. mem[n] \in NodeState
        BY ExecFields, StateType
      <4> HIDE DEF mem, batch
      <4> QED
        BY <3>1, <4>1, ActorFacts DEF Begun, NodeState
    <3>3. new \in NodeStates
      <4>1. \A n \in Nodes : mem[n] \in NodeState /\ Begun(mem[n]) \in NodeState
                             /\ [mem[n] EXCEPT !.st = "running"] \in NodeState
        BY ExecFields, StateType
      <4> HIDE DEF mem, batch
      <4> QED
        BY <4>1 DEF NodeStates
    <3>4. batch \in SUBSET Nodes /\ {} \in SUBSET Waits
      BY <3>1
    <3> HIDE DEF mem, batch, new
    <3>5. e1 \in Execution
      BY <3>3, <3>4, ExecFields, UpdateType, LabelType
    <3>6. e1.pc = "admit" /\ e1.mem = new /\ e1.pub = ex[a].pub /\ e1.from = None /\ e1.batch = batch
      BY ExecFields DEF Execution
    <3>7. Closed(new)
      BY <2>2, <3>1, <3>2, ActorFacts DEF Closed, Unblocked
    <3>8. WaitsOK(new)
      BY <2>2, <3>2, ActorFacts DEF WaitsOK
    <3> HIDE DEF e1
    <3>9. BatchOK(e1)
      BY <2>2, <3>1, <3>2, <3>6, ActorFacts DEF BatchOK, Writing
    <3> QED
      BY <2>1, <2>2, <2>7, <3>5, <3>6, <3>7, <3>8, <3>9, StepSound DEF CopyOK
  <2> QED
    BY <2>3, <2>4, <2>5, <2>6, <2>7
<1>9. ASSUME NEW a \in Actors, Admit(a) PROVE Sound'
  <2> DEFINE l == "settle"
  <2>1. l \in {"settle"} /\ l \in Labels
    BY DEF AfterBatch, Labels
  <2>2. CASE ~Matches(a, {"running"})
    BY <1>9, <2>2, GotoSound, LabelType DEF Admit, Publish
  <2>3. CASE Matches(a, {"running"})
    <3>1. Published(a, l)
      BY <1>9, <2>3 DEF Admit, Publish, Published, Matches, Active
    <3>2. ex[a].pc = "admit"
      BY <1>9 DEF Admit
    <3> HIDE DEF l
    <3> QED
      BY <2>1, <3>1, <3>2, PublishSound DEF GraphInv
  <2> QED
    BY <2>2, <2>3
<1>10. ASSUME NEW a \in Actors, Settle(a) PROVE Sound'
  <2> DEFINE mem == ex[a].mem
           ours == ex[a].batch
           new == [n \in Nodes |-> IF n \notin ours THEN mem[n]
                                   ELSE IF n \in Steps THEN [mem[n] EXCEPT !.st = "completed"]
                                   ELSE [st |-> "running", no |-> born'[n]]]
           e == [ex[a] EXCEPT !.pc = "publish", !.mem = new]
  <2>1. UNCHANGED <<node, status>> /\ ex[a].pc = "settle" /\ Become(a, e)
    BY <1>10 DEF Settle
  <2>2. /\ mem = ex[a].pub /\ ex[a].from = None /\ Closed(mem) /\ WaitsOK(mem)
        /\ \A n \in ours : mem[n].st = "running" /\ (n \in Waits => mem[n].no = 0)
        /\ status \in Active => Follows(ex[a].pub, node)
    BY <2>1 DEF Sound, CopyOK, BatchOK, Writing, Current
  <2>3. ASSUME NEW n \in Nodes
        PROVE  /\ n \notin ours => new[n] = mem[n]
               /\ n \in ours /\ n \in Steps => new[n].st = "completed"
               /\ n \in ours /\ n \in Waits => new[n].st = "running"
    <3>1. mem[n] \in NodeState
      BY ExecFields, StateType
    <3> HIDE DEF mem, ours
    <3> QED
      BY <3>1, ActorFacts DEF NodeState
  <2>4. e \in Execution
    <3>1. ex'[a] = e
      BY <2>1 DEF Become, TypeOK
    <3> QED
      BY <3>1, <1>b
  <2> HIDE DEF new
  <2>5. /\ e.pc = "publish" /\ e.mem = new /\ e.pub = ex[a].pub /\ e.from = ex[a].from
        /\ e.batch = ex[a].batch
    BY ExecFields DEF Execution
  <2> HIDE DEF mem, ours
  <2>6. ours \subseteq Nodes
    BY ExecFields DEF ours
  <2>7. Closed(new)
    BY <2>2, <2>3, <2>6, ActorFacts DEF Closed
  <2>8. WaitsOK(new)
    BY <2>2, <2>3, ActorFacts DEF WaitsOK
  <2> HIDE DEF e
  <2>9. BatchOK(e)
    BY <2>2, <2>3, <2>5, ActorFacts DEF BatchOK, Writing, ours
  <2> QED
    BY <2>1, <2>2, <2>4, <2>5, <2>7, <2>8, <2>9, StepSound DEF CopyOK
<1>11. ASSUME NEW a \in Actors, PublishSettled(a) PROVE Sound'
  <2> DEFINE l == IF ex[a].batch \cap Checkpointed # {} THEN "checkpoint" ELSE AfterBatch(a)
  <2>1. l \in {"checkpoint", "dag", "park"} /\ l \in Labels
    BY DEF AfterBatch, Labels
  <2>2. CASE ~Matches(a, {"running"})
    BY <1>11, <2>2, GotoSound, LabelType DEF PublishSettled, Publish
  <2>3. CASE Matches(a, {"running"})
    <3>1. Published(a, l)
      BY <1>11, <2>3 DEF PublishSettled, Publish, Published, Matches, Active
    <3>2. ex[a].pc = "publish"
      BY <1>11 DEF PublishSettled
    <3> HIDE DEF l
    <3> QED
      BY <2>1, <3>1, <3>2, PublishSound DEF GraphInv
  <2> QED
    BY <2>2, <2>3
<1>12. ASSUME NEW a \in Actors, Checkpoint(a) PROVE Sound'
  <2>1. UNCHANGED <<node, status>> /\ ex[a].pc = "checkpoint"
    BY <1>12 DEF Checkpoint
  <2>2. ex[a].mem = ex[a].pub /\ (status \in Active => Follows(ex[a].pub, node))
    BY <2>1 DEF Sound, CopyOK, BatchOK, Writing, Current
  <2>3. Goto(a, "dag") \/ Goto(a, "park") \/ Goto(a, "release")
    BY <1>12 DEF Checkpoint, AfterBatch
  <2> QED
    BY <2>1, <2>2, <2>3, OnwardSound, GotoSound, LabelType DEF Writing
<1>13. ASSUME NEW a \in Actors, Complete(a) PROVE Sound'
  BY <1>13, EndSound DEF Complete
<1>14. ASSUME NEW a \in Actors, Fail(a) PROVE Sound'
  BY <1>14, EndSound DEF Fail
<1>15. ASSUME NEW a \in Actors, Release(a) PROVE Sound'
  BY <1>15, LeaveSound DEF Release
<1>16. ASSUME NEW a \in Actors, Park(a) PROVE Sound'
  <2> DEFINE e == [ex[a] EXCEPT !.pc = "parked",
                           !.waits = IF ex[a].stalled THEN @ ELSE ex[a].batch \cap Waits]
  <2>1. e \in Execution
    BY ExecFields, UpdateType, LabelType
  <2>2. e.pc = "parked" /\ e.mem = ex[a].mem /\ e.from = ex[a].from
    BY ExecFields DEF Execution
  <2>3. UNCHANGED node /\ (status' \in Active => status \in Active)
    BY <1>16 DEF Park, Matches, Active
  <2>4. Become(a, e) \/ Goto(a, "release")
    BY <1>16 DEF Park
  <2> HIDE DEF e
  <2> QED
    BY <2>1, <2>2, <2>3, <2>4, AsideSound, GotoSound, LeaveSound, LabelType DEF Writing
<1>17. ASSUME NEW a \in Actors, ReadParked(a) PROVE Sound'
  <2> DEFINE e == [ex[a] EXCEPT !.pc = "announce", !.pub = node, !.batch = ex[a].waits]
  <2>1. e \in Execution
    BY ExecFields, UpdateType, LabelType, ActorFacts DEF TypeOK
  <2>2. e.pc = "announce" /\ e.mem = ex[a].mem /\ e.from = ex[a].from
    BY ExecFields DEF Execution
  <2>3. UNCHANGED node /\ (status' \in Active => status \in Active)
    BY <1>17 DEF ReadParked, Matches, Active
  <2>4. Become(a, e) \/ Goto(a, "release")
    BY <1>17 DEF ReadParked
  <2> HIDE DEF e
  <2> QED
    BY <2>1, <2>2, <2>3, <2>4, AsideSound, GotoSound, LeaveSound, LabelType DEF Writing
<1>18. ASSUME NEW a \in Actors, Announce(a) PROVE Sound'
  <2>1. CASE Goto(a, "release")
    BY <1>18, <2>1, GotoSound, LeaveSound, LabelType DEF Announce
  <2>2. CASE \E w : Become(a, [ex[a] EXCEPT !.batch = @ \ {w}])
    <3>1. PICK w : Become(a, [ex[a] EXCEPT !.batch = @ \ {w}])
      BY <2>2
    <3> DEFINE e == [ex[a] EXCEPT !.batch = @ \ {w}]
    <3>2. e \in Execution /\ e.pc = ex[a].pc /\ e.mem = ex[a].mem /\ e.from = ex[a].from
      BY ExecFields DEF Execution
    <3> HIDE DEF e
    <3> QED
      BY <1>18, <3>1, <3>2, AsideSound DEF Announce, e
  <2> QED
    BY <1>18, <2>1, <2>2 DEF Announce
<1>19. ASSUME NEW a \in Actors, Unlock(a) PROVE Sound'
  BY <1>19, GotoSound, LabelType DEF Unlock
<1>20. ASSUME NEW a \in Actors, Recheck(a) PROVE Sound'
  BY <1>20, GotoSound, LeaveSound, LabelType DEF Recheck
<1>21. ASSUME NEW a \in Actors, ReadVerdict(a) PROVE Sound'
  <2> DEFINE e == [ex[a] EXCEPT !.pc = "stuck", !.pub = node, !.batch = ex[a].waits]
  <2>1. e \in Execution
    BY ExecFields, UpdateType, LabelType, ActorFacts DEF TypeOK
  <2>2. e.pc = "stuck" /\ e.mem = ex[a].mem /\ e.from = ex[a].from
    BY ExecFields DEF Execution
  <2>3. UNCHANGED node /\ (status' \in Active => status \in Active)
    BY <1>21 DEF ReadVerdict, Matches, Active
  <2>4. Become(a, e) \/ Return(a)
    BY <1>21 DEF ReadVerdict
  <2> HIDE DEF e
  <2> QED
    BY <2>1, <2>2, <2>3, <2>4, AsideSound, GotoSound, LeaveSound, LabelType DEF Writing
<1>22. ASSUME NEW a \in Actors, MissingWait(a) PROVE Sound'
  <2>1. CASE Return(a) \/ Goto(a, "failStalled")
    BY <1>22, <2>1, GotoSound, LeaveSound, LabelType DEF MissingWait
  <2>2. CASE \E w : Become(a, [ex[a] EXCEPT !.batch = @ \ {w}])
    <3>1. PICK w : Become(a, [ex[a] EXCEPT !.batch = @ \ {w}])
      BY <2>2
    <3> DEFINE e == [ex[a] EXCEPT !.batch = @ \ {w}]
    <3>2. e \in Execution /\ e.pc = ex[a].pc /\ e.mem = ex[a].mem /\ e.from = ex[a].from
      BY ExecFields DEF Execution
    <3> HIDE DEF e
    <3> QED
      BY <1>22, <3>1, <3>2, AsideSound DEF MissingWait, e
  <2> QED
    BY <1>22, <2>1, <2>2 DEF MissingWait
<1>23. ASSUME NEW a \in Actors, FailStalled(a) PROVE Sound'
  BY <1>23, EndSound DEF FailStalled
<1>24. ASSUME NEW a \in Actors, Crash(a) PROVE Sound'
  <2> DEFINE e == IF a \in Waits THEN [Off EXCEPT !.pc = "timer", !.inst = ex[a].inst] ELSE Off
  <2>1. e \in Execution
    BY ExecFields, OffType, LabelType
  <2>2. e.pc \in {"timer", "off"} /\ e.mem = Untouched /\ e.from = None
    BY DEF Off
  <2>3. UNCHANGED <<node, status>> /\ (Become(a, e))
    BY <1>24 DEF Crash
  <2> HIDE DEF e
  <2> QED
    BY <2>1, <2>2, <2>3, AsideSound, GotoSound, LabelType, ActorFacts DEF Writing
<1>25. ASSUME NEW w \in Waits, Claim(w) PROVE Sound'
  <2>1. PICK i \in 1..MaxInstances : Become(w, [Off EXCEPT !.pc = "read", !.inst = i])
    BY <1>25 DEF Claim
  <2> DEFINE e == [Off EXCEPT !.pc = "read", !.inst = i]
  <2>2. i \in Nat
    BY ActorFacts
  <2>3. e \in Execution
    BY <2>2, OffType, LabelType
  <2>4. e.pc = "read" /\ e.mem = Untouched /\ e.from = None
    BY DEF Off
  <2> HIDE DEF e
  <2> QED
    BY <1>25, <2>1, <2>3, <2>4, AsideSound, ActorFacts DEF Claim, e
<1>26. ASSUME NEW w \in Waits, ReadForDelivery(w) PROVE Sound'
  <2>1. UNCHANGED <<node, status>> /\ ex[w].pc = "read"
    BY <1>26 DEF ReadForDelivery
  <2>2. CASE GiveUp(w, "pending") \/ GiveUp(w, "settled")
    BY <2>1, <2>2, GiveUpSound
  <2>3. CASE ~(GiveUp(w, "pending") \/ GiveUp(w, "settled"))
    <3> DEFINE e == [ex[w] EXCEPT !.pc = "patch", !.as = owner]
    <3>1. e \in Execution
      BY ExecFields, GotoType, LabelType, ActorFacts DEF TypeOK
    <3>2. e.pc = "patch" /\ e.inst = ex[w].inst /\ e.mem = ex[w].mem /\ e.from = ex[w].from
      BY ExecFields, ActorFacts DEF Execution
    <3>3. Become(w, e) /\ node[w].st # "completed" /\ node[w].no = ex[w].inst
      BY <1>26, <2>3 DEF ReadForDelivery
    <3> HIDE DEF e
    <3>4. ex[w].inst > 0 /\ ex[w].inst \in Nat
      BY <2>1, ExecFields, ActorFacts DEF GraphInv, CallInv
    <3>5. node[w].st = "running"
      <4>1. node[w].st \in {"none", "running", "completed", "failed"}
        BY StateType, ActorFacts DEF TypeOK
      <4> QED
        BY <3>3, <3>4, <4>1 DEF Sound, WaitsOK
    <3>6. e.from = None /\ Closed(e.mem) /\ WaitsOK(e.mem)
      BY <3>2, ActorFacts DEF Sound, CopyOK
    <3>7. BatchOK(e)
      BY <3>2 DEF BatchOK, Writing
    <3> QED
      BY <2>1, <3>1, <3>2, <3>3, <3>5, <3>6, <3>7, StepSound, ActorFacts DEF CopyOK, Writing
  <2> QED
    BY <2>2, <2>3
<1>27. ASSUME NEW w \in Waits, Patch(w) PROVE Sound'
  BY <1>27, PatchSound DEF GraphInv
<1>28. ASSUME NEW w \in Waits, Refused(w) PROVE Sound'
  <2> DEFINE e == [Off EXCEPT !.inst = ex[w].inst,
                   !.pc = IF status \in Active /\ owner # ex[w].as THEN "read" ELSE "timer"]
  <2>1. e \in Execution
    BY ExecFields, OffType, LabelType, ActorFacts DEF TypeOK
  <2>2. e.pc \in {"read", "timer"} /\ e.mem = Untouched /\ e.from = None
    BY DEF Off
  <2>3. UNCHANGED <<node, status>> /\ (Become(w, e))
    BY <1>28 DEF Refused
  <2> HIDE DEF e
  <2> QED
    BY <2>1, <2>2, <2>3, AsideSound, GotoSound, LabelType, ActorFacts DEF Writing
<1>29. ASSUME NEW w \in Waits, CommittedResume(w) PROVE Sound'
  <2> DEFINE e == [Off EXCEPT !.pc = "resume", !.as = owner, !.inst = ex[w].inst]
  <2>1. e \in Execution
    BY ExecFields, OffType, LabelType, ActorFacts DEF TypeOK
  <2>2. e.pc \in {"resume"} /\ e.mem = Untouched /\ e.from = None
    BY DEF Off
  <2>3. UNCHANGED <<node, status>> /\ (Become(w, e) \/ Goto(w, "finalize"))
    BY <1>29 DEF CommittedResume
  <2> HIDE DEF e
  <2> QED
    BY <2>1, <2>2, <2>3, AsideSound, GotoSound, LabelType, ActorFacts DEF Writing
<1>30. ASSUME NEW w \in Waits, RecoverClaim(w) PROVE Sound'
  BY <1>30, GiveUpSound DEF RecoverClaim
<1>31. ASSUME NEW w \in Waits, Finalize(w) PROVE Sound'
  BY <1>31, GiveUpSound DEF Finalize
<1>32. CASE WorkerClaim
  <2> DEFINE e == [Off EXCEPT !.pc = "resume", !.as = "worker"]
  <2>1. e \in Execution
    BY OffType, LabelType DEF TypeOK
  <2>2. e.pc \in {"resume"} /\ e.mem = Untouched /\ e.from = None
    BY DEF Off
  <2>3. UNCHANGED <<node, status>> /\ (Become(Worker, e))
    BY <1>32 DEF WorkerClaim
  <2> HIDE DEF e
  <2> QED
    BY <2>1, <2>2, <2>3, AsideSound, GotoSound, LabelType, ActorFacts DEF Writing
<1>33. CASE Cancel
  <2>1. UNCHANGED <<node, ex>> /\ status' \notin Active
    BY <1>33 DEF Cancel, Active
  <2> QED
    BY <2>1 DEF Sound, Closed, WaitsOK, CopyOK, BatchOK, Current, PatchOK
<1>34. CASE LockExpires
  <2>1. UNCHANGED <<node, ex, status>>
    BY <1>34 DEF LockExpires
  <2> QED
    BY <2>1 DEF Sound, Closed, WaitsOK, CopyOK, BatchOK, Current, Follows, PatchOK
<1>35. CASE ClientResume
  <2> DEFINE e == [Off EXCEPT !.pc = "resume", !.as = owner]
  <2>1. e \in Execution
    BY OffType, LabelType DEF TypeOK
  <2>2. e.pc \in {"resume"} /\ e.mem = Untouched /\ e.from = None
    BY DEF Off
  <2>3. UNCHANGED <<node, status>> /\ (Become(Client, e))
    BY <1>35 DEF ClientResume
  <2> HIDE DEF e
  <2> QED
    BY <2>1, <2>2, <2>3, AsideSound, GotoSound, LabelType, ActorFacts DEF Writing
<1>36. ASSUME NEW x \in DOMAIN rec, ClearWait(x) PROVE Sound'
  <2>1. UNCHANGED <<node, ex, status>>
    BY <1>36 DEF ClearWait
  <2> QED
    BY <2>1 DEF Sound, Closed, WaitsOK, CopyOK, BatchOK, Current, Follows, PatchOK
<1>37. CASE UNCHANGED vars
  <2>1. UNCHANGED <<node, ex, status>>
    BY <1>37 DEF vars
  <2> QED
    BY <2>1 DEF Sound, Closed, WaitsOK, CopyOK, BatchOK, Current, Follows, PatchOK
<1> QED
  BY <1>1, <1>2, <1>3, <1>4, <1>5, <1>6, <1>7, <1>8, <1>9, <1>10, <1>11, <1>12, <1>13, <1>14,
     <1>15, <1>16, <1>17, <1>18, <1>19, <1>20, <1>21, <1>22, <1>23, <1>24, <1>25, <1>26, <1>27, <1>28,
     <1>29, <1>30, <1>31, <1>32, <1>33, <1>34, <1>35, <1>36, <1>37
     DEF Next, Execute, Deliver

---------------------------------------------------------------------------
(* The theorems                                                            *)

LEMMA InitInv == Init => GraphInv
<1> SUFFICES ASSUME Init PROVE GraphInv
  OBVIOUS
<1>1. Off \in Execution /\ [Off EXCEPT !.pc = "load"] \in Execution
  BY OffType, LabelType
<1>2. ASSUME NEW a \in Actors
      PROVE  ex[a].pc \in {"off", "load"} /\ ex[a].mem = Untouched /\ ex[a].from = None
  BY DEF Init, Off
<1>3. TypeOK
  <2>1. ex \in [Actors -> Execution]
    BY <1>1 DEF Init
  <2>2. rec \in [Waits \X (1..MaxInstances) -> {"none", "pending", "claimed", "settled"}]
    BY DEF Init
  <2>3. born \in [Waits -> 0..MaxInstances] /\ crashes \in 0..MaxCrashes
    BY ActorFacts DEF Init
  <2>4. node \in NodeStates
    BY UntouchedType DEF Init
  <2> QED
    BY <2>1, <2>2, <2>3, <2>4 DEF Init, TypeOK, Active
<1>4. LockInv
  BY <1>2 DEF LockInv, Holding, Writing
<1>5. CallInv
  <2>1. \A w \in Waits : w # Starter
    BY GraphAssumption
  <2>2. \A w \in Waits : ex[w].pc = "off"
    BY <2>1, ActorFacts DEF Init, Off
  <2> QED
    BY <1>2, <2>2 DEF CallInv
<1>6. Closed(node) /\ WaitsOK(node)
  BY UntouchedSound DEF Init
<1>7. \A a \in Actors : CopyOK(ex[a])
  BY <1>2, UntouchedSound DEF CopyOK, BatchOK, Writing
<1>8. \A a \in Actors : Current(ex[a])
  BY <1>2 DEF Current, Writing
<1>9. \A w \in Waits : PatchOK(w)
  BY <1>2, ActorFacts DEF PatchOK
<1> QED
  BY <1>3, <1>4, <1>5, <1>6, <1>7, <1>8, <1>9 DEF GraphInv, SoundInv, Sound

LEMMA InvStep == GraphInv /\ [Next \/ ClientResume]_vars => GraphInv'
BY TypeStep, ControlStep, SoundStep DEF GraphInv, ControlInv, SoundInv

\* A run without clients is one with clients that never resume it.
LEMMA NudgedInv == NudgedSpec => []GraphInv
BY InitInv, InvStep, PTL DEF NudgedSpec

LEMMA SpecNudged == Spec => NudgedSpec
<1>1. [Next]_vars => [Next \/ ClientResume]_vars
  OBVIOUS
<1> QED
  BY <1>1, PTL DEF Spec, NudgedSpec

\* The executions, the run, its records and its lock keep their types: the
\* attempts of a node are never negative, a wait has a record per execution,
\* and nobody but an actor or a dead execution holds the lock.
THEOREM NodeTypeCorrect == NudgedSpec => []TypeOK
<1>1. GraphInv => TypeOK
  BY DEF GraphInv
<1> QED
  BY <1>1, NudgedInv, PTL

\* The lock of the run lets one execution at a time work on the graph,
\* however many deliveries, workers and clients resume the run and whatever
\* dies in between (executeAsync, acquireLock, releaseWaitingLock).
THEOREM OneGraphAtATime == NudgedSpec => []OneGraph
<1>1. GraphInv => OneGraph
  BY DEF GraphInv, LockInv, OneGraph, Working, Holding, Writing
<1> QED
  BY <1>1, NudgedInv, PTL

\* For every graph, a node of the persisted run is under way or done only
\* behind nodes whose outcome is there (onNodeStatesChanged,
\* patchNodeOutcome, completeRun, failRun), until a checkpoint is put back or
\* an execution gets the lock with an outdated copy.
THEOREM StatesCausallyClosed == NudgedSpec => []CausallyClosed
<1>1. GraphInv => CausallyClosed
  BY DEF GraphInv, SoundInv, Sound, CausallyClosed
<1> QED
  BY <1>1, NudgedInv, PTL

---------------------------------------------------------------------------
(* Outcomes are kept                                                       *)

LEMMA NodeWriters ==
  ASSUME [Next \/ ClientResume]_vars
  PROVE  \/ UNCHANGED node
         \/ \E a \in Actors : \/ Restore(a) \/ Admit(a) \/ PublishSettled(a)
                              \/ Complete(a) \/ Fail(a) \/ FailStalled(a)
         \/ \E w \in Waits : Patch(w)
<1> USE DEF SameRun
<1>1. ASSUME NEW a \in Actors, Execute(a)
      PROVE  \/ UNCHANGED node
             \/ Restore(a) \/ Admit(a) \/ PublishSettled(a) \/ Complete(a) \/ Fail(a)
             \/ FailStalled(a)
  <2>1. CASE \/ Resume(a) \/ RetireClaims(a) \/ RetirePending(a) \/ Load(a) \/ Acquire(a)
             \/ Activate(a) \/ Settle(a) \/ Checkpoint(a) \/ Release(a) \/ Unlock(a)
    BY <2>1 DEF Resume, RetireClaims, RetirePending, Load, Acquire, Activate, Settle,
                Checkpoint, Release, Unlock
  <2>2. CASE \/ Dag(a) \/ Park(a) \/ ReadParked(a) \/ Announce(a) \/ Recheck(a)
             \/ ReadVerdict(a) \/ MissingWait(a)
    BY <2>2 DEF Dag, Park, ReadParked, Announce, Recheck, ReadVerdict, MissingWait
  <2> QED
    BY <1>1, <2>1, <2>2 DEF Execute
<1>2. ASSUME NEW a \in Actors, Crash(a) PROVE UNCHANGED node
  BY <1>2 DEF Crash
<1>3. ASSUME NEW w \in Waits, Claim(w) \/ Deliver(w) PROVE UNCHANGED node \/ Patch(w)
  BY <1>3 DEF Claim, Deliver, ReadForDelivery, Refused, CommittedResume, RecoverClaim, Finalize
<1>4. CASE WorkerClaim \/ Cancel \/ LockExpires \/ ClientResume
  BY <1>4 DEF WorkerClaim, Cancel, LockExpires, ClientResume
<1>5. ASSUME NEW x \in DOMAIN rec, ClearWait(x) PROVE UNCHANGED node
  BY <1>5 DEF ClearWait
<1>6. CASE UNCHANGED vars
  BY <1>6 DEF vars
<1> QED
  BY <1>1, <1>2, <1>3, <1>4, <1>5, <1>6 DEF Next

LEMMA PublishKeeps ==
  ASSUME TypeOK, Sound, NEW a \in Actors, ex[a].pc \in {"admit", "publish"}, NEW next,
         Publish(a, next), NEW w \in Waits, node[w].st = "completed"
  PROVE  node'[w] = node[w]
<1>1. CASE ~Matches(a, {"running"})
  BY <1>1 DEF Publish, SameRun
<1>2. CASE Matches(a, {"running"})
  <2>1. node' = Patched(ex[a].pub, ex[a].mem) /\ status \in Active
    BY <1>2 DEF Publish, Matches, Active
  <2>2. Follows(ex[a].pub, node) /\ BatchOK(ex[a])
    BY <2>1 DEF Sound, CopyOK, Current, Writing
  <2>3. ex[a].mem[w] = ex[a].pub[w]
    <3> SUFFICES ASSUME ex[a].mem[w] # ex[a].pub[w] PROVE FALSE
      OBVIOUS
    <3>1. w \in ex[a].batch
      BY <2>2, ActorFacts DEF BatchOK
    <3>2. ex[a].pub[w].st = "none" \/ (ex[a].pub[w].st = "running" /\ ex[a].pub[w].no = 0)
      BY <2>2, <3>1, ActorFacts DEF BatchOK
    <3>3. node[w] = ex[a].pub[w] \/ (ex[a].pub[w].st = "running" /\ ex[a].pub[w].no > 0)
      BY <2>2, ActorFacts DEF Follows
    <3> QED
      BY <3>2, <3>3
  <2> QED
    BY <2>1, <2>3, ActorFacts DEF Patched
<1> QED
  BY <1>1, <1>2

LEMMA KeptStep ==
  ASSUME GraphInv, [Next \/ ClientResume]_vars, ~restored', ~raced', status' # "failed",
         NEW w \in Waits, node[w].st = "completed"
  PROVE  node'[w] = node[w]
<1>1. TypeOK /\ CallInv /\ Sound
  BY HistoryStep DEF GraphInv, SoundInv
<1>2. ASSUME NEW a \in Actors, Restore(a) PROVE node'[w] = node[w]
  BY <1>2 DEF Restore, SameRun
<1>3. ASSUME NEW a \in Actors, Admit(a) \/ PublishSettled(a) PROVE node'[w] = node[w]
  BY <1>1, <1>3, PublishKeeps DEF Admit, PublishSettled, At
<1>4. ASSUME NEW a \in Actors, Complete(a) PROVE node'[w] = node[w]
  <2>1. ex[a].pc = "complete"
    BY <1>4 DEF Complete, At
  <2>2. /\ ex[a].mem = ex[a].pub /\ ex[a].mem[w].st = "completed"
        /\ status \in Active => Follows(ex[a].pub, node)
    BY <1>1, <2>1, ActorFacts DEF Sound, CopyOK, BatchOK, Current, Writing
  <2>3. node' = node \/ (node' = ex[a].mem /\ status \in Active)
    BY <1>4 DEF Complete, EndRun, Matches, Active
  <2> QED
    BY <2>2, <2>3, ActorFacts DEF Follows
<1>5. ASSUME NEW a \in Actors, Fail(a) \/ FailStalled(a) PROVE node'[w] = node[w]
  BY <1>5 DEF Fail, FailStalled, EndRun
<1>6. ASSUME NEW v \in Waits, Patch(v) PROVE node'[w] = node[w]
  <2>1. CASE node' = node
    BY <2>1
  <2>2. CASE node' # node
    <3>1. /\ ex[v].pc = "patch" /\ status \in Active
          /\ node' = [node EXCEPT ![v] = [st |-> "completed", no |-> ex[v].inst]]
      BY <1>6, <2>2 DEF Patch, At, Matches
    <3>2. Follows(node, node')
      BY <1>1, <3>1, PatchFollows
    <3> QED
      BY <3>2, ActorFacts DEF Follows
  <2> QED
    BY <2>1, <2>2
<1> QED
  BY <1>2, <1>3, <1>4, <1>5, <1>6, NodeWriters

\* For every graph, no execution, delivery, worker or client takes back an
\* outcome that was delivered to a wait (onNodeStatesChanged, pauseRun,
\* completeRun, patchNodeOutcome), except by putting a checkpoint back, by
\* the failure of the run, or after an execution got the lock with an
\* outdated copy.
THEOREM OutcomesKept == NudgedSpec => OutcomeKept
<1> DEFINE A == \A w \in Waits :
                  /\ node[w].st = "completed"
                  /\ ~restored' /\ ~raced' /\ status' # "failed"
                  => node'[w] = node[w]
<1>1. GraphInv /\ [Next \/ ClientResume]_vars => [A]_vars
  BY KeptStep
<1> QED
  BY <1>1, NudgedInv, PTL DEF NudgedSpec, OutcomeKept

\* The same of a run that no client resumes.
COROLLARY UndisturbedRun ==
  Spec => [](TypeOK /\ OneGraph /\ CausallyClosed) /\ OutcomeKept
BY SpecNudged, NodeTypeCorrect, OneGraphAtATime, StatesCausallyClosed, OutcomesKept, PTL
=============================================================================
