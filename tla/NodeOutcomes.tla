--------------------------- MODULE NodeOutcomes ---------------------------
(***************************************************************************)
(* What becomes of the node states of one run: executions work on a copy   *)
(* of the graph's state and publish patches of it, outcomes of parked      *)
(* waits are written into the persisted state from outside, checkpoints    *)
(* are put back by resumes, and the run is parked, woken and failed on     *)
(* what somebody read a moment ago.                                        *)
(*                                                                         *)
(* The actors are the start of the run, the delivery of an outcome to each *)
(* wait node (which ends in a resume), a worker that recovers a stalled    *)
(* run, and a client that calls resume.  Each runs in a process of its     *)
(* own; its program counter stops at every backend call.  The ownership    *)
(* protocol is that of RunControl, reduced to the original owner and the   *)
(* worker; nobody sleeps through a lease here.                             *)
(***************************************************************************)
EXTENDS Naturals, FiniteSets

CONSTANTS
  Waits, Steps,    \* the nodes of the graph
  Deps,            \* dependsOn
  Checkpointed,    \* steps with checkpoint: true
  Starter, Worker, Client,
  MaxInstances,    \* bound on executions of one wait node
  MaxCrashes,      \* bound on process deaths
  Cancels,         \* TRUE: the run may be cancelled
  None

Nodes == Waits \cup Steps

ASSUME GraphAssumption ==
  /\ Waits \cap Steps = {} /\ Checkpointed \subseteq Steps
  /\ Deps \in [Nodes -> SUBSET Nodes]
  /\ {MaxInstances, MaxCrashes} \subseteq Nat
  /\ None \notin Nodes /\ Cancels \in BOOLEAN
  /\ Cardinality({Starter, Worker, Client}) = 3
  /\ {Starter, Worker, Client} \cap Waits = {}
  /\ {"dead", None} \cap (Waits \cup {Starter, Worker, Client}) = {}

Actors == Waits \cup {Starter, Worker, Client}

VARIABLES
  status,    \* run.status
  owner,     \* run.workerId: "first", or "worker" once the run was recovered
  node,      \* run.nodeStates: status, and instance or attempt
  rec,       \* the wait record of every execution of a wait node
  saved,     \* node states of the latest checkpoint
  lock,      \* whose execution holds the run's lock; "dead": nobody's
  ex,        \* every actor's execution
  born,      \* executions of every wait node so far
  restored,  \* history: a checkpoint was put back
  raced,     \* history: an execution got the lock with an outdated copy
  crashes

vars == <<status, owner, node, rec, saved, lock, ex, born, restored, raced,
          crashes>>

Active == {"pending", "running", "waiting"}
Ended == {"completed", "failed", "cancelled"}
Untouched == [n \in Nodes |-> [st |-> "none", no |-> 0]]

NodeState == [st : {"none", "running", "completed", "failed"}, no : Nat]
NodeStates == [Nodes -> NodeState]

Labels == {"off", "read", "patch", "resume", "restore", "retireClaims",
           "retirePending", "load", "acquire", "activate", "dag", "admit",
           "settle", "publish", "checkpoint", "park", "parked", "announce",
           "unlock", "recheck", "verdict", "stuck", "failStalled", "complete",
           "fail", "release", "refused", "timer", "finalize"}

Execution ==
  [pc    : Labels,
   as    : {"first", "worker"},          \* expectedWorkerId
   inst  : Nat,                          \* the wait execution in delivery
   from  : Nodes \cup {None},            \* startFromNode
   fresh : BOOLEAN,                      \* the graph has not started
   mem   : NodeStates, pub : NodeStates, \* its copy; the copy it published
   batch : SUBSET Nodes,                 \* admitted nodes, or waits to announce
   stalled : BOOLEAN,                    \* parked behind a wait it found
   waits : SUBSET Waits]                 \* the waits it parked behind

Off == [pc |-> "off", as |-> "first", inst |-> 0, from |-> None,
        fresh |-> TRUE, mem |-> Untouched, pub |-> Untouched, batch |-> {},
        stalled |-> FALSE, waits |-> {}]

TypeOK ==
  /\ status \in Active \cup Ended
  /\ owner \in {"first", "worker"}
  /\ node \in NodeStates
  /\ rec \in [Waits \X (1..MaxInstances) ->
                {"none", "pending", "claimed", "settled"}]
  /\ saved \in NodeStates \cup {None}
  /\ lock \in Actors \cup {"dead", None}
  /\ ex \in [Actors -> Execution]
  /\ born \in [Waits -> 0..MaxInstances]
  /\ restored \in BOOLEAN /\ raced \in BOOLEAN
  /\ crashes \in 0..MaxCrashes

Init ==
  /\ status = "pending" /\ owner = "first"
  /\ node = Untouched
  /\ rec = [x \in Waits \X (1..MaxInstances) |-> "none"]
  /\ saved = None /\ lock = None
  /\ ex = [a \in Actors |-> IF a = Starter THEN [Off EXCEPT !.pc = "load"]
                            ELSE Off]
  /\ born = [w \in Waits |-> 0] /\ restored = FALSE /\ raced = FALSE
  /\ crashes = 0

---------------------------------------------------------------------------
At(a, label) == ex[a].pc = label
Become(a, e) == ex' = [ex EXCEPT ![a] = e]
Goto(a, label) == Become(a, [ex[a] EXCEPT !.pc = label])

SameRun == UNCHANGED <<status, owner, node>>
SameStore == UNCHANGED <<rec, saved, lock>>
Quietly == UNCHANGED <<born, restored, raced, crashes>>

(* updateRunIfStatus                                                       *)
Matches(a, expected) == status \in expected /\ owner = ex[a].as

\* Seeded fault: a dependency that has started is taken for done.
UnblockedEarly(states, n) == \A d \in Deps[n] : states[d].st \in {"running", "completed"}

(* getReadyNodes; a node is schedulable when what it depends on is done.   *)
Unblocked(states, n) == \A d \in Deps[n] : states[d].st = "completed"
Ready(states) ==
  {n \in Nodes : states[n].st \in {"none", "failed"} /\ Unblocked(states, n)}

(* A step recorded running in the state the execution started from.        *)
Interrupted(states) ==
  {n \in Steps : states[n].st = "running" /\ Unblocked(states, n)}

(* attempts > maxAttempts, which is one by default.                        *)
Exhausted(states) == {n \in Interrupted(states) : states[n].no > 1}

(* hasLiveNodeWait for the execution the given state names.                *)
Live(states, w) ==
  \E i \in 1..MaxInstances :
    rec[<<w, i>>] \in {"pending", "claimed"} /\ states[w].no \in {0, i}

\* Seeded fault: the whole copy is written.
PatchedWhole(old, new) == new

(* createRecordPatch, merged into the persisted states by key.             *)
Patched(old, new) ==
  [n \in Nodes |-> IF new[n] # old[n] THEN new[n] ELSE node[n]]

(* The call returns, or throws.                                            *)
Return(a) == Goto(a, IF a \in Waits THEN "finalize" ELSE "off")
Throw(a)  == Goto(a, IF a \in Waits THEN "refused" ELSE "off")

---------------------------------------------------------------------------
(* resume and resumeRun                                                    *)

Resume(a) ==
  /\ At(a, "resume")
  /\ \/ Matches(a, Active)
        /\ Goto(a, IF status = "waiting" \/ saved = None \/ Ready(saved) = {}
                   THEN "load" ELSE "restore")
     \/ ~Matches(a, Active) /\ Throw(a)
  /\ SameRun /\ SameStore /\ Quietly

(* restoreRunStateIfStatus: a replacement.  The status it was read with is *)
(* pending or running.                                                     *)
Restore(a) ==
  /\ At(a, "restore")
  /\ \/ /\ Matches(a, {"pending", "running"})
        /\ status' = "running" /\ node' = saved
        /\ \E n \in Ready(saved) :
             Become(a, [ex[a] EXCEPT !.pc = "retireClaims", !.from = n,
                                     !.mem = saved])
        /\ restored' = TRUE /\ UNCHANGED owner
     \/ ~Matches(a, {"pending", "running"}) /\ Throw(a) /\ SameRun /\ UNCHANGED restored
  /\ SameStore /\ UNCHANGED <<born, raced, crashes>>

(* retireEventWaitsExcludedBySnapshot: first the claims of executions the  *)
(* snapshot does not know go back to pending, then these are cancelled.    *)
Excluded(states, x) ==
  states[x[1]].st # "running" \/ states[x[1]].no # x[2]

RetireClaims(a) ==
  /\ At(a, "retireClaims")
  /\ rec' = [x \in DOMAIN rec |->
               IF rec[x] = "claimed" /\ Excluded(ex[a].mem, x)
               THEN "pending" ELSE rec[x]]
  /\ Goto(a, "retirePending")
  /\ UNCHANGED <<saved, lock>> /\ SameRun /\ Quietly

RetirePending(a) ==
  /\ At(a, "retirePending")
  /\ rec' = [x \in DOMAIN rec |->
               IF rec[x] = "pending" /\ Excluded(ex[a].mem, x)
               THEN "settled" ELSE rec[x]]
  /\ Goto(a, "load")
  /\ UNCHANGED <<saved, lock>> /\ SameRun /\ Quietly

(* executeAsync reads the run that the graph will work on ...              *)
Load(a) ==
  /\ At(a, "load")
  /\ \/ /\ owner = ex[a].as
        /\ Become(a, [ex[a] EXCEPT !.pc = "acquire", !.mem = node,
                                   !.pub = node])
     \/ owner # ex[a].as /\ Throw(a)
  /\ SameRun /\ SameStore /\ Quietly

(* All that has happened to these states since they were read is that      *)
(* outcomes were delivered to waits that were under way.                   *)
Follows(old, new) ==
  \A n \in Nodes :
    \/ new[n] = old[n]
    \/ /\ n \in Waits /\ old[n].st = "running" /\ old[n].no > 0
       /\ new[n] = [old[n] EXCEPT !.st = "completed"]

\* Seeded fault: a refused execution releases the lock on its way out.
AcquireReleases(a) ==
  /\ At(a, "acquire")
  /\ \/ lock = None /\ lock' = a /\ Goto(a, "activate")
     \/ lock # None /\ Throw(a) /\ lock' = None
  /\ UNCHANGED <<rec, saved>> /\ SameRun /\ Quietly

(* ... and then asks for the lock.  Whether the copy is still the run's    *)
(* state is not looked at: raced only records that it was not.             *)
Acquire(a) ==
  /\ At(a, "acquire")
  /\ \/ /\ lock = None /\ lock' = a /\ Goto(a, "activate")
        /\ raced' = IF Follows(ex[a].mem, node) THEN raced ELSE TRUE
     \/ lock # None /\ Throw(a) /\ UNCHANGED <<lock, raced>>
  /\ UNCHANGED <<rec, saved, born, restored, crashes>> /\ SameRun

(* A refused activation ends in failRun, which is refused as well.         *)
Activate(a) ==
  /\ At(a, "activate")
  /\ \/ Matches(a, Active) /\ status' = "running" /\ Goto(a, "dag")
     \/ ~Matches(a, Active) /\ Goto(a, "release") /\ UNCHANGED status
  /\ UNCHANGED <<owner, node>> /\ SameStore /\ Quietly

---------------------------------------------------------------------------
(* The graph                                                               *)

Admitted(a) ==
  IF ex[a].from # None THEN {ex[a].from}
  ELSE Ready(ex[a].mem) \cup
       (IF ex[a].fresh THEN Interrupted(ex[a].mem) ELSE {})

\* Seeded fault: attempts are counted down.
BegunDown(s) == [st |-> "running", no |-> s.no - 1]

Begun(s) == [st |-> "running", no |-> s.no + 1]

(* The next batch, or what a graph with nothing to schedule comes to.      *)
Dag(a) ==
  LET mem == ex[a].mem
      open == {n \in Nodes : mem[n].st # "completed"}
      parked == {w \in Waits : mem[w].st = "running"}
      batch == Admitted(a)
  IN
  /\ At(a, "dag")
  /\ Become(a,
       IF ex[a].fresh /\ ex[a].from = None /\ Exhausted(mem) # {}
       THEN [ex[a] EXCEPT !.pc = "fail"]
       ELSE IF batch # {}
       THEN [ex[a] EXCEPT !.pc = "admit", !.batch = batch, !.from = None,
               !.fresh = FALSE,
               !.mem = [n \in Nodes |-> IF n \notin batch THEN mem[n]
                                        ELSE IF n \in Steps THEN Begun(mem[n])
                                        ELSE [mem[n] EXCEPT !.st = "running"]]]
       ELSE IF open = {} THEN [ex[a] EXCEPT !.pc = "complete"]
       ELSE IF parked # {} /\ \A n \in open \ parked : mem[n].st = "none"
       THEN [ex[a] EXCEPT !.pc = "park", !.stalled = TRUE, !.waits = parked]
       ELSE [ex[a] EXCEPT !.pc = "fail"])
  /\ SameRun /\ SameStore /\ Quietly

(* onNodeStatesChanged.  When it is refused, the execution is over.        *)
Publish(a, next) ==
  \/ /\ Matches(a, {"running"})
     /\ node' = Patched(ex[a].pub, ex[a].mem)
     /\ Become(a, [ex[a] EXCEPT !.pc = next, !.pub = ex[a].mem])
     /\ UNCHANGED <<status, owner>>
  \/ ~Matches(a, {"running"}) /\ Goto(a, "release") /\ SameRun

Admit(a) ==
  /\ At(a, "admit") /\ Publish(a, "settle") /\ SameStore /\ Quietly

(* The batch runs: a step completes, a wait parks under a new instance.    *)
Settle(a) ==
  LET ours == ex[a].batch IN
  /\ At(a, "settle")
  /\ \A w \in ours \cap Waits : born[w] < MaxInstances
  /\ born' = [w \in Waits |-> IF w \in ours THEN born[w] + 1 ELSE born[w]]
  /\ Become(a, [ex[a] EXCEPT !.pc = "publish",
       !.mem = [n \in Nodes |->
                  IF n \notin ours THEN ex[a].mem[n]
                  ELSE IF n \in Steps
                  THEN [ex[a].mem[n] EXCEPT !.st = "completed"]
                  ELSE [st |-> "running", no |-> born'[n]]]])
  /\ SameRun /\ SameStore /\ UNCHANGED <<restored, raced, crashes>>

AfterBatch(a) == IF ex[a].batch \cap Waits = {} THEN "dag" ELSE "park"

PublishSettled(a) ==
  /\ At(a, "publish")
  /\ Publish(a, IF ex[a].batch \cap Checkpointed # {} THEN "checkpoint"
                ELSE AfterBatch(a))
  /\ SameStore /\ Quietly

(* saveCheckpointIfStatusAndWorker                                         *)
Checkpoint(a) ==
  /\ At(a, "checkpoint")
  /\ \/ /\ Matches(a, {"running"}) /\ saved' = ex[a].mem
        /\ Goto(a, AfterBatch(a))
     \/ ~Matches(a, {"running"}) /\ Goto(a, "release") /\ UNCHANGED saved
  /\ UNCHANGED <<rec, lock>> /\ SameRun /\ Quietly

(* completeRun and failRun write the copy of the graph.                    *)
EndRun(a, expected, as) ==
  /\ IF Matches(a, expected)
     THEN status' = as /\ node' = ex[a].mem
     ELSE UNCHANGED <<status, node>>
  /\ Goto(a, "release")
  /\ UNCHANGED owner /\ SameStore /\ Quietly

Complete(a) == At(a, "complete") /\ EndRun(a, {"running"}, "completed")
Fail(a)     == At(a, "fail") /\ EndRun(a, {"running"}, "failed")

Release(a) ==
  /\ At(a, "release")
  /\ lock' = IF lock = a THEN None ELSE lock
  /\ Return(a)
  /\ UNCHANGED <<rec, saved>> /\ SameRun /\ Quietly

---------------------------------------------------------------------------
(* Parking                                                                 *)

(* pauseRun, statusOnly                                                    *)
Park(a) ==
  /\ At(a, "park")
  /\ \/ /\ Matches(a, {"running"}) /\ status' = "waiting"
        /\ Become(a, [ex[a] EXCEPT !.pc = "parked",
                        !.waits = IF ex[a].stalled THEN @
                                  ELSE ex[a].batch \cap Waits])
     \/ ~Matches(a, {"running"}) /\ Goto(a, "release") /\ UNCHANGED status
  /\ UNCHANGED <<owner, node>> /\ SameStore /\ Quietly

(* pausedRun                                                               *)
ReadParked(a) ==
  /\ At(a, "parked")
  /\ IF Matches(a, {"waiting"})
     THEN Become(a, [ex[a] EXCEPT !.pc = "announce", !.pub = node,
                                  !.batch = ex[a].waits])
     ELSE Goto(a, "release")
  /\ SameRun /\ SameStore /\ Quietly

(* onWaitingPersist for every wait without a live record.  A stalled graph *)
(* does so only for nodes that are still recorded running.                 *)
Announces(a, w) ==
  /\ ~Live(ex[a].pub, w)
  /\ ex[a].pub[w].no > 0
  /\ ex[a].stalled => ex[a].pub[w].st = "running"

Announce(a) ==
  /\ At(a, "announce") /\ ex[a].batch # {}
  /\ \E w \in ex[a].batch :
       IF ~Announces(a, w)
       THEN Become(a, [ex[a] EXCEPT !.batch = @ \ {w}]) /\ UNCHANGED rec
       ELSE \/ /\ Matches(a, {"waiting"})
               /\ rec' = [rec EXCEPT ![<<w, ex[a].pub[w].no>>] = "pending"]
               /\ Become(a, [ex[a] EXCEPT !.batch = @ \ {w}])
            \/ ~Matches(a, {"waiting"}) /\ Goto(a, "release") /\ UNCHANGED rec
  /\ UNCHANGED <<saved, lock>> /\ SameRun /\ Quietly

(* releaseWaitingLock                                                      *)
Unlock(a) ==
  /\ At(a, "announce") /\ ex[a].batch = {}
  /\ lock' = IF lock = a THEN None ELSE lock
  /\ Goto(a, "recheck")
  /\ UNCHANGED <<rec, saved>> /\ SameRun /\ Quietly

Recheck(a) ==
  /\ At(a, "recheck")
  /\ IF ex[a].stalled /\ Matches(a, {"waiting"}) THEN Goto(a, "verdict")
     ELSE Return(a)
  /\ SameRun /\ SameStore /\ Quietly

(* latestRun, and then the wait records one by one                         *)
ReadVerdict(a) ==
  /\ At(a, "verdict")
  /\ IF status = "waiting"
     THEN Become(a, [ex[a] EXCEPT !.pc = "stuck", !.pub = node,
                                  !.batch = ex[a].waits])
     ELSE Return(a)
  /\ SameRun /\ SameStore /\ Quietly

MissingWait(a) ==
  /\ At(a, "stuck")
  /\ \/ ex[a].batch = {} /\ Return(a)
     \/ \E w \in ex[a].batch :
          IF Live(ex[a].pub, w) \/ ex[a].pub[w].st = "completed"
          THEN Become(a, [ex[a] EXCEPT !.batch = @ \ {w}])
          ELSE Goto(a, "failStalled")
  /\ SameRun /\ SameStore /\ Quietly

FailStalled(a) == At(a, "failStalled") /\ EndRun(a, {"waiting"}, "failed")

---------------------------------------------------------------------------
(* The delivery of an outcome to a wait: an event, a decision or a delay.  *)

Claim(w) ==
  /\ At(w, "off")
  /\ \E i \in 1..MaxInstances :
       /\ rec[<<w, i>>] = "pending"
       /\ rec' = [rec EXCEPT ![<<w, i>>] = "claimed"]
       /\ Become(w, [Off EXCEPT !.pc = "read", !.inst = i])
  /\ UNCHANGED <<saved, lock>> /\ SameRun /\ Quietly

Mine(w) == <<w, ex[w].inst>>
GiveUp(w, st) ==
  /\ rec' = [rec EXCEPT ![Mine(w)] = IF @ = "claimed" THEN st ELSE @]
  /\ Become(w, Off)

(* reconcileNodeOutcomeAttempt                                             *)
ReadForDelivery(w) ==
  /\ At(w, "read")
  /\ \/ status = "failed" /\ GiveUp(w, "pending")
     \/ status \in {"completed", "cancelled"} /\ GiveUp(w, "settled")
     \/ /\ status \in Active
        /\ \/ node[w].st = "completed" \/ node[w].no # ex[w].inst
        /\ GiveUp(w, "settled")
     \/ /\ status \in Active
        /\ node[w].st # "completed" /\ node[w].no = ex[w].inst
        /\ Become(w, [ex[w] EXCEPT !.pc = "patch", !.as = owner])
        /\ UNCHANGED rec
  /\ UNCHANGED <<saved, lock>> /\ SameRun /\ Quietly

(* patchNodeOutcome                                                        *)
Patch(w) ==
  /\ At(w, "patch")
  /\ \/ /\ Matches(w, Active)
        /\ node' = [node EXCEPT ![w] = [st |-> "completed", no |-> ex[w].inst]]
        /\ Goto(w, "resume")
     \/ ~Matches(w, Active) /\ Goto(w, "read") /\ UNCHANGED node
  /\ UNCHANGED <<status, owner>> /\ SameStore /\ Quietly

(* resumeReconciledRun: another attempt when the owner has changed;        *)
(* otherwise scheduleCommittedResumeRetry.                                 *)
Refused(w) ==
  /\ At(w, "refused")
  /\ Become(w, [Off EXCEPT !.inst = ex[w].inst,
                  !.pc = IF status \in Active /\ owner # ex[w].as
                         THEN "read" ELSE "timer"])
  /\ SameRun /\ SameStore /\ Quietly

(* reconcileCommittedResume, by the timer or by whoever recovers the claim *)
CommittedResume(w) ==
  /\ At(w, "timer") /\ node[w].st = "completed"
  /\ IF status = "waiting"
     THEN Become(w, [Off EXCEPT !.pc = "resume", !.as = owner,
                                !.inst = ex[w].inst])
     ELSE Goto(w, "finalize")
  /\ SameRun /\ SameStore /\ Quietly

(* recoverAbandonedDeliveryClaim of an outcome that has not landed         *)
RecoverClaim(w) ==
  /\ At(w, "timer") /\ node[w].st # "completed"
  /\ GiveUp(w, IF status \in Ended \/ node[w].no # ex[w].inst
               THEN "settled" ELSE "pending")
  /\ UNCHANGED <<saved, lock>> /\ SameRun /\ Quietly

Finalize(w) ==
  /\ At(w, "finalize")
  /\ GiveUp(w, "settled")
  /\ UNCHANGED <<saved, lock>> /\ SameRun /\ Quietly

---------------------------------------------------------------------------
(* A worker claims a stalled run: nobody at work keeps its heartbeat.      *)
Working(a) == ex[a].pc \in {"dag", "admit", "settle", "publish", "checkpoint",
                            "park", "parked", "announce", "complete", "fail"}

WorkerClaim ==
  /\ status = "running" /\ At(Worker, "off")
  /\ \A a \in Actors : ~Working(a)
  /\ owner' = "worker"
  /\ Become(Worker, [Off EXCEPT !.pc = "resume", !.as = "worker"])
  /\ UNCHANGED <<status, node>> /\ SameStore /\ Quietly

(* A client calls resume, at any time.                                     *)
ClientResume ==
  /\ At(Client, "off") /\ status \in Active
  /\ Become(Client, [Off EXCEPT !.pc = "resume", !.as = owner])
  /\ SameRun /\ SameStore /\ Quietly

(* The process of an execution dies.  A claim it leaves is recovered.      *)
Crash(a) ==
  /\ ~At(a, "off") /\ crashes < MaxCrashes /\ crashes' = crashes + 1
  /\ Become(a, IF a \in Waits THEN [Off EXCEPT !.pc = "timer",
                                               !.inst = ex[a].inst] ELSE Off)
  /\ lock' = IF lock = a THEN "dead" ELSE lock
  /\ UNCHANGED <<rec, saved, born, restored, raced>> /\ SameRun

(* cancel; an execution under way meets it at its next write.             *)
Cancel ==
  /\ Cancels /\ status \in Active /\ status' = "cancelled"
  /\ UNCHANGED <<owner, node, ex>> /\ SameStore /\ Quietly

(* clearPendingEventWaits, one record after the other.                     *)
ClearWait(x) ==
  /\ status = "cancelled" /\ rec[x] = "pending"
  /\ rec' = [rec EXCEPT ![x] = "settled"]
  /\ UNCHANGED <<saved, lock, ex>> /\ SameRun /\ Quietly

LockExpires ==
  /\ lock = "dead" /\ lock' = None
  /\ UNCHANGED <<rec, saved, ex>> /\ SameRun /\ Quietly

---------------------------------------------------------------------------
Execute(a) ==
  \/ Resume(a) \/ Restore(a) \/ RetireClaims(a) \/ RetirePending(a)
  \/ Load(a) \/ Acquire(a) \/ Activate(a)
  \/ Dag(a) \/ Admit(a) \/ Settle(a) \/ PublishSettled(a) \/ Checkpoint(a)
  \/ Complete(a) \/ Fail(a) \/ Release(a)
  \/ Park(a) \/ ReadParked(a) \/ Announce(a) \/ Unlock(a) \/ Recheck(a)
  \/ ReadVerdict(a) \/ MissingWait(a) \/ FailStalled(a)

Deliver(w) ==
  \/ ReadForDelivery(w) \/ Patch(w) \/ Refused(w) \/ CommittedResume(w)
  \/ RecoverClaim(w) \/ Finalize(w)

Next ==
  \/ \E a \in Actors : Execute(a) \/ Crash(a)
  \/ \E w \in Waits : Claim(w) \/ Deliver(w)
  \/ WorkerClaim \/ Cancel \/ LockExpires
  \/ \E x \in DOMAIN rec : ClearWait(x)

Spec == Init /\ [][Next]_vars

\* A client may also resume the run whenever it likes.
NudgedSpec == Init /\ [][Next \/ ClientResume]_vars

---------------------------------------------------------------------------
(* Properties                                                              *)

(* An outcome that was delivered to a wait is not taken back by an         *)
(* execution that publishes, parks or completes what it knew before        *)
(* (onNodeStatesChanged, pauseRun, completeRun): only a checkpoint that is *)
(* put back, the failure of the run, or an execution that got the lock     *)
(* with an outdated copy of the run does that.                             *)
OutcomeKept ==
  [][\A w \in Waits :
       /\ node[w].st = "completed"
       /\ ~restored' /\ ~raced' /\ status' # "failed"
       => node'[w] = node[w]]_vars

(* The same of every execution, as the comment on the parking of a run     *)
(* has it: what was delivered is not destroyed by a stale copy.            *)
DeliveryNeverDestroyed ==
  [][\A w \in Waits :
       /\ node[w].st = "completed"
       /\ ~restored' /\ status' # "failed"
       => node'[w] = node[w]]_vars

(* The lock lets one execution at a time work on the graph: from its first *)
(* look at the graph until the run is parked and announced, or at its end, *)
(* whoever resumes it, and whatever is restored under it.                  *)
OneGraph == \A a, b \in Actors : Working(a) /\ Working(b) => a = b

(* The persisted states make sense together although they are written by   *)
(* key, from several copies: a node is under way or done only behind nodes *)
(* whose outcome is there, unless a checkpoint was put back or an          *)
(* execution got the lock with an outdated copy.                           *)
Closed(states) ==
  \A n \in Nodes : states[n].st # "none" =>
    \A d \in Deps[n] : states[d].st = "completed"

CausallyClosed == ~restored /\ ~raced => Closed(node)

===========================================================================
