----------------------------- MODULE Approvals -----------------------------
(***************************************************************************)
(* Approvals of one workflow run: ApprovalManager of                       *)
(* workflow/runtime/approval-manager.ts, the decision part of              *)
(* workflow-run-control.ts and retry() of workflow-executor.ts, over the   *)
(* approval records of backends/memory.ts.                                 *)
(*                                                                         *)
(* The run is a loop whose body waits for an approval: each round is a new *)
(* execution (_waitInstanceId) of the same wait node.  A decision is made  *)
(* durable first, as a claim on its approval, then written onto the node   *)
(* and the run resumed, and only then is the claim given up; managers of   *)
(* other processes take over claims that are old.  An action is one call   *)
(* of the backend with the code around it.  The graph's own concurrency is *)
(* in NodeOutcomes: here an execution advances, parks and announces.       *)
(***************************************************************************)
EXTENDS Naturals, FiniteSets

CONSTANTS
  Managers,      \* one per process
  Rounds,        \* iterations of the loop
  MaxApprovals,  \* bound: approval records
  MaxCrashes, MaxRetries, \* bounds: crashes of a process, retries of the run
  Expires,       \* approvals have a deadline
  Overtakes,     \* a claim may grow old while its manager still works on it
  None

ASSUME ApprovalsAssumption ==
  /\ {Rounds, MaxApprovals, MaxCrashes, MaxRetries} \subseteq Nat
  /\ Rounds > 0 /\ MaxApprovals >= Rounds
  /\ {Expires, Overtakes} \subseteq BOOLEAN
  /\ None \notin Managers

VARIABLES
  status, owner, \* of the run
  round,         \* the loop's iteration, in its own context
  node,          \* the wait node's state: instance, done, by (an approval)
  decided,       \* ghost: the approval each round went on with
  exec,          \* the execution under way: none, running, parked; and its process
  approval,      \* the records: inst, status, claim, lease (recoveryClaimId)
  act,           \* what each manager is doing
  crashes, retries

vars == <<status, owner, round, node, decided, exec, approval, act, crashes, retries>>
runVars == <<status, owner, round, node, decided>>
limits == <<crashes, retries>>

Ids == 1..MaxApprovals
Active == {"pending", "running", "waiting"}
NoApproval == [inst |-> 0, status |-> "none", claim |-> FALSE, lease |-> None]
Idle == [at |-> "idle", how |-> None, id |-> 0, approved |-> FALSE, owner |-> 0, inst |-> 0,
         mine |-> 0, todo |-> {}, done |-> {}]
NoExec == [at |-> "none", by |-> None]

Init ==
  /\ status = "waiting" /\ owner = 1 /\ round = 1
  /\ node = [inst |-> 1, done |-> FALSE, by |-> 0]
  /\ decided = [r \in 1..Rounds |-> 0]
  /\ exec = NoExec
  /\ approval = [i \in Ids |-> IF i = 1 THEN [NoApproval EXCEPT !.inst = 1, !.status = "pending"]
                              ELSE NoApproval]
  /\ act = [m \in Managers |-> Idle]
  /\ crashes = 0 /\ retries = 0

---------------------------------------------------------------------------
At(m, at) == act[m].at = at
Goto(m, at) == act' = [act EXCEPT ![m].at = at]
Stop(m) == act' = [act EXCEPT ![m] = Idle]

\* isSameWaitNodeExecution
SameWait(i) == approval[i].inst = node.inst

---------------------------------------------------------------------------
(* The execution                                                           *)

\* It goes through the loop: past a wait that is completed, up to one that
\* is not.  The state of the wait node is taken from the run's map, whatever
\* its instance (reconcileIterationNodeStates).
Execute ==
  /\ exec.at = "running" /\ status = "running"
  /\ \/ /\ node.done
        /\ decided' = [decided EXCEPT ![round] = node.by]
        /\ IF round = Rounds
           THEN /\ status' = "completed" /\ exec' = NoExec
                /\ UNCHANGED <<round, node>>
           ELSE /\ round' = round + 1
                /\ node' = [inst |-> round + 1, done |-> FALSE, by |-> 0]
                /\ status' = "waiting" /\ exec' = [exec EXCEPT !.at = "parked"]
     \/ /\ ~node.done
        /\ status' = "waiting" /\ exec' = [exec EXCEPT !.at = "parked"]
        /\ UNCHANGED <<round, node, decided>>
  /\ UNCHANGED <<owner, approval, act, limits>>

\* A run that has failed or was cancelled ends its execution.
ExecutionEnds ==
  /\ exec.at = "running" /\ status # "running"
  /\ exec' = NoExec
  /\ UNCHANGED <<runVars, approval, act, limits>>

Live(i) == approval[i].status = "pending" \/ approval[i].claim

\* createApproval through savePendingApprovalIfStatusAndWorker.
CreateApproval ==
  LET taken == {i \in Ids : approval[i].status # "none"}
      id == Cardinality(taken) + 1
      saves == status = "waiting" /\ ~\E i \in taken : Live(i) /\ SameWait(i)
  IN  /\ exec.at = "parked"
      /\ saves => id \in Ids
      /\ approval' = IF saves
           THEN [approval EXCEPT ![id] = [NoApproval EXCEPT !.inst = node.inst, !.status = "pending"]]
           ELSE approval
      /\ exec' = NoExec
      /\ UNCHANGED <<runVars, act, limits>>

\* A worker takes over a run whose execution has died.
WorkerClaim ==
  /\ exec.at = "none" /\ status \in {"running", "pending"}
  /\ \E m \in Managers : exec' = [at |-> "running", by |-> m]
  /\ status' = "running" /\ owner' = owner + 1
  /\ UNCHANGED <<round, node, decided, approval, act, limits>>

---------------------------------------------------------------------------
(* A decision and an expiry                                                *)

\* processDecision up to updateApproval.
Decide(m, i, approved) ==
  /\ At(m, "idle") /\ approval[i].status = "pending"
  /\ act' = [act EXCEPT ![m] = [Idle EXCEPT !.at = "update", !.how = "decide", !.id = i,
                                            !.approved = approved]]
  /\ UNCHANGED <<runVars, exec, approval, limits>>

\* checkExpiredApprovals finds it.
Expire(m, i) ==
  /\ Expires /\ At(m, "idle") /\ approval[i].status = "pending"
  /\ act' = [act EXCEPT ![m] = [Idle EXCEPT !.at = "update", !.how = "expire", !.id = i]]
  /\ UNCHANGED <<runVars, exec, approval, limits>>

\* Seeded fault: the last decision wins.
UpdateApprovalLast(m) ==
  LET i == act[m].id
  IN  /\ At(m, "update")
      /\ approval' = [approval EXCEPT ![i].claim = TRUE,
           ![i].status = IF act[m].approved THEN "approved" ELSE "rejected"]
      /\ Goto(m, IF act[m].how = "expire" THEN "failRun" ELSE "read")
      /\ UNCHANGED <<runVars, exec, limits>>

\* updateApproval: the first decision wins, and is claimed.
UpdateApproval(m) ==
  LET i == act[m].id
  IN  /\ At(m, "update")
      /\ \/ /\ approval[i].status = "pending"
            /\ approval' = [approval EXCEPT ![i].claim = TRUE,
                 ![i].status = IF act[m].approved THEN "approved" ELSE "rejected"]
            /\ Goto(m, IF act[m].how = "expire" THEN "failRun" ELSE "read")
         \/ approval[i].status # "pending" /\ Stop(m) /\ UNCHANGED approval
      /\ UNCHANGED <<runVars, exec, limits>>

\* expireApproval fails the run; a failed one keeps the claim for a retry.
FailRun(m) ==
  /\ At(m, "failRun")
  /\ status' = IF status \in Active THEN "failed" ELSE status
  /\ IF status = "failed" THEN Stop(m) ELSE Goto(m, "finalize")
  /\ UNCHANGED <<owner, round, node, decided, exec, approval, limits>>

---------------------------------------------------------------------------
(* reconcileNodeOutcome                                                    *)

\* shouldRetainDecisionClaim, for a run that is not active: a failed one may
\* be retried.  Recovery then releases its lease.
Terminal(m) ==
  /\ IF act[m].how = "retry" THEN Goto(m, "retryNext") /\ UNCHANGED approval
     ELSE IF status # "failed" THEN Goto(m, "finalize") /\ UNCHANGED approval
     ELSE /\ Stop(m)
          /\ approval' = [approval EXCEPT ![act[m].id].lease = IF @ = m THEN None ELSE @]

ReadRun(m) ==
  /\ At(m, "read")
  /\ \/ status \notin Active /\ Terminal(m)
     \/ /\ status \in Active /\ UNCHANGED approval
        /\ act' = [act EXCEPT ![m].at = "patch", ![m].owner = owner, ![m].inst = node.inst]
  /\ UNCHANGED <<runVars, exec, limits>>

\* The patch is the node state that was read, completed by the decision.  It
\* is refused when the run has ended or its owner has changed.
PatchNode(m) ==
  LET lands == status \in Active /\ owner = act[m].owner
  IN  /\ At(m, "patch")
      /\ node' = IF lands THEN [inst |-> act[m].inst, done |-> TRUE, by |-> act[m].id] ELSE node
      /\ status' = IF lands /\ ~act[m].approved THEN "failed" ELSE status
      /\ IF lands
         THEN /\ UNCHANGED approval
              /\ IF act[m].how = "retry"
                 THEN act' = [act EXCEPT ![m].at = "retryNext", ![m].done = @ \cup {act[m].id}]
                 ELSE Goto(m, IF act[m].approved THEN "resume" ELSE "finalize")
         ELSE IF status \in Active THEN Goto(m, "read") /\ UNCHANGED approval ELSE Terminal(m)
      /\ UNCHANGED <<owner, round, decided, exec, limits>>

\* executor.resume for the owner that was read.  It throws when the owner has
\* changed, the run has ended or an execution holds the lock; a changed owner
\* starts the attempt again, anything else leaves the claim to recovery.
Resume(m) ==
  /\ At(m, "resume")
  /\ \/ /\ status \in Active /\ owner = act[m].owner /\ exec.at = "none"
        /\ exec' = [at |-> "running", by |-> m] /\ status' = "running"
        /\ Goto(m, "executing")
     \/ /\ status \in Active /\ owner # act[m].owner
        /\ Goto(m, "read") /\ UNCHANGED <<exec, status>>
     \/ /\ status \notin Active \/ (owner = act[m].owner /\ exec.at # "none")
        /\ Stop(m) /\ UNCHANGED <<exec, status>>
  /\ UNCHANGED <<owner, round, node, decided, approval, limits>>

\* resume returns when the execution it started has parked or ended.
Executed(m) ==
  /\ At(m, "executing") /\ exec.by # m
  /\ Goto(m, "finalize")
  /\ UNCHANGED <<runVars, exec, approval, limits>>

\* Seeded fault: the lease outlives the claim.
FinalizeLeased(m) ==
  /\ At(m, "finalize")
  /\ approval' = [approval EXCEPT ![act[m].id].claim = FALSE]
  /\ Stop(m)
  /\ UNCHANGED <<runVars, exec, limits>>

\* finalizeApprovalDecision, by the holder of the lease if there is one.
Finalize(m) ==
  LET i == act[m].id
      holder == IF act[m].how = "recover" THEN m ELSE None
  IN  /\ At(m, "finalize")
      /\ approval' = IF approval[i].lease # holder THEN approval
                     ELSE [approval EXCEPT ![i].claim = FALSE, ![i].lease = None]
      /\ Stop(m)
      /\ UNCHANGED <<runVars, exec, limits>>

---------------------------------------------------------------------------
(* Recovery of decision claims                                             *)

\* Somebody still works on the claim, and recovery comes too early for it.
Attended(i) ==
  ~Overtakes /\ \E m \in Managers : act[m].id = i /\ act[m].at # "idle"

\* reserveApprovalDecisionClaim.
Reserve(m, i) ==
  /\ At(m, "idle") /\ approval[i].claim /\ ~Attended(i)
  /\ approval[i].lease # None /\ ~Overtakes => act[approval[i].lease].id # i
  /\ approval' = [approval EXCEPT ![i].lease = m]
  /\ act' = [act EXCEPT ![m] = [Idle EXCEPT !.at = "check", !.how = "recover", !.id = i,
                                            !.approved = (approval[i].status = "approved")]]
  /\ UNCHANGED <<runVars, exec, limits>>

\* Seeded fault: the claim is replayed on whatever the node waits for now.
CheckClaimBlind(m) ==
  /\ At(m, "check")
  /\ Goto(m, "read")
  /\ UNCHANGED <<runVars, exec, approval, limits>>

\* applyReservedApprovalDecision reads the run.
CheckClaim(m) ==
  LET i == act[m].id
  IN  /\ At(m, "check")
      /\ \/ ~SameWait(i) /\ Goto(m, "finalize")
         \/ /\ SameWait(i) /\ node.done
            /\ IF act[m].approved /\ status = "waiting"
               THEN act' = [act EXCEPT ![m].at = "resumeOnly", ![m].owner = owner]
               ELSE Goto(m, "finalize")
         \/ SameWait(i) /\ ~node.done /\ Goto(m, "read")
      /\ UNCHANGED <<runVars, exec, approval, limits>>

\* finishCommittedApprovalDecision: here a refused resume is an error, and
\* the lease stays until it expires.
ResumeOnly(m) ==
  /\ At(m, "resumeOnly")
  /\ \/ /\ status \in Active /\ owner = act[m].owner /\ exec.at = "none"
        /\ exec' = [at |-> "running", by |-> m] /\ status' = "running"
        /\ Goto(m, "executing")
     \/ /\ status \notin Active \/ owner # act[m].owner \/ exec.at # "none"
        /\ Stop(m) /\ UNCHANGED <<exec, status>>
  /\ UNCHANGED <<owner, round, node, decided, approval, limits>>

---------------------------------------------------------------------------
(* Retry of a failed run                                                   *)

\* retry() reactivates the run under an id of its own.
Retry(m) ==
  /\ At(m, "idle") /\ status = "failed" /\ retries < MaxRetries
  /\ retries' = retries + 1
  /\ status' = "pending" /\ owner' = owner + 1
  /\ act' = [act EXCEPT ![m] = [Idle EXCEPT !.at = "retryList", !.how = "retry", !.mine = owner + 1]]
  /\ UNCHANGED <<round, node, decided, exec, approval, crashes>>

\* prepareApprovalDecisionClaims, leased claims included.
RetryList(m) ==
  /\ At(m, "retryList")
  /\ act' = [act EXCEPT ![m].at = "retryNext", ![m].todo = {i \in Ids : approval[i].claim}]
  /\ UNCHANGED <<runVars, exec, approval, limits>>

\* Seeded fault: a wait that is still open is left to the recovery of claims.
RetryNextSkips(m) ==
  /\ At(m, "retryNext")
  /\ act' = [act EXCEPT ![m].at = "retryFinalize", ![m].done = act[m].todo, ![m].todo = {}]
  /\ UNCHANGED <<runVars, exec, approval, limits>>

\* reconcileApprovalDecisionClaimsBeforeRetry reads the run for each claim.
RetryNext(m) ==
  /\ At(m, "retryNext")
  /\ \/ \E i \in act[m].todo :
          LET open == SameWait(i) /\ ~node.done
          IN  act' = [act EXCEPT ![m].todo = @ \ {i}, ![m].id = i,
                        ![m].approved = (approval[i].status = "approved"),
                        ![m].at = IF open THEN "read" ELSE "retryNext",
                        ![m].done = IF open THEN @ ELSE @ \cup {i}]
     \/ act[m].todo = {} /\ Goto(m, "retryFinalize")
  /\ UNCHANGED <<runVars, exec, approval, limits>>

\* finalizeReconciledApprovalDecisions, once every outcome is committed.
RetryFinalize(m) ==
  /\ At(m, "retryFinalize")
  /\ \/ \E i \in act[m].done :
          /\ approval' = IF approval[i].lease # None THEN approval
                         ELSE [approval EXCEPT ![i].claim = FALSE]
          /\ act' = [act EXCEPT ![m].done = @ \ {i}]
     \/ act[m].done = {} /\ Goto(m, "retryRun") /\ UNCHANGED approval
  /\ UNCHANGED <<runVars, exec, limits>>

\* The run is started unless a decision has failed it again or another
\* process has claimed it.
RetryRun(m) ==
  /\ At(m, "retryRun")
  /\ IF status = "pending" /\ owner = act[m].mine /\ exec.at = "none"
     THEN exec' = [at |-> "running", by |-> m] /\ status' = "running"
     ELSE UNCHANGED <<exec, status>>
  /\ Stop(m)
  /\ UNCHANGED <<owner, round, node, decided, approval, limits>>

---------------------------------------------------------------------------
\* The process of a manager dies, with the execution it runs.
Crash(m) ==
  /\ crashes < MaxCrashes /\ crashes' = crashes + 1
  /\ act[m] # Idle
  /\ Stop(m)
  /\ exec' = IF exec.by = m THEN NoExec ELSE exec
  /\ UNCHANGED <<runVars, approval, retries>>

\* failRun: another branch of the graph fails, or the graph counts as stuck.
Fails ==
  /\ status \in {"running", "waiting"}
  /\ status' = "failed"
  /\ UNCHANGED <<owner, round, node, decided, exec, approval, act, limits>>

Cancel ==
  /\ status \in Active
  /\ status' = "cancelled"
  /\ UNCHANGED <<owner, round, node, decided, exec, approval, act, limits>>

---------------------------------------------------------------------------
Manage(m) ==
  \/ UpdateApproval(m) \/ FailRun(m) \/ ReadRun(m) \/ PatchNode(m) \/ Resume(m)
  \/ Executed(m) \/ Finalize(m) \/ CheckClaim(m) \/ ResumeOnly(m)
  \/ RetryList(m) \/ RetryNext(m) \/ RetryFinalize(m) \/ RetryRun(m)

RunsOn == Execute \/ ExecutionEnds \/ CreateApproval \/ WorkerClaim

Next ==
  \/ RunsOn \/ Fails \/ Cancel
  \/ \E m \in Managers :
       \/ Manage(m) \/ Retry(m) \/ Crash(m)
       \/ \E i \in Ids : Expire(m, i) \/ Reserve(m, i) \/ \E ok \in BOOLEAN : Decide(m, i, ok)

Spec == Init /\ [][Next]_vars

---------------------------------------------------------------------------
Labels == {"idle", "update", "failRun", "read", "patch", "resume", "executing", "finalize", "check",
           "resumeOnly", "retryList", "retryNext", "retryFinalize", "retryRun"}

ApprovalState ==
  [inst : 0..Rounds, status : {"none", "pending", "approved", "rejected"}, claim : BOOLEAN,
   lease : Managers \cup {None}]

ActState ==
  [at : Labels, how : {None, "decide", "expire", "recover", "retry"}, id : {0} \cup Ids,
   approved : BOOLEAN, owner : Nat, inst : 0..Rounds, mine : Nat,
   todo : SUBSET Ids, done : SUBSET Ids]

TypeOK ==
  /\ status \in Active \cup {"completed", "failed", "cancelled"}
  /\ owner \in Nat /\ round \in 1..Rounds
  /\ node \in [inst : 1..Rounds, done : BOOLEAN, by : {0} \cup Ids]
  /\ decided \in [1..Rounds -> {0} \cup Ids]
  /\ exec \in [at : {"none", "running", "parked"}, by : Managers \cup {None}]
  /\ act \in [Managers -> ActState]
  /\ approval \in [Ids -> ApprovalState]
  /\ \A i \in Ids :
       /\ approval[i].lease # None => approval[i].claim
       /\ approval[i].claim => approval[i].status \in {"approved", "rejected"}
  /\ crashes \in 0..MaxCrashes /\ retries \in 0..MaxRetries

\* Every round of the loop goes on with the decision its own approval was
\* given ("Reapplying it would approve the new iteration without its own
\* human decision"), as long as nobody retries the run.
OwnDecision ==
  retries = 0 => \A r \in 1..Rounds : decided[r] # 0 => approval[decided[r]].inst = r

\* An approval is not consumed without effect: once its claim is given up,
\* the wait it is about is over, the loop is past it, or the run has ended
\* for good - whoever applied the decision, recovery and a retry included.
DecisionKept ==
  \A i \in Ids :
    approval[i].status = "approved" /\ ~approval[i].claim /\ status \notin {"completed", "cancelled"}
      => round > approval[i].inst \/ node.done

\* A run none of whose failures was retried does not complete past a
\* rejection, however its executions and the managers interleave.
RejectionStops ==
  status = "completed" /\ retries = 0 => \A i \in Ids : approval[i].status # "rejected"

=============================================================================
