---------------------------- MODULE RunControl ----------------------------
(***************************************************************************)
(* The control protocol of one durable workflow run: who may execute it,   *)
(* who may commit its outcome, and how a run is recovered when a process   *)
(* dies.  The actors are                                                   *)
(*   - client processes (start, retry, cancel, resume after a decision or  *)
(*     an event), each with its own WorkflowExecutor;                      *)
(*   - run managers, which claim pending and stalled runs and create one   *)
(*     isolated process per claim;                                         *)
(*   - workflow workers, which claim stalled runs and resume them in their *)
(*     own process;                                                        *)
(*   - executions: one per call of the executor, with a program counter    *)
(*     that stops at every await, and a concurrent heartbeat.              *)
(* The graph execution itself is one step with a nondeterministic result.  *)
(***************************************************************************)
EXTENDS RunBackend

CONSTANTS
  Clients,     \* client processes
  Cancellers,  \* the clients that may cancel the run
  Resumers,    \* the clients that may deliver a decision or an event
  Isolated,    \* the host of an execution that runs in a process of its own
  Async,       \* TRUE: a live process may sleep through its lease and its
               \* heartbeats; FALSE: only a dead process loses them
  MaxRetries,  \* bound on retries of the run
  MaxFaults    \* bound on process deaths and failed backend calls

ASSUME ControlAssumption ==
  /\ Async \in BOOLEAN
  /\ MaxRetries \in Nat /\ MaxFaults \in Nat
  /\ Cancellers \subseteq Clients /\ Resumers \subseteq Clients
  /\ None \notin WorkerIds /\ Isolated \notin Clients \cup Workers
  /\ Execs \cap Managers = {} /\ Execs \cap Workers = {}
  /\ Managers \cap Workers = {} /\ Clients \cap Workers = {}

VARIABLES
  ex,          \* state of every execution
  controller,  \* activeRunControllers of every process, for this run
  cancelling,  \* clients whose cancellation update has not settled
  mgr,         \* what every manager is doing about the run
  tracked,     \* activeExecutions of every manager, for this run
  retries, faults,
  committer    \* history: the worker id under which the run was completed,
               \* and whether another took the run since that execution read it

controlVars == <<ex, controller, cancelling, mgr, tracked, retries, faults,
                 committer>>
vars == <<backendVars, controlVars>>

Hosts == Clients \cup Workers

Labels == {"idle", "assigned", "retryCas", "reconcile", "resume", "restore", "load",
           "acquire", "admit", "activate", "dag", "completeRead", "completeCas",
           "pauseRead", "pauseCas", "announce", "unlock", "recheck",
           "failRead", "failCas", "catch", "finally", "failExec", "done",
           "crashed"}
MgrLabels == {"idle", "acquire", "recheck", "stall", "assign", "create",
              "failOwned", "failLook", "failClaimed", "release"}

(* What an execution remembers between two awaits.                         *)
ExecState ==
  [pc      : Labels,
   host    : Hosts \cup {Isolated},   \* the process it runs in
   ident   : WorkerIds \cup {None},   \* expectedWorkerId, its fence
   prev    : WorkerIds \cup {None},   \* owner before a retry
   seen    : {"none", "pending", "running"},  \* status read by resume
   stale   : BOOLEAN,                 \* history: the run has been taken since
   token   : BOOLEAN,                 \* lockToken is not null
   abort   : {"no", "cancel", "lock", "owner"}, \* why the controller is aborted:
                            \* cancel, lockLostError or ownershipLostError
   park    : {"no", "manual", "waits", "stuck"}, \* why it parks the run
   parked  : BOOLEAN,                 \* pausedForWaiting
   rethrow : BOOLEAN,                 \* the catch block is about to rethrow
   hb      : {"off", "idle", "extended"}]

Unused ==
  [pc |-> "idle", host |-> Isolated, ident |-> None, prev |-> None,
   seen |-> "none", stale |-> FALSE, token |-> FALSE, abort |-> "no",
   park |-> "no", parked |-> FALSE, rethrow |-> FALSE, hb |-> "off"]

Launched(host, ident, label) ==
  [Unused EXCEPT !.pc = label, !.host = host, !.ident = ident]

(* An execution that is over remembers nothing.                            *)
Ended(label) == [Unused EXCEPT !.pc = label]

Nobody == [ident |-> None, stale |-> FALSE]

MgrState == [pc : MgrLabels, exec : Execs \cup {None},
             stalled : BOOLEAN, phase : {"before", "assigning", "assigned"},
             created : BOOLEAN]
MgrIdle == [pc |-> "idle", exec |-> None, stalled |-> FALSE,
            phase |-> "before", created |-> FALSE]

ExecTypeOK == ex \in [Execs -> ExecState]

MgrTypeOK ==
  /\ mgr \in [Managers -> MgrState]
  /\ \A m \in Managers : mgr[m].pc # "idle" => mgr[m].exec \in Execs

RestTypeOK ==
  /\ controller \in [Hosts -> Execs \cup {None}]
  /\ cancelling \subseteq Clients
  /\ tracked \in [Managers -> Execs \cup {None}]
  /\ retries \in 0..MaxRetries /\ faults \in 0..MaxFaults
  /\ committer \in [ident : WorkerIds \cup {None}, stale : BOOLEAN]

TypeOK == BackendTypeOK /\ ExecTypeOK /\ MgrTypeOK /\ RestTypeOK

Init ==
  /\ status = "none" /\ owner = None
  /\ fresh = TRUE /\ stalledClaim = FALSE
  /\ lock = NoLock /\ lockLive = FALSE
  /\ ex = [e \in Execs |-> Unused]
  /\ controller = [h \in Hosts |-> None]
  /\ cancelling = {}
  /\ mgr = [m \in Managers |-> MgrIdle]
  /\ tracked = [m \in Managers |-> None]
  /\ retries = 0 /\ faults = 0
  /\ committer = Nobody

---------------------------------------------------------------------------
(* Vocabulary                                                              *)

At(e, label) == ex[e].pc = label
Become(e, state) == ex' = [ex EXCEPT ![e] = state]
Goto(e, label) == Become(e, [ex[e] EXCEPT !.pc = label])
Live(e) == ex[e].pc \notin {"idle", "assigned", "done", "crashed"}
Aborted(e) == ex[e].abort # "no"

(* A new worker id: generateId("exec"), never used by anyone before.       *)
FreshId(e) ==
  /\ At(e, "idle") /\ lock # ClaimToken(e)
  /\ \A m \in Managers : mgr[m].exec # e

(* isCurrentExecution: the controller registered last in this process.     *)
IsCurrent(e) == ex[e].host \in Hosts => controller[ex[e].host] = e

(* waitForCancellationUpdate: a local cancel settles first.                *)
CancelSettled(e) == ex[e].host \notin cancelling

(* Where an error ends that leaves the executor: the isolated entry point  *)
(* fails its run, everybody else only logs or reports it.                  *)
Thrown(e) == IF ex[e].host = Isolated
             THEN Launched(Isolated, ex[e].ident, "failExec")
             ELSE Ended("done")
Throw(e) == Become(e, Thrown(e))
Return(e) == Become(e, Ended("done"))

(* The re-reads of a parked run all ask the same question.                 *)
StillParkedHere(e) ==
  /\ status = "waiting" /\ owner = ex[e].ident
  /\ ~Aborted(e) /\ IsCurrent(e)

(* The executions as they are once somebody has taken the run: whatever a  *)
(* live one has read of it is out of date.                                 *)
Superseded == [e \in Execs |-> [ex[e] EXCEPT !.stale = Live(e)]]

(* worker takes the run and execution e runs, or will run, for it.         *)
TakesOwnership(worker, e, host, label) ==
  /\ owner' = worker
  /\ ex' = [Superseded EXCEPT ![e] = Launched(host, worker, label)]

clientSide == <<controller, cancelling>>
managerSide == <<mgr, tracked>>
bounds == <<retries, faults>>

---------------------------------------------------------------------------
(* Client operations                                                       *)

(* WorkflowExecutor.start: the run is created pending and already owned by *)
(* the execution this process is about to run.                             *)
Start(c, e) ==
  /\ status = "none" /\ FreshId(e)
  /\ StoreStatus("pending")
  /\ TakesOwnership(e, e, c, "load")
  /\ UNCHANGED <<fresh, lock, lockLive, clientSide, managerSide, bounds, committer>>

(* A decision or an event was reconciled onto the run of the owner just    *)
(* read; the same process now resumes the run under that owner's id.       *)
ResumeReconciled(c, e) ==
  /\ c \in Resumers
  /\ status \in Active /\ FreshId(e)
  /\ Become(e, Launched(c, owner, "resume"))
  /\ UNCHANGED <<backendVars, clientSide, managerSide, bounds, committer>>

(* A rejected approval is reconciled: the same patch fails the run of the   *)
(* owner just read, whatever its executions are doing.                     *)
Reject(c) ==
  /\ c \in Resumers
  /\ status \in Active
  /\ StoreStatus("failed")
  /\ UNCHANGED <<owner, fresh, lock, lockLive, ex, clientSide, managerSide, bounds, committer>>

(* WorkflowExecutor.retry reads the failed run, and reopens it later if it *)
(* is still failed, whoever owned it meanwhile.                            *)
RetryRead(c, e) ==
  /\ status = "failed" /\ FreshId(e) /\ retries < MaxRetries
  /\ retries' = retries + 1
  /\ Become(e, [Launched(c, e, "retryCas") EXCEPT !.prev = owner])
  /\ UNCHANGED <<backendVars, clientSide, managerSide, faults, committer>>

RetryCas(e) ==
  /\ At(e, "retryCas")
  /\ IF Matches({"failed"}, None)
     THEN /\ StoreStatus("pending")
          /\ owner' = e
          /\ fresh' \in BOOLEAN   \* heartbeatAt is cleared: startedAt counts
          /\ ex' = [Superseded EXCEPT ![e] = [ex[e] EXCEPT !.pc = "reconcile"]]
     ELSE Return(e) /\ UNCHANGED <<status, stalledClaim, owner, fresh>>
  /\ UNCHANGED <<lock, lockLive, clientSide, managerSide, bounds, committer>>

(* The approval claims left over from the failed attempt were applied.     *)
RetryReconciled(e) ==
  /\ At(e, "reconcile")
  /\ IF status = "pending"
     THEN Become(e, [ex[e] EXCEPT !.pc = "load", !.prev = None])
     ELSE Return(e)
  /\ UNCHANGED <<backendVars, clientSide, managerSide, bounds, committer>>

(* They could not be applied: the failed snapshot is put back, its old     *)
(* owner included, unless somebody took the run meanwhile.                 *)
RetryRollback(e) ==
  /\ At(e, "reconcile")
  /\ Return(e)
  /\ IF Matches({"pending"}, e)
     THEN StoreStatus("failed") /\ owner' = ex[e].prev
     ELSE UNCHANGED <<status, owner, stalledClaim>>
  /\ UNCHANGED <<fresh, lock, lockLive, clientSide, managerSide, bounds, committer>>

(* WorkflowExecutor.cancel: the local execution is aborted at once, the    *)
(* record follows when the conditional update settles.                     *)
CancelBegin(c) ==
  /\ c \in Cancellers \ cancelling
  /\ status \in Active
  /\ cancelling' = cancelling \cup {c}
  /\ ex' = [e \in Execs |->
              IF controller[c] = e /\ ~Aborted(e)
              THEN [ex[e] EXCEPT !.abort = "cancel"] ELSE ex[e]]
  /\ UNCHANGED <<backendVars, controller, managerSide, bounds, committer>>

\* Seeded fault: the update does not expect an active status.
CancelCommitUnconditional(c) ==
  /\ c \in cancelling
  /\ cancelling' = cancelling \ {c}
  /\ StoreStatus("cancelled")
  /\ UNCHANGED <<owner, fresh, lock, lockLive, ex, controller, managerSide, bounds, committer>>

(* A rejected update throws where an execution of this process awaits it:  *)
(* before a commit into the catch block, in the catch block out of it,     *)
(* leaving the record as it is.                                            *)
AwaitsUpdate(e, c) ==
  /\ ex[e].host = c
  /\ \/ ex[e].pc \in {"completeRead", "pauseRead", "failRead"}
     \/ At(e, "catch") /\ ex[e].abort \notin {"lock", "owner"}

UpdateThrows(e) ==
  LET inCatch == At(e, "catch") \/ ex[e].rethrow
  IN  [ex[e] EXCEPT !.pc = IF inCatch THEN "finally" ELSE "catch", !.rethrow = inCatch]

UpdateRejects(c) ==
  \E S \in SUBSET {e \in Execs : AwaitsUpdate(e, c)} :
    ex' = [e \in Execs |-> IF e \in S THEN UpdateThrows(e) ELSE ex[e]]

CancelCommit(c) ==
  /\ c \in cancelling
  /\ cancelling' = cancelling \ {c}
  /\ IF Matches(Active, None)
     THEN StoreStatus("cancelled") /\ UNCHANGED ex
     ELSE UpdateRejects(c) /\ UNCHANGED <<status, stalledClaim>>
  /\ UNCHANGED <<owner, fresh, lock, lockLive, controller, managerSide, bounds, committer>>

(* The backend fails the update: the run stays as it is, its execution in  *)
(* this process stays aborted.                                             *)
CancelRejected(c) ==
  /\ c \in cancelling /\ faults < MaxFaults
  /\ cancelling' = cancelling \ {c}
  /\ UpdateRejects(c)
  /\ faults' = faults + 1
  /\ UNCHANGED <<backendVars, controller, managerSide, retries, committer>>

---------------------------------------------------------------------------
(* An execution: from the call of resume to the graph                      *)

(* WorkflowExecutor.resume and resumeRun up to the checkpoint lookup.      *)
Resume(e) ==
  /\ At(e, "resume")
  /\ \/ /\ owner = ex[e].ident /\ status \in Active
        /\ \/ Goto(e, "load")
           \/ /\ status # "waiting"
              /\ Become(e, [ex[e] EXCEPT !.pc = "restore", !.seen = status])
     \/ /\ owner # ex[e].ident \/ status \notin Active
        /\ Throw(e)
  /\ UNCHANGED <<backendVars, clientSide, managerSide, bounds, committer>>

(* restoreRunStateIfStatus with the snapshot of the latest checkpoint.     *)
Restore(e) ==
  /\ At(e, "restore")
  /\ IF Matches({ex[e].seen}, ex[e].ident)
     THEN /\ StoreStatus("running")
          /\ Become(e, [ex[e] EXCEPT !.pc = "load", !.seen = "none"])
     ELSE Throw(e) /\ UNCHANGED <<status, stalledClaim>>
  /\ UNCHANGED <<owner, fresh, lock, lockLive, clientSide, managerSide, bounds, committer>>

(* executeAsync reads the run it is going to execute.                      *)
Load(e) ==
  /\ At(e, "load")
  /\ IF owner = ex[e].ident
     THEN Become(e, [ex[e] EXCEPT !.pc = "acquire", !.stale = FALSE])
     ELSE Throw(e)
  /\ UNCHANGED <<backendVars, clientSide, managerSide, bounds, committer>>

(* acquireLock, then registerController in the same turn.                  *)
Acquire(e) ==
  /\ At(e, "acquire")
  /\ \/ /\ AcquireLock(ExecToken(e))
        /\ Become(e, [ex[e] EXCEPT !.pc = "admit", !.token = TRUE])
        /\ controller' = [h \in Hosts |-> IF h = ex[e].host THEN e ELSE controller[h]]
     \/ /\ ~LockFree
        /\ Throw(e)
        /\ UNCHANGED <<lock, lockLive, controller>>
  /\ UNCHANGED <<status, owner, fresh, stalledClaim, cancelling, managerSide, bounds, committer>>

Admit(e) ==
  /\ At(e, "admit")
  /\ Goto(e, IF status = "cancelled" \/ Aborted(e) \/ ~IsCurrent(e)
             THEN "finally" ELSE "activate")
  /\ UNCHANGED <<backendVars, clientSide, managerSide, bounds, committer>>

(* The fenced transition to running; it starts the heartbeat.              *)
Activate(e) ==
  /\ At(e, "activate")
  /\ IF Matches(Active, ex[e].ident)
     THEN /\ StoreStatus("running")
          /\ fresh' = TRUE
          /\ Become(e, [ex[e] EXCEPT !.pc = "dag", !.hb = "idle"])
     ELSE Goto(e, "catch") /\ UNCHANGED <<status, stalledClaim, fresh>>
  /\ UNCHANGED <<owner, lock, lockLive, clientSide, managerSide, bounds, committer>>

(* The graph returns (completed, failed, parked on waits, stuck behind a   *)
(* parked wait, paused on request) or throws; an abort always throws.      *)
DagSettles(e) ==
  /\ At(e, "dag")
  /\ \/ /\ ~Aborted(e)
        /\ \/ \E label \in {"completeRead", "failRead", "catch"} : Goto(e, label)
           \/ \E why \in {"manual", "waits", "stuck"} :
                Become(e, [ex[e] EXCEPT !.pc = "pauseRead", !.park = why])
     \/ Aborted(e) /\ Goto(e, "catch")
  /\ UNCHANGED <<backendVars, clientSide, managerSide, bounds, committer>>

---------------------------------------------------------------------------
(* An execution: committing the result                                     *)

(* completeRun and pauseRun re-read the run before they write.             *)
CommitRead(e, from, to) ==
  /\ At(e, from) /\ CancelSettled(e)
  /\ Goto(e, IF status = "cancelled" \/ Aborted(e) \/ ~IsCurrent(e)
             THEN "finally" ELSE to)
  /\ UNCHANGED <<backendVars, clientSide, managerSide, bounds, committer>>

CompleteRead(e) == CommitRead(e, "completeRead", "completeCas")

\* Seeded fault: the update does not expect the worker id.
CompleteCasUnfenced(e) ==
  /\ At(e, "completeCas")
  /\ Goto(e, "finally")
  /\ IF Matches({"running"}, None)
     THEN /\ StoreStatus("completed")
          /\ committer' = [ident |-> ex[e].ident, stale |-> ex[e].stale]
     ELSE UNCHANGED <<status, stalledClaim, committer>>
  /\ UNCHANGED <<owner, fresh, lock, lockLive, clientSide, managerSide, bounds>>

CompleteCas(e) ==
  /\ At(e, "completeCas")
  /\ IF Matches({"running"}, ex[e].ident)
     THEN /\ StoreStatus("completed")
          /\ committer' = [ident |-> ex[e].ident, stale |-> ex[e].stale]
          /\ \E label \in {"finally", "catch"} : Goto(e, label)   \* onComplete may throw
     ELSE Goto(e, "finally") /\ UNCHANGED <<status, stalledClaim, committer>>
  /\ UNCHANGED <<owner, fresh, lock, lockLive, clientSide, managerSide, bounds>>

PauseRead(e) == CommitRead(e, "pauseRead", "pauseCas")

\* Seeded fault: a status that no reader of the run knows.
PauseCasUnknownStatus(e) ==
  /\ At(e, "pauseCas")
  /\ Goto(e, "finally")
  /\ IF Matches({"running"}, ex[e].ident)
     THEN StoreStatus("paused") ELSE UNCHANGED <<status, stalledClaim>>
  /\ UNCHANGED <<owner, fresh, lock, lockLive, clientSide, managerSide, bounds, committer>>

PauseCas(e) ==
  /\ At(e, "pauseCas")
  /\ IF Matches({"running"}, ex[e].ident)
     THEN /\ StoreStatus("waiting")
          /\ Become(e, [ex[e] EXCEPT !.parked = TRUE,
                      !.pc = IF ex[e].park = "manual" THEN "unlock" ELSE "announce"])
     ELSE Goto(e, "finally") /\ UNCHANGED <<status, stalledClaim>>
  /\ UNCHANGED <<owner, fresh, lock, lockLive, clientSide, managerSide, bounds, committer>>

(* The durable wait records are written under the lock; writing one may    *)
(* throw.                                                                  *)
Announce(e) ==
  /\ At(e, "announce")
  /\ \E label \in IF StillParkedHere(e) THEN {"unlock", "catch"} ELSE {"finally"} :
       Goto(e, label)
  /\ UNCHANGED <<backendVars, clientSide, managerSide, bounds, committer>>

(* releaseWaitingLock: stop the heartbeat, wait for the one in flight.     *)
Unlock(e) ==
  /\ At(e, "unlock") /\ ex[e].hb # "extended"
  /\ IF Aborted(e)
     THEN /\ Become(e, [ex[e] EXCEPT !.pc = "catch", !.hb = "off"])
          /\ UNCHANGED <<lock, lockLive>>
     ELSE /\ Become(e, [ex[e] EXCEPT !.pc = "recheck", !.hb = "off", !.token = FALSE])
          /\ ReleaseLock(ExecToken(e))
  /\ UNCHANGED <<status, owner, fresh, stalledClaim, clientSide, managerSide, bounds, committer>>

(* After the release the run is read again.  An execution stuck behind a   *)
(* wait with no durable record then fails the run, without the lock; so    *)
(* does one whose waiting hooks throw.                                     *)
Recheck(e) ==
  /\ At(e, "recheck")
  /\ \E label \in {"finally", "catch", "failRead"} :
       /\ label = "catch" => StillParkedHere(e) /\ ex[e].park # "manual"
       /\ label = "failRead" => StillParkedHere(e) /\ ex[e].park = "stuck"
       /\ Goto(e, label)
  /\ UNCHANGED <<backendVars, clientSide, managerSide, bounds, committer>>

(* The catch block: a lost lock or a lost ownership leaves the record to   *)
(* the new owner; a cancelled run is left alone; anything else fails it.   *)
Catch(e) ==
  /\ At(e, "catch")
  /\ \/ /\ ex[e].abort \in {"lock", "owner"}
        /\ Become(e, [ex[e] EXCEPT !.pc = "finally", !.rethrow = TRUE])
     \/ /\ ex[e].abort \notin {"lock", "owner"} /\ CancelSettled(e)
        /\ IF status = "cancelled"
           THEN Goto(e, "finally")
           ELSE Become(e, [ex[e] EXCEPT !.pc = "failRead", !.rethrow = TRUE])
  /\ UNCHANGED <<backendVars, clientSide, managerSide, bounds, committer>>

(* failRun.  When it does not commit, the error is swallowed as well.      *)
FailRead(e) ==
  /\ At(e, "failRead") /\ CancelSettled(e)
  /\ IF status = "cancelled" \/ ~IsCurrent(e)
     THEN Become(e, [ex[e] EXCEPT !.pc = "finally", !.rethrow = FALSE])
     ELSE Goto(e, "failCas")
  /\ UNCHANGED <<backendVars, clientSide, managerSide, bounds, committer>>

FailCas(e) ==
  /\ At(e, "failCas")
  /\ IF Matches(IF ex[e].parked THEN {"waiting"} ELSE {"running"}, ex[e].ident)
     THEN /\ StoreStatus("failed")
          /\ \/ Goto(e, "finally")
             \/ ~ex[e].rethrow /\ Goto(e, "catch")   \* onError may throw
     ELSE /\ Become(e, [ex[e] EXCEPT !.pc = "finally", !.rethrow = FALSE])
          /\ UNCHANGED <<status, stalledClaim>>
  /\ UNCHANGED <<owner, fresh, lock, lockLive, clientSide, managerSide, bounds, committer>>

(* The finally block.  A heartbeat in flight is awaited; after an abort    *)
(* only for the grace period.  A lost lock is not released.                *)
Finally(e) ==
  /\ At(e, "finally") /\ (ex[e].hb # "extended" \/ Aborted(e))
  /\ IF ex[e].rethrow THEN Throw(e) ELSE Return(e)
  /\ controller' = [h \in Hosts |-> IF controller[h] = e THEN None ELSE controller[h]]
  /\ IF ex[e].token /\ ex[e].abort # "lock"
     THEN ReleaseLock(ExecToken(e))
     ELSE UNCHANGED <<lock, lockLive>>
  /\ UNCHANGED <<status, owner, fresh, stalledClaim, cancelling, managerSide, bounds, committer>>

(* failRunExecution of the isolated entry point.                           *)
FailExec(e) ==
  /\ At(e, "failExec")
  /\ Return(e)
  /\ IF Matches({"pending", "running"}, ex[e].ident)
     THEN StoreStatus("failed")
     ELSE UNCHANGED <<status, stalledClaim>>
  /\ UNCHANGED <<owner, fresh, lock, lockLive, clientSide, managerSide, bounds, committer>>

---------------------------------------------------------------------------
(* The heartbeat of an execution: renew the lock, then the heartbeat.      *)

Beating(e) ==   \* the interval has fired and was not cleared
  /\ Live(e) /\ ex[e].pc \notin {"unlock", "finally"}
  /\ ~Aborted(e) /\ IsCurrent(e)

HeartbeatExtend(e) ==
  /\ Beating(e) /\ ex[e].hb = "idle"
  /\ IF CanExtendLock(ExecToken(e))
     THEN Become(e, [ex[e] EXCEPT !.hb = "extended"])
     ELSE Become(e, [ex[e] EXCEPT !.hb = "off", !.abort = "lock"])
  /\ UNCHANGED <<backendVars, clientSide, managerSide, bounds, committer>>

HeartbeatWrite(e) ==
  /\ Live(e) /\ ex[e].hb = "extended"
  /\ IF Aborted(e) \/ ~IsCurrent(e)
     THEN Become(e, [ex[e] EXCEPT !.hb = "idle"]) /\ UNCHANGED fresh
     ELSE IF Matches({"running", "waiting"}, ex[e].ident)
          THEN Become(e, [ex[e] EXCEPT !.hb = "idle"]) /\ fresh' = TRUE
          ELSE /\ Become(e, [ex[e] EXCEPT !.hb = "off", !.abort = "owner"])
               /\ UNCHANGED fresh
  /\ UNCHANGED <<status, owner, stalledClaim, lock, lockLive,
                 clientSide, managerSide, bounds, committer>>

(* The backend rejects the renewal or the ownership check: the execution   *)
(* gives up although it may still hold the lock and own the run.           *)
HeartbeatFails(e) ==
  /\ Beating(e) /\ ex[e].hb # "off" /\ faults < MaxFaults
  /\ faults' = faults + 1
  /\ Become(e, [ex[e] EXCEPT !.hb = "off",
              !.abort = IF ex[e].hb = "idle" THEN "lock" ELSE "owner"])
  /\ UNCHANGED <<backendVars, clientSide, managerSide, retries, committer>>

---------------------------------------------------------------------------
(* Run managers                                                            *)

MgrAt(m, label) == mgr[m].pc = label
MgrBecome(m, state) == mgr' = [mgr EXCEPT ![m] = state]
MgrGoto(m, label) == MgrBecome(m, [mgr[m] EXCEPT !.pc = label])
MgrWorkerId(m) == IF mgr[m].stalled THEN m ELSE None   \* managerClaimWorkerId

(* poll lists the run as pending or as stalled; a run with an execution of *)
(* this manager is skipped.                                                *)
PollWhen(m, found) ==
  /\ MgrAt(m, "idle") /\ tracked[m] = None
  /\ found
  /\ \E e \in Execs :
       /\ FreshId(e)
       /\ MgrBecome(m, [MgrIdle EXCEPT !.pc = IF Stalled THEN "stall" ELSE "acquire",
                                       !.exec = e, !.stalled = Stalled])
  /\ UNCHANGED <<backendVars, ex, clientSide, tracked, bounds, committer>>

\* Seeded fault: stalled runs are not listed.
MgrPollPendingOnly(m) == PollWhen(m, status = "pending")

MgrPoll(m) == PollWhen(m, status = "pending" \/ Stalled)

(* A pending run is claimed under the run's lock ...                       *)
MgrAcquire(m) ==
  /\ MgrAt(m, "acquire")
  /\ \/ AcquireLock(ClaimToken(mgr[m].exec)) /\ MgrGoto(m, "recheck")
     \/ /\ ~LockFree
        /\ MgrBecome(m, MgrIdle)
        /\ UNCHANGED <<lock, lockLive>>
  /\ UNCHANGED <<status, owner, fresh, stalledClaim, ex, clientSide, tracked, bounds, committer>>

MgrRecheck(m) ==
  /\ MgrAt(m, "recheck")
  /\ MgrGoto(m, IF status = "pending" THEN "assign" ELSE "release")
  /\ UNCHANGED <<backendVars, ex, clientSide, tracked, bounds, committer>>

(* ... and a stalled one by claimStalledRun, without the lock.             *)
MgrClaimStalled(m) ==
  /\ MgrAt(m, "stall")
  /\ \/ /\ ClaimStalledRun(m)
        /\ ex' = Superseded
        /\ MgrGoto(m, "assign")
     \/ /\ ~Stalled \/ stalledClaim
        /\ MgrBecome(m, MgrIdle)
        /\ UNCHANGED <<backendVars, ex>>
  /\ UNCHANGED <<clientSide, tracked, bounds, committer>>

(* The conditional update that makes the new execution the owner.          *)
AssignOwner(m) ==
  /\ Matches({IF mgr[m].stalled THEN "running" ELSE "pending"}, MgrWorkerId(m))
  /\ StoreStatus("running")
  /\ fresh' = TRUE
  /\ TakesOwnership(mgr[m].exec, mgr[m].exec, Isolated, "assigned")

MgrAssign(m) ==
  /\ MgrAt(m, "assign")
  /\ \/ AssignOwner(m) /\ MgrBecome(m, [mgr[m] EXCEPT !.pc = "create", !.phase = "assigned"])
     \/ /\ ~Matches({IF mgr[m].stalled THEN "running" ELSE "pending"}, MgrWorkerId(m))
        /\ MgrGoto(m, "release")
        /\ UNCHANGED <<status, owner, fresh, stalledClaim, ex>>
  /\ UNCHANGED <<lock, lockLive, clientSide, tracked, bounds, committer>>

(* The update is rejected by the backend, after or without being applied.  *)
MgrAssignRejected(m) ==
  /\ MgrAt(m, "assign") /\ faults < MaxFaults
  /\ faults' = faults + 1
  /\ MgrBecome(m, [mgr[m] EXCEPT !.pc = "failOwned", !.phase = "assigning"])
  /\ AssignOwner(m) \/ UNCHANGED <<status, owner, fresh, stalledClaim, ex>>
  /\ UNCHANGED <<lock, lockLive, clientSide, tracked, retries, committer>>

(* createRunExecution starts the isolated process, or fails to.            *)
MgrCreate(m) ==
  /\ MgrAt(m, "create")
  /\ Goto(mgr[m].exec, "resume")
  /\ MgrBecome(m, [mgr[m] EXCEPT !.pc = "release", !.created = TRUE])
  /\ UNCHANGED <<backendVars, clientSide, tracked, bounds, committer>>

MgrCreateFails(m) ==
  /\ MgrAt(m, "create")
  /\ MgrGoto(m, "failOwned")
  /\ UNCHANGED <<backendVars, ex, clientSide, tracked, bounds, committer>>

(* failClaim: nothing is left to fail when the assignment was applied, the *)
(* run has ended, or somebody else owns it.                                *)
ClaimSettled(m) ==
  \/ mgr[m].phase = "assigned"
  \/ status \notin Active
  \/ owner # None /\ owner # MgrWorkerId(m)

(* failClaim fails the run if the new execution owns it; if the assignment *)
(* may not have been applied, it goes on as long as nobody else owns it.   *)
MgrFailOwned(m) ==
  /\ MgrAt(m, "failOwned")
  /\ IF Matches(Active, mgr[m].exec)
     THEN StoreStatus("failed") /\ MgrGoto(m, "release")
     ELSE MgrGoto(m, "failLook") /\ UNCHANGED <<status, stalledClaim>>
  /\ UNCHANGED <<owner, fresh, lock, lockLive, ex, clientSide, tracked, bounds, committer>>

MgrFailLook(m) ==
  /\ MgrAt(m, "failLook")
  /\ MgrGoto(m, IF ClaimSettled(m) THEN "release" ELSE "failClaimed")
  /\ UNCHANGED <<backendVars, ex, clientSide, tracked, bounds, committer>>

MgrFailClaimed(m) ==
  /\ MgrAt(m, "failClaimed")
  /\ MgrGoto(m, "release")
  /\ IF Matches(Active, MgrWorkerId(m))
     THEN StoreStatus("failed")
     ELSE UNCHANGED <<status, stalledClaim>>
  /\ UNCHANGED <<owner, fresh, lock, lockLive, ex, clientSide, tracked, bounds, committer>>

(* The finally block of the claim, then the bookkeeping of its outcome.    *)
MgrRelease(m) ==
  /\ MgrAt(m, "release")
  /\ IF mgr[m].stalled
     THEN UNCHANGED <<lock, lockLive>>
     ELSE ReleaseLock(ClaimToken(mgr[m].exec))
  /\ tracked' = [tracked EXCEPT ![m] = IF mgr[m].created THEN mgr[m].exec ELSE None]
  /\ MgrBecome(m, MgrIdle)
  /\ UNCHANGED <<status, owner, fresh, stalledClaim, ex, clientSide, bounds, committer>>

(* syncRunExecutionStatuses: the process is gone, its slot is free again.  *)
MgrSync(m) ==
  /\ MgrAt(m, "idle") /\ tracked[m] # None
  /\ ~Live(tracked[m])
  /\ tracked' = [tracked EXCEPT ![m] = None]
  /\ UNCHANGED <<backendVars, ex, clientSide, mgr, bounds, committer>>

---------------------------------------------------------------------------
(* Workflow workers: claim a stalled run, resume it in this process under  *)
(* the worker's own id.  activeResumes holds one resume of a run at most.  *)
WorkerClaim(w, e) ==
  /\ FreshId(e)
  /\ \A x \in Execs : Live(x) => ex[x].host # w
  /\ ClaimStalledRun(w)
  /\ TakesOwnership(w, e, w, "resume")
  /\ UNCHANGED <<clientSide, managerSide, bounds, committer>>

---------------------------------------------------------------------------
(* Process deaths.  The store keeps whatever was written.                  *)

CrashIsolated(e) ==
  /\ Live(e) /\ ex[e].host = Isolated /\ faults < MaxFaults
  /\ Become(e, Ended("crashed"))
  /\ faults' = faults + 1
  /\ UNCHANGED <<backendVars, clientSide, managerSide, retries, committer>>

CrashHost(h) ==
  /\ faults < MaxFaults
  /\ \E e \in Execs : Live(e) /\ ex[e].host = h
  /\ ex' = [e \in Execs |-> IF Live(e) /\ ex[e].host = h
                            THEN Ended("crashed") ELSE ex[e]]
  /\ controller' = [controller EXCEPT ![h] = None]
  /\ cancelling' = cancelling \ {h}
  /\ faults' = faults + 1
  /\ UNCHANGED <<backendVars, managerSide, retries, committer>>

CrashManager(m) ==
  /\ faults < MaxFaults
  /\ ~MgrAt(m, "idle") \/ tracked[m] # None
  /\ MgrBecome(m, MgrIdle)
  /\ tracked' = [tracked EXCEPT ![m] = None]
  /\ faults' = faults + 1
  /\ UNCHANGED <<backendVars, ex, clientSide, retries, committer>>

---------------------------------------------------------------------------
(* Time.  With Async = FALSE a live holder renews in time, a live owner    *)
(* keeps its heartbeat fresh, and the stalled threshold (60 s) outlasts    *)
(* the lock (30 s): a heartbeat is stale only when the lock is gone.       *)

HolderAlive ==
  \/ \E e \in Execs : lock = ExecToken(e) /\ Live(e)
  \/ \E m \in Managers : ~MgrAt(m, "idle") /\ lock = ClaimToken(mgr[m].exec)

OwnerAlive ==
  \/ \E e \in Execs : Live(e) /\ ex[e].ident = owner
  \/ \E m \in Managers : ~MgrAt(m, "idle") /\ owner \in {m, mgr[m].exec}

LockExpires ==
  /\ lock # NoLock /\ lockLive
  /\ Async \/ ~HolderAlive
  /\ lockLive' = FALSE
  /\ UNCHANGED <<status, owner, fresh, stalledClaim, lock, controlVars>>

HeartbeatAges ==
  /\ status = "running" /\ fresh
  /\ Async \/ (~OwnerAlive /\ LockFree)
  /\ fresh' = FALSE
  /\ UNCHANGED <<status, owner, stalledClaim, lock, lockLive, controlVars>>

StalledClaimExpires ==
  /\ stalledClaim
  /\ stalledClaim' = FALSE
  /\ UNCHANGED <<status, owner, fresh, lock, lockLive, controlVars>>

---------------------------------------------------------------------------
ClientStep ==
  \E c \in Clients :
    \/ \E e \in Execs : Start(c, e) \/ ResumeReconciled(c, e) \/ RetryRead(c, e)
    \/ Reject(c) \/ CancelBegin(c) \/ CancelCommit(c) \/ CancelRejected(c)

ExecStep(e) ==
  \/ RetryCas(e) \/ RetryReconciled(e) \/ RetryRollback(e)
  \/ Resume(e) \/ Restore(e) \/ Load(e) \/ Acquire(e) \/ Admit(e) \/ Activate(e)
  \/ DagSettles(e) \/ CompleteRead(e) \/ CompleteCas(e) \/ PauseRead(e) \/ PauseCas(e)
  \/ Announce(e) \/ Unlock(e) \/ Recheck(e)
  \/ Catch(e) \/ FailRead(e) \/ FailCas(e) \/ Finally(e) \/ FailExec(e)

HeartbeatStep(e) == HeartbeatExtend(e) \/ HeartbeatWrite(e) \/ HeartbeatFails(e)

ManagerStep(m) ==
  \/ MgrPoll(m) \/ MgrAcquire(m) \/ MgrRecheck(m) \/ MgrClaimStalled(m)
  \/ MgrAssign(m) \/ MgrAssignRejected(m) \/ MgrCreate(m) \/ MgrCreateFails(m)
  \/ MgrFailOwned(m) \/ MgrFailLook(m) \/ MgrFailClaimed(m) \/ MgrRelease(m) \/ MgrSync(m)

CrashStep ==
  \/ \E e \in Execs : CrashIsolated(e)
  \/ \E h \in Hosts : CrashHost(h)
  \/ \E m \in Managers : CrashManager(m)

TimeStep == LockExpires \/ HeartbeatAges \/ StalledClaimExpires

Next ==
  \/ ClientStep
  \/ \E e \in Execs : ExecStep(e) \/ HeartbeatStep(e)
  \/ \E m \in Managers : ManagerStep(m)
  \/ \E w \in Workers, e \in Execs : WorkerClaim(w, e)
  \/ CrashStep
  \/ TimeStep

Spec == Init /\ [][Next]_vars

---------------------------------------------------------------------------
(* Safety                                                                  *)

(* An execution from its activation to its commit, and to its unlocking.   *)
Working(e) == ex[e].pc \in {"dag", "completeRead", "completeCas", "pauseRead", "pauseCas"}
Activated(e) == Working(e) \/ ex[e].pc \in {"announce", "unlock"}

(* The fence holds however late a process wakes up: the execution that     *)
(* completes a run is never one from which the run was taken in between.   *)
(* (A workflow worker and a manager keep one id for all their claims.)     *)
FencedCompletion == committer.ident \in Execs => ~committer.stale

(* A live lock leaves the store only when the execution or the claim that  *)
(* took it lets it go: a late release never drops a successor's lock.      *)
LockRespectsHolder ==
  [][lockLive /\ lock' # lock =>
       \/ \E e \in Execs : lock = ExecToken(e) /\ ex[e].token /\ ~ex'[e].token
       \/ \E m \in Managers : lock = ClaimToken(mgr[m].exec) /\ MgrAt(m, "release")]_vars

(* While leases and heartbeats are renewed in time, whoever executes the   *)
(* run holds its lock: no two executions are ever active together.         *)
SoleExecution ==
  \A e \in Execs : Activated(e) => lock = ExecToken(e) /\ lockLive

(* ... and an unfinished run is never taken from an owner with an execution *)
(* at work, except the id a manager holds for the moment between claiming  *)
(* a stalled run and assigning it.                                         *)
NotDisowned ==
  [][owner' # owner /\ status \in Active /\ owner \notin Managers =>
       ~\E e \in Execs : Working(e) /\ ex[e].ident = owner]_vars

Lifecycle == INSTANCE RunLifecycle WITH
  Ids <- WorkerIds, LongLived <- Workers \cup Managers, Absent <- None, completion <- committer

(* The control protocol implements the lifecycle it promises.              *)
ImplementsLifecycle == Lifecycle!Spec

---------------------------------------------------------------------------
(* Liveness, for renewals in time (Async = FALSE) and finitely many faults. *)

(* A live process goes on, its timers fire, an unrenewed lease runs out, a *)
(* manager keeps polling.  No client has to call anything, and the graph   *)
(* is assumed to settle.                                                   *)
Fairness ==
  /\ \A e \in Execs : WF_vars(ExecStep(e)) /\ WF_vars(HeartbeatWrite(e))
  /\ \A c \in Clients : WF_vars(CancelCommit(c))
  /\ \A m \in Managers : WF_vars(ManagerStep(m))
  /\ WF_vars(LockExpires) /\ WF_vars(HeartbeatAges) /\ WF_vars(StalledClaimExpires)

LiveSpec == Spec /\ Fairness

(* Whatever process dies at whatever step, a run that is pending or        *)
(* running gets a result or parks: some manager takes it over.             *)
RunSettles ==
  status \in {"pending", "running"} ~> status \in Terminal \cup {"waiting"}

(* The lock of a dead or aborted execution does not outlive it for ever.   *)
LockComesFree == lock # NoLock ~> LockFree

===========================================================================
