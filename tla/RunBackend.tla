---------------------------- MODULE RunBackend ----------------------------
(***************************************************************************)
(* The durable store of ONE workflow run, as every actor of the workflow   *)
(* runtime sees it: the run record (only the fields the control protocol   *)
(* reads), the execution lock and the stalled-run claim.  Every operator   *)
(* below is one atomic call of the backend; the actors in RunControl       *)
(* interleave between these calls, never inside one.                       *)
(*                                                                         *)
(* Clocks are abstracted to what the code asks of them: an unexpired lock  *)
(* (lockLive), a heartbeat younger than the stalled threshold (fresh) and  *)
(* an unexpired stalled claim (stalledClaim).                              *)
(***************************************************************************)
EXTENDS Naturals, FiniteSets

CONSTANTS
  Execs,      \* executions; e is also the worker id run-execution:<e>
  Managers,   \* run managers; m is also the worker id mgr:<m>
  Workers,    \* workflow workers, each with one worker id for its lifetime
  None        \* undefined: no worker id, no expected worker, no execution

VARIABLES
  status,        \* run.status; "none" before createRun
  owner,         \* run.workerId
  fresh,         \* now - run.heartbeatAt < stalledThreshold
  stalledClaim,  \* stalledClaims holds an unexpired entry for the run
  lock,          \* the lockId stored for the run, or NoLock
  lockLive       \* the stored lock has not expired

backendVars == <<status, owner, fresh, stalledClaim, lock, lockLive>>

Active   == {"pending", "running", "waiting"}
Terminal == {"completed", "failed", "cancelled"}
Statuses == Active \cup Terminal \cup {"none"}

WorkerIds == Execs \cup Managers \cup Workers

(* Lock tokens are fresh UUIDs.  A manager locks at most once for each     *)
(* execution id it assigns and an execution locks at most once, so the     *)
(* kind and the execution id name a token.                                 *)
ClaimToken(e) == <<"claim", e>>
ExecToken(e)  == <<"exec", e>>
Tokens        == {"claim", "exec"} \X Execs
NoLock        == <<>>

BackendTypeOK ==
  /\ status \in Statuses
  /\ owner \in WorkerIds \cup {None}
  /\ fresh \in BOOLEAN /\ stalledClaim \in BOOLEAN
  /\ lock \in Tokens \cup {NoLock} /\ lockLive \in BOOLEAN

---------------------------------------------------------------------------
(* Conditional updates.  An undefined expected worker (None) does not   *)
(* constrain the owner.                                                    *)
Matches(expectedStatuses, expectedWorker) ==
  /\ status \in expectedStatuses
  /\ expectedWorker = None \/ owner = expectedWorker

(* Storing a status other than "running" drops the stalled claim.          *)
StoreStatus(s) ==
  /\ status' = s
  /\ stalledClaim' = (stalledClaim /\ s = "running")

---------------------------------------------------------------------------
(* The lock: a lease that one token holds until it is released or expires. *)
\* Seeded fault: the expiry of a stored lock is never looked at.
LockFreeUnexpiring == lock = NoLock

LockFree == lock = NoLock \/ ~lockLive

\* Seeded fault: a lock that is held is overwritten.
AcquireLockAlways(token) == lock' = token /\ lockLive' = TRUE

AcquireLock(token) ==
  /\ LockFree
  /\ lock' = token
  /\ lockLive' = TRUE

\* Seeded fault: delete without comparing the token.
ReleaseLockAlways(token) == lock' = NoLock /\ lockLive' = FALSE

(* Compare and delete: releasing with a token that no longer owns the lock *)
(* leaves the present lock alone.                                          *)
ReleaseLock(token) ==
  IF lock = token
  THEN lock' = NoLock /\ lockLive' = FALSE
  ELSE UNCHANGED <<lock, lockLive>>

CanExtendLock(token) == lock = token /\ lockLive

---------------------------------------------------------------------------
(* Stalled-run recovery: only a running run whose heartbeat is too old.    *)
\* Seeded fault: the age of the heartbeat is not compared with the threshold.
StalledAtAnyAge == status = "running"

Stalled == status = "running" /\ ~fresh

ClaimStalledRun(worker) ==
  /\ Stalled
  /\ ~stalledClaim
  /\ stalledClaim' = TRUE
  /\ owner' = worker
  /\ fresh' = TRUE
  /\ UNCHANGED <<status, lock, lockLive>>

===========================================================================
