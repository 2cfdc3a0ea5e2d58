--------------------------- MODULE RunLifecycle ---------------------------
(***************************************************************************)
(* What a durable workflow run promises to its callers, without locks,     *)
(* heartbeats, processes or claims: one status and one owner at a time;    *)
(* only the present owner's own execution completes the run; a completed   *)
(* or cancelled run never changes again; a failed one is only reopened, by *)
(* a retry that becomes its owner.                                         *)
(***************************************************************************)
CONSTANTS
  Ids,       \* worker ids
  LongLived, \* the worker ids that serve several executions of the run
  Absent     \* no worker id

VARIABLES
  status,
  owner,
  completion  \* who completed the run: its worker id, and whether the run
              \* had been taken by another since it read the run

vars == <<status, owner, completion>>

Open   == {"pending", "running", "waiting"}
Closed == {"completed", "failed", "cancelled"}

Init ==
  /\ status = "none" /\ owner = Absent
  /\ completion = [ident |-> Absent, stale |-> FALSE]

Create(w) ==
  /\ status = "none"
  /\ status' = "pending" /\ owner' = w
  /\ UNCHANGED completion

(* A claim of a pending or stalled run, or the assignment that follows it. *)
Take(w) ==
  /\ status \in {"pending", "running"}
  /\ status' \in {status, "running"}
  /\ owner' = w
  /\ UNCHANGED completion

Run ==
  /\ status \in Open
  /\ status' = "running"
  /\ UNCHANGED <<owner, completion>>

Park ==
  /\ status = "running"
  /\ status' = "waiting"
  /\ UNCHANGED <<owner, completion>>

Complete ==
  /\ status = "running"
  /\ status' = "completed"
  /\ completion' \in [ident : {owner}, stale : IF owner \in LongLived THEN BOOLEAN ELSE {FALSE}]
  /\ UNCHANGED owner

Close ==
  /\ status \in Open
  /\ status' \in {"failed", "cancelled"}
  /\ UNCHANGED <<owner, completion>>

Reopen(w) ==
  /\ status = "failed"
  /\ status' = "pending" /\ owner' = w
  /\ UNCHANGED completion

(* A reopening that is taken back, together with its ownership.            *)
Withdraw ==
  /\ status = "pending"
  /\ status' = "failed"
  /\ owner' \in Ids
  /\ UNCHANGED completion

Next ==
  \/ \E w \in Ids : Create(w) \/ Take(w) \/ Reopen(w)
  \/ Run \/ Park \/ Complete \/ Close \/ Withdraw

Spec == Init /\ [][Next]_vars
===========================================================================
