------------------------- MODULE RunControlProofs -------------------------
(***************************************************************************)
(* Theorems about RunControl that hold for any number of executions,       *)
(* managers, workers and clients, and any bounds.                          *)
(***************************************************************************)
EXTENDS RunControl, TLAPS

---------------------------------------------------------------------------
(* Types of the values that the actions store                              *)

LEMMA BoundType == MaxRetries \in Nat /\ MaxFaults \in Nat
BY ControlAssumption

LEMMA TokenType == \A e \in Execs : ExecToken(e) \in Tokens /\ ClaimToken(e) \in Tokens
BY DEF ExecToken, ClaimToken, Tokens

LEMMA StatusType == Active \subseteq Statuses /\ Terminal \subseteq Statuses /\ "none" \in Statuses
BY DEF Statuses

LEMMA ExecFields ==
  ASSUME ExecTypeOK, NEW e \in Execs
  PROVE  /\ ex[e] \in ExecState
         /\ ex[e].pc \in Labels
         /\ ex[e].host \in Hosts \cup {Isolated}
         /\ ex[e].ident \in WorkerIds \cup {None}
         /\ ex[e].prev \in WorkerIds \cup {None}
         /\ ex[e].stale \in BOOLEAN
BY DEF ExecTypeOK, ExecState

LEMMA LabelType ==
  \A l : l \in {"idle", "assigned", "retryCas", "reconcile", "resume", "restore",
            "load", "acquire", "admit", "activate", "dag", "completeRead",
            "completeCas", "pauseRead", "pauseCas", "announce", "unlock",
            "recheck", "failRead", "failCas", "catch", "finally", "failExec",
            "done", "crashed"} => l \in Labels
BY DEF Labels

LEMMA LaunchedType ==
  ASSUME NEW h \in Hosts \cup {Isolated}, NEW i \in WorkerIds \cup {None}, NEW l \in Labels
  PROVE  Launched(h, i, l) \in ExecState
BY DEF ExecState, Launched, Unused

LEMMA EndedType == ASSUME NEW l \in Labels PROVE Ended(l) \in ExecState
BY DEF ExecState, Ended, Unused

LEMMA PcType ==
  ASSUME NEW r \in ExecState, NEW l \in Labels
  PROVE  [r EXCEPT !.pc = l] \in ExecState
BY DEF ExecState

LEMMA PrevType ==
  ASSUME NEW r \in ExecState, NEW w \in WorkerIds \cup {None}
  PROVE  [r EXCEPT !.prev = w] \in ExecState
BY DEF ExecState

(* The record updates of the execution actions.                            *)
LEMMA UpdateType ==
  ASSUME NEW r \in ExecState, NEW l \in Labels
  PROVE  /\ [r EXCEPT !.pc = l, !.prev = None] \in ExecState
         /\ \A s \in {"none", "pending", "running"} : [r EXCEPT !.pc = l, !.seen = s] \in ExecState
         /\ [r EXCEPT !.pc = l, !.stale = FALSE] \in ExecState
         /\ [r EXCEPT !.pc = l, !.token = TRUE] \in ExecState
         /\ \A h \in {"off", "idle"} : [r EXCEPT !.pc = l, !.hb = h] \in ExecState
         /\ \A w \in {"manual", "waits", "stuck"} :
              [r EXCEPT !.pc = l, !.park = w] \in ExecState
         /\ [r EXCEPT !.parked = TRUE, !.pc = l] \in ExecState
         /\ [r EXCEPT !.pc = l, !.hb = "off", !.token = FALSE] \in ExecState
         /\ \A b \in BOOLEAN : [r EXCEPT !.pc = l, !.rethrow = b] \in ExecState
<1>1. [r EXCEPT !.pc = l, !.prev = None] \in ExecState
  BY DEF ExecState
<1>2. ASSUME NEW s \in {"none", "pending", "running"} PROVE [r EXCEPT !.pc = l, !.seen = s] \in ExecState
  BY DEF ExecState
<1>3. [r EXCEPT !.pc = l, !.stale = FALSE] \in ExecState
  BY DEF ExecState
<1>4. [r EXCEPT !.pc = l, !.token = TRUE] \in ExecState
  BY DEF ExecState
<1>5. ASSUME NEW h \in {"off", "idle"} PROVE [r EXCEPT !.pc = l, !.hb = h] \in ExecState
  BY DEF ExecState
<1>6. ASSUME NEW w \in {"manual", "waits", "stuck"}
      PROVE  [r EXCEPT !.pc = l, !.park = w] \in ExecState
  BY DEF ExecState
<1>7. [r EXCEPT !.parked = TRUE, !.pc = l] \in ExecState
  BY DEF ExecState
<1>8. [r EXCEPT !.pc = l, !.hb = "off", !.token = FALSE] \in ExecState
  <2>1. PICK q \in ExecState : q = [r EXCEPT !.pc = l, !.hb = "off"]
    BY <1>5
  <2>2. [q EXCEPT !.token = FALSE] \in ExecState
    BY DEF ExecState
  <2>3. [r EXCEPT !.pc = l, !.hb = "off", !.token = FALSE] = [q EXCEPT !.token = FALSE]
    BY <2>1
  <2> QED
    BY <2>2, <2>3
<1>9. ASSUME NEW b \in BOOLEAN PROVE [r EXCEPT !.pc = l, !.rethrow = b] \in ExecState
  BY DEF ExecState
<1> QED
  BY <1>1, <1>2, <1>3, <1>4, <1>5, <1>6, <1>7, <1>8, <1>9

LEMMA HeartbeatType ==
  ASSUME NEW r \in ExecState
  PROVE  /\ [r EXCEPT !.hb = "idle"] \in ExecState
         /\ [r EXCEPT !.hb = "extended"] \in ExecState
         /\ \A a \in {"cancel", "lock", "owner"} :
              /\ [r EXCEPT !.abort = a] \in ExecState
              /\ [r EXCEPT !.hb = "off", !.abort = a] \in ExecState
<1>1. [r EXCEPT !.hb = "idle"] \in ExecState
  BY DEF ExecState
<1>2. [r EXCEPT !.hb = "extended"] \in ExecState
  BY DEF ExecState
<1>3. ASSUME NEW a \in {"cancel", "lock", "owner"} PROVE [r EXCEPT !.abort = a] \in ExecState
  BY DEF ExecState
<1>4. ASSUME NEW a \in {"cancel", "lock", "owner"}
      PROVE  [r EXCEPT !.hb = "off", !.abort = a] \in ExecState
  BY DEF ExecState
<1> QED
  BY <1>1, <1>2, <1>3, <1>4

LEMMA BecomeType ==
  ASSUME ExecTypeOK, NEW e \in Execs, NEW r \in ExecState, Become(e, r)
  PROVE  ExecTypeOK'
BY DEF ExecTypeOK, Become

LEMMA GotoType ==
  ASSUME ExecTypeOK, NEW e \in Execs, NEW l \in Labels, Goto(e, l)
  PROVE  ExecTypeOK'
BY BecomeType, PcType, ExecFields DEF Goto

LEMMA ReturnType ==
  ASSUME ExecTypeOK, NEW e \in Execs, Return(e)
  PROVE  ExecTypeOK'
BY BecomeType, EndedType, LabelType DEF Return

LEMMA ThrowType ==
  ASSUME ExecTypeOK, NEW e \in Execs, Throw(e)
  PROVE  ExecTypeOK'
BY BecomeType, ExecFields, LaunchedType, EndedType, LabelType DEF Throw, Thrown

LEMMA ThrowsTo ==
  \A e \in Execs :
    UpdateThrows(e) \in {[ex[e] EXCEPT !.pc = "finally", !.rethrow = TRUE],
                         [ex[e] EXCEPT !.pc = "catch", !.rethrow = FALSE]}
<1> SUFFICES ASSUME NEW e \in Execs
             PROVE  UpdateThrows(e) \in {[ex[e] EXCEPT !.pc = "finally", !.rethrow = TRUE],
                                         [ex[e] EXCEPT !.pc = "catch", !.rethrow = FALSE]}
  OBVIOUS
<1>1. CASE At(e, "catch") \/ ex[e].rethrow
  <2>1. UpdateThrows(e) = [ex[e] EXCEPT !.pc = "finally", !.rethrow = TRUE]
    BY <1>1 DEF UpdateThrows
  <2> QED
    BY <2>1
<1>2. CASE ~(At(e, "catch") \/ ex[e].rethrow)
  <2>1. UpdateThrows(e) = [ex[e] EXCEPT !.pc = "catch", !.rethrow = FALSE]
    BY <1>2 DEF UpdateThrows
  <2> QED
    BY <2>1
<1> QED
  BY <1>1, <1>2

LEMMA RejectsType ==
  ASSUME ExecTypeOK, NEW c, UpdateRejects(c)
  PROVE  ExecTypeOK'
<1>1. PICK S \in SUBSET {e \in Execs : AwaitsUpdate(e, c)} :
        ex' = [e \in Execs |-> IF e \in S THEN UpdateThrows(e) ELSE ex[e]]
  BY DEF UpdateRejects
<1>2. ASSUME NEW e \in Execs PROVE UpdateThrows(e) \in ExecState
  <2>1. ex[e] \in ExecState
    BY ExecFields
  <2>2. UpdateThrows(e) \in {[ex[e] EXCEPT !.pc = "finally", !.rethrow = TRUE],
                             [ex[e] EXCEPT !.pc = "catch", !.rethrow = FALSE]}
    BY ThrowsTo
  <2>3. ASSUME NEW l \in Labels, NEW b \in BOOLEAN
        PROVE  [ex[e] EXCEPT !.pc = l, !.rethrow = b] \in ExecState
    BY <2>1, UpdateType
  <2>4. "finally" \in Labels /\ "catch" \in Labels
    BY LabelType
  <2> QED
    BY <2>2, <2>3, <2>4
<1> QED
  BY <1>1, <1>2 DEF ExecTypeOK

LEMMA SupersededType ==
  ASSUME ExecTypeOK
  PROVE  Superseded \in [Execs -> ExecState]
<1>1. ASSUME NEW r \in ExecState, NEW b \in BOOLEAN
      PROVE  [r EXCEPT !.stale = b] \in ExecState
  BY DEF ExecState
<1>2. \A e \in Execs : ex[e] \in ExecState /\ Live(e) \in BOOLEAN
  BY DEF ExecTypeOK, Live
<1> QED
  BY <1>1, <1>2 DEF Superseded

LEMMA ReopenType ==
  ASSUME ExecTypeOK, NEW e, NEW r \in ExecState, ex' = [Superseded EXCEPT ![e] = r]
  PROVE  ExecTypeOK'
BY SupersededType DEF ExecTypeOK

LEMMA TakeType ==
  ASSUME ExecTypeOK, NEW w \in WorkerIds, NEW e, NEW h \in Hosts \cup {Isolated},
         NEW l \in Labels, TakesOwnership(w, e, h, l)
  PROVE  ExecTypeOK'
BY ReopenType, LaunchedType DEF TakesOwnership

LEMMA MgrUpdateType ==
  ASSUME NEW r \in MgrState
  PROVE  /\ [r EXCEPT !.pc = "create", !.phase = "assigned"] \in MgrState
         /\ [r EXCEPT !.pc = "create", !.phase = "assigned"].exec = r.exec
         /\ [r EXCEPT !.pc = "failOwned", !.phase = "assigning"] \in MgrState
         /\ [r EXCEPT !.pc = "failOwned", !.phase = "assigning"].exec = r.exec
         /\ [r EXCEPT !.pc = "release", !.created = TRUE] \in MgrState
         /\ [r EXCEPT !.pc = "release", !.created = TRUE].exec = r.exec
BY DEF MgrState, MgrLabels

LEMMA MgrBecomeType ==
  ASSUME MgrTypeOK, NEW m \in Managers, NEW r \in MgrState,
         r.pc = "idle" \/ r.exec \in Execs, MgrBecome(m, r)
  PROVE  MgrTypeOK'
BY DEF MgrTypeOK, MgrBecome

LEMMA MgrIdleType ==
  ASSUME MgrTypeOK, NEW m \in Managers, MgrBecome(m, MgrIdle)
  PROVE  MgrTypeOK'
BY DEF MgrTypeOK, MgrBecome, MgrIdle, MgrState, MgrLabels

LEMMA MgrGotoType ==
  ASSUME MgrTypeOK, NEW m \in Managers, mgr[m].pc # "idle",
         NEW l \in MgrLabels, MgrGoto(m, l)
  PROVE  MgrTypeOK'
BY DEF MgrTypeOK, MgrGoto, MgrBecome, MgrState

---------------------------------------------------------------------------
(* Every action keeps the types                                            *)

LEMMA ClientType ==
  ASSUME TypeOK, ClientStep
  PROVE  TypeOK'
<1> USE DEF TypeOK, backendVars, clientSide, managerSide, bounds, controlVars
<1>1. ASSUME NEW c \in Clients, NEW e \in Execs, Start(c, e) PROVE TypeOK'
  <2>1. ExecTypeOK'
    BY <1>1, TakeType, LabelType DEF Start, Hosts, WorkerIds
  <2>2. BackendTypeOK'
    BY <1>1, ExecFields DEF Start, StoreStatus, TakesOwnership, Statuses,
       Active, WorkerIds, BackendTypeOK
  <2>3. MgrTypeOK' /\ RestTypeOK'
    BY <1>1 DEF Start, MgrTypeOK, RestTypeOK
  <2> QED
    BY <2>1, <2>2, <2>3 DEF TypeOK
<1>2. ASSUME NEW c \in Clients, NEW e \in Execs, ResumeReconciled(c, e) PROVE TypeOK'
  <2>1. ExecTypeOK'
    BY <1>2, BecomeType, LaunchedType, LabelType DEF ResumeReconciled,
       BackendTypeOK, Hosts
  <2>2. BackendTypeOK' /\ MgrTypeOK' /\ RestTypeOK'
    BY <1>2 DEF ResumeReconciled, BackendTypeOK, MgrTypeOK, RestTypeOK
  <2> QED
    BY <2>1, <2>2 DEF TypeOK
<1>3. ASSUME NEW c \in Clients, NEW e \in Execs, RetryRead(c, e) PROVE TypeOK'
  <2>1. ExecTypeOK'
    BY <1>3, BecomeType, LaunchedType, PrevType, LabelType DEF RetryRead,
       BackendTypeOK, Hosts, WorkerIds
  <2>2. RestTypeOK'
    BY <1>3, BoundType DEF RetryRead, RestTypeOK
  <2>3. BackendTypeOK' /\ MgrTypeOK'
    BY <1>3 DEF RetryRead, BackendTypeOK, MgrTypeOK
  <2> QED
    BY <2>1, <2>2, <2>3 DEF TypeOK
<1>4. ASSUME NEW c \in Clients, CancelBegin(c) PROVE TypeOK'
  <2>1. ExecTypeOK'
    BY <1>4, HeartbeatType, ExecFields, LabelType DEF CancelBegin, ExecTypeOK
  <2>2. RestTypeOK'
    BY <1>4, ExecFields DEF CancelBegin, RestTypeOK
  <2>3. BackendTypeOK' /\ MgrTypeOK'
    BY <1>4 DEF CancelBegin, BackendTypeOK, MgrTypeOK
  <2> QED
    BY <2>1, <2>2, <2>3 DEF TypeOK
<1>5. ASSUME NEW c \in Clients, CancelCommit(c) PROVE TypeOK'
  <2>1. BackendTypeOK'
    BY <1>5, ExecFields DEF CancelCommit, StoreStatus, Statuses, Active,
       Terminal, BackendTypeOK
  <2>2. RestTypeOK'
    BY <1>5, ExecFields DEF CancelCommit, RestTypeOK
  <2>3. ExecTypeOK'
    <3>1. ASSUME UNCHANGED ex PROVE ExecTypeOK'
      BY <3>1 DEF ExecTypeOK
    <3> QED
      BY <1>5, <3>1, RejectsType DEF CancelCommit
  <2>4. MgrTypeOK'
    BY <1>5 DEF CancelCommit, MgrTypeOK
  <2> QED
    BY <2>1, <2>2, <2>3, <2>4 DEF TypeOK
<1>6. ASSUME NEW c \in Clients, CancelRejected(c) PROVE TypeOK'
  <2>1. RestTypeOK'
    BY <1>6, BoundType DEF CancelRejected, RestTypeOK
  <2>2. ExecTypeOK'
    BY <1>6, RejectsType DEF CancelRejected
  <2>3. BackendTypeOK' /\ MgrTypeOK'
    BY <1>6 DEF CancelRejected, BackendTypeOK, MgrTypeOK
  <2> QED
    BY <2>1, <2>2, <2>3 DEF TypeOK
<1>7. ASSUME NEW c \in Clients, Reject(c) PROVE TypeOK'
  <2>1. BackendTypeOK'
    BY <1>7, ExecFields DEF Reject, StoreStatus, Statuses, Terminal, BackendTypeOK
  <2>2. ExecTypeOK' /\ MgrTypeOK' /\ RestTypeOK'
    BY <1>7 DEF Reject, ExecTypeOK, MgrTypeOK, RestTypeOK
  <2> QED
    BY <2>1, <2>2 DEF TypeOK
<1> QED
  BY <1>1, <1>2, <1>3, <1>4, <1>5, <1>6, <1>7 DEF ClientStep

LEMMA ExecutionType ==
  ASSUME TypeOK, NEW x \in Execs, ExecStep(x)
  PROVE  TypeOK'
<1> USE DEF TypeOK, backendVars, clientSide, managerSide, bounds, controlVars
<1>1. ASSUME NEW e \in Execs, RetryCas(e) PROVE TypeOK'
  <2>1. ExecTypeOK'
    BY <1>1, ReopenType, PcType, ReturnType, ExecFields, LabelType DEF
       RetryCas
  <2>2. BackendTypeOK'
    BY <1>1, ExecFields DEF RetryCas, WorkerIds, StoreStatus, Statuses,
       Active, Terminal, BackendTypeOK
  <2>3. MgrTypeOK' /\ RestTypeOK'
    BY <1>1 DEF RetryCas, MgrTypeOK, RestTypeOK
  <2> QED
    BY <2>1, <2>2, <2>3 DEF TypeOK
<1>2. ASSUME NEW e \in Execs, RetryReconciled(e) PROVE TypeOK'
  <2>1. ExecTypeOK'
    BY <1>2, BecomeType, UpdateType, ReturnType, ExecFields, LabelType DEF
       RetryReconciled
  <2>2. BackendTypeOK' /\ MgrTypeOK' /\ RestTypeOK'
    BY <1>2 DEF RetryReconciled, BackendTypeOK, MgrTypeOK, RestTypeOK
  <2> QED
    BY <2>1, <2>2 DEF TypeOK
<1>3. ASSUME NEW e \in Execs, RetryRollback(e) PROVE TypeOK'
  <2>1. ExecTypeOK'
    BY <1>3, ReturnType, LabelType DEF RetryRollback
  <2>2. BackendTypeOK'
    BY <1>3, ExecFields DEF RetryRollback, StoreStatus, Statuses, Active,
       Terminal, BackendTypeOK
  <2>3. MgrTypeOK' /\ RestTypeOK'
    BY <1>3 DEF RetryRollback, MgrTypeOK, RestTypeOK
  <2> QED
    BY <2>1, <2>2, <2>3 DEF TypeOK
<1>4. ASSUME NEW e \in Execs, Resume(e) PROVE TypeOK'
  <2>1. ExecTypeOK'
    BY <1>4, GotoType, BecomeType, UpdateType, ThrowType, ExecFields,
       LabelType DEF Resume, Active
  <2>2. BackendTypeOK' /\ MgrTypeOK' /\ RestTypeOK'
    BY <1>4 DEF Resume, BackendTypeOK, MgrTypeOK, RestTypeOK
  <2> QED
    BY <2>1, <2>2 DEF TypeOK
<1>5. ASSUME NEW e \in Execs, Restore(e) PROVE TypeOK'
  <2>1. ExecTypeOK'
    BY <1>5, BecomeType, UpdateType, ThrowType, ExecFields, LabelType DEF
       Restore
  <2>2. BackendTypeOK'
    BY <1>5, ExecFields DEF Restore, StoreStatus, Statuses, Active, Terminal,
       BackendTypeOK
  <2>3. MgrTypeOK' /\ RestTypeOK'
    BY <1>5 DEF Restore, MgrTypeOK, RestTypeOK
  <2> QED
    BY <2>1, <2>2, <2>3 DEF TypeOK
<1>6. ASSUME NEW e \in Execs, Load(e) PROVE TypeOK'
  <2>1. ExecTypeOK'
    BY <1>6, BecomeType, UpdateType, ThrowType, ExecFields, LabelType DEF Load
  <2>2. BackendTypeOK' /\ MgrTypeOK' /\ RestTypeOK'
    BY <1>6 DEF Load, BackendTypeOK, MgrTypeOK, RestTypeOK
  <2> QED
    BY <2>1, <2>2 DEF TypeOK
<1>7. ASSUME NEW e \in Execs, Acquire(e) PROVE TypeOK'
  <2>1. ExecTypeOK'
    BY <1>7, BecomeType, UpdateType, ThrowType, ExecFields, LabelType DEF
       Acquire
  <2>2. BackendTypeOK'
    BY <1>7, TokenType DEF Acquire, AcquireLock, BackendTypeOK
  <2>3. RestTypeOK'
    BY <1>7, ExecFields DEF Acquire, RestTypeOK
  <2>4. MgrTypeOK'
    BY <1>7 DEF Acquire, MgrTypeOK
  <2> QED
    BY <2>1, <2>2, <2>3, <2>4 DEF TypeOK
<1>8. ASSUME NEW e \in Execs, Admit(e) PROVE TypeOK'
  <2>1. ExecTypeOK'
    BY <1>8, GotoType, LabelType DEF Admit
  <2>2. BackendTypeOK' /\ MgrTypeOK' /\ RestTypeOK'
    BY <1>8 DEF Admit, BackendTypeOK, MgrTypeOK, RestTypeOK
  <2> QED
    BY <2>1, <2>2 DEF TypeOK
<1>9. ASSUME NEW e \in Execs, Activate(e) PROVE TypeOK'
  <2>1. ExecTypeOK'
    BY <1>9, GotoType, BecomeType, UpdateType, ExecFields, LabelType DEF
       Activate
  <2>2. BackendTypeOK'
    BY <1>9, ExecFields DEF Activate, StoreStatus, Statuses, Active, Terminal,
       BackendTypeOK
  <2>3. MgrTypeOK' /\ RestTypeOK'
    BY <1>9 DEF Activate, MgrTypeOK, RestTypeOK
  <2> QED
    BY <2>1, <2>2, <2>3 DEF TypeOK
<1>10. ASSUME NEW e \in Execs, DagSettles(e) PROVE TypeOK'
  <2>1. ExecTypeOK'
    BY <1>10, GotoType, BecomeType, UpdateType, ExecFields, LabelType DEF
       DagSettles
  <2>2. BackendTypeOK' /\ MgrTypeOK' /\ RestTypeOK'
    BY <1>10 DEF DagSettles, BackendTypeOK, MgrTypeOK, RestTypeOK
  <2> QED
    BY <2>1, <2>2 DEF TypeOK
<1>11. ASSUME NEW e \in Execs, CompleteRead(e) PROVE TypeOK'
  <2>1. ExecTypeOK'
    BY <1>11, GotoType, LabelType DEF CompleteRead, CommitRead
  <2>2. BackendTypeOK' /\ MgrTypeOK' /\ RestTypeOK'
    BY <1>11 DEF CompleteRead, CommitRead, BackendTypeOK, MgrTypeOK,
       RestTypeOK
  <2> QED
    BY <2>1, <2>2 DEF TypeOK
<1>12. ASSUME NEW e \in Execs, CompleteCas(e) PROVE TypeOK'
  <2>1. ExecTypeOK'
    BY <1>12, GotoType, LabelType DEF CompleteCas
  <2>2. BackendTypeOK'
    BY <1>12, ExecFields DEF CompleteCas, StoreStatus, Statuses, Active,
       Terminal, BackendTypeOK
  <2>3. RestTypeOK'
    BY <1>12, ExecFields DEF CompleteCas, RestTypeOK
  <2>4. MgrTypeOK'
    BY <1>12 DEF CompleteCas, MgrTypeOK
  <2> QED
    BY <2>1, <2>2, <2>3, <2>4 DEF TypeOK
<1>13. ASSUME NEW e \in Execs, PauseRead(e) PROVE TypeOK'
  <2>1. ExecTypeOK'
    BY <1>13, GotoType, LabelType DEF PauseRead, CommitRead
  <2>2. BackendTypeOK' /\ MgrTypeOK' /\ RestTypeOK'
    BY <1>13 DEF PauseRead, CommitRead, BackendTypeOK, MgrTypeOK, RestTypeOK
  <2> QED
    BY <2>1, <2>2 DEF TypeOK
<1>14. ASSUME NEW e \in Execs, PauseCas(e) PROVE TypeOK'
  <2>1. ExecTypeOK'
    BY <1>14, GotoType, BecomeType, UpdateType, ExecFields, LabelType DEF
       PauseCas
  <2>2. BackendTypeOK'
    BY <1>14, ExecFields DEF PauseCas, StoreStatus, Statuses, Active,
       Terminal, BackendTypeOK
  <2>3. MgrTypeOK' /\ RestTypeOK'
    BY <1>14 DEF PauseCas, MgrTypeOK, RestTypeOK
  <2> QED
    BY <2>1, <2>2, <2>3 DEF TypeOK
<1>15. ASSUME NEW e \in Execs, Announce(e) PROVE TypeOK'
  <2>1. ExecTypeOK'
    BY <1>15, GotoType, LabelType DEF Announce
  <2>2. BackendTypeOK' /\ MgrTypeOK' /\ RestTypeOK'
    BY <1>15 DEF Announce, BackendTypeOK, MgrTypeOK, RestTypeOK
  <2> QED
    BY <2>1, <2>2 DEF TypeOK
<1>16. ASSUME NEW e \in Execs, Unlock(e) PROVE TypeOK'
  <2>1. ExecTypeOK'
    BY <1>16, BecomeType, UpdateType, ExecFields, LabelType DEF Unlock
  <2>2. BackendTypeOK'
    BY <1>16, ExecFields DEF Unlock, ReleaseLock, BackendTypeOK
  <2>3. MgrTypeOK' /\ RestTypeOK'
    BY <1>16 DEF Unlock, MgrTypeOK, RestTypeOK
  <2> QED
    BY <2>1, <2>2, <2>3 DEF TypeOK
<1>17. ASSUME NEW e \in Execs, Recheck(e) PROVE TypeOK'
  <2>1. ExecTypeOK'
    BY <1>17, GotoType, LabelType DEF Recheck
  <2>2. BackendTypeOK' /\ MgrTypeOK' /\ RestTypeOK'
    BY <1>17 DEF Recheck, BackendTypeOK, MgrTypeOK, RestTypeOK
  <2> QED
    BY <2>1, <2>2 DEF TypeOK
<1>18. ASSUME NEW e \in Execs, Catch(e) PROVE TypeOK'
  <2>1. ExecTypeOK'
    BY <1>18, GotoType, BecomeType, UpdateType, ExecFields, LabelType DEF
       Catch
  <2>2. BackendTypeOK' /\ MgrTypeOK' /\ RestTypeOK'
    BY <1>18 DEF Catch, BackendTypeOK, MgrTypeOK, RestTypeOK
  <2> QED
    BY <2>1, <2>2 DEF TypeOK
<1>19. ASSUME NEW e \in Execs, FailRead(e) PROVE TypeOK'
  <2>1. ExecTypeOK'
    BY <1>19, GotoType, BecomeType, UpdateType, ExecFields, LabelType DEF
       FailRead
  <2>2. BackendTypeOK' /\ MgrTypeOK' /\ RestTypeOK'
    BY <1>19 DEF FailRead, BackendTypeOK, MgrTypeOK, RestTypeOK
  <2> QED
    BY <2>1, <2>2 DEF TypeOK
<1>20. ASSUME NEW e \in Execs, FailCas(e) PROVE TypeOK'
  <2>1. ExecTypeOK'
    BY <1>20, GotoType, BecomeType, UpdateType, ExecFields, LabelType DEF
       FailCas
  <2>2. BackendTypeOK'
    BY <1>20, ExecFields DEF FailCas, StoreStatus, Statuses, Active, Terminal,
       BackendTypeOK
  <2>3. MgrTypeOK' /\ RestTypeOK'
    BY <1>20 DEF FailCas, MgrTypeOK, RestTypeOK
  <2> QED
    BY <2>1, <2>2, <2>3 DEF TypeOK
<1>21. ASSUME NEW e \in Execs, Finally(e) PROVE TypeOK'
  <2>1. ExecTypeOK'
    BY <1>21, ThrowType, ReturnType, LabelType DEF Finally
  <2>2. BackendTypeOK'
    BY <1>21, ExecFields DEF Finally, ReleaseLock, BackendTypeOK
  <2>3. RestTypeOK'
    BY <1>21, ExecFields DEF Finally, RestTypeOK
  <2>4. MgrTypeOK'
    BY <1>21 DEF Finally, MgrTypeOK
  <2> QED
    BY <2>1, <2>2, <2>3, <2>4 DEF TypeOK
<1>22. ASSUME NEW e \in Execs, FailExec(e) PROVE TypeOK'
  <2>1. ExecTypeOK'
    BY <1>22, ReturnType, LabelType DEF FailExec
  <2>2. BackendTypeOK'
    BY <1>22, ExecFields DEF FailExec, StoreStatus, Statuses, Active,
       Terminal, BackendTypeOK
  <2>3. MgrTypeOK' /\ RestTypeOK'
    BY <1>22 DEF FailExec, MgrTypeOK, RestTypeOK
  <2> QED
    BY <2>1, <2>2, <2>3 DEF TypeOK
<1> QED
  BY <1>1, <1>2, <1>3, <1>4, <1>5, <1>6, <1>7, <1>8, <1>9, <1>10, <1>11,
     <1>12, <1>13, <1>14, <1>15, <1>16, <1>17, <1>18, <1>19, <1>20, <1>21,
     <1>22 DEF ExecStep

LEMMA BeatType ==
  ASSUME TypeOK, NEW x \in Execs, HeartbeatStep(x)
  PROVE  TypeOK'
<1> USE DEF TypeOK, backendVars, clientSide, managerSide, bounds, controlVars
<1>1. ASSUME NEW e \in Execs, HeartbeatExtend(e) PROVE TypeOK'
  <2>1. ExecTypeOK'
    BY <1>1, BecomeType, HeartbeatType, ExecFields, LabelType DEF
       HeartbeatExtend
  <2>2. BackendTypeOK' /\ MgrTypeOK' /\ RestTypeOK'
    BY <1>1 DEF HeartbeatExtend, BackendTypeOK, MgrTypeOK, RestTypeOK
  <2> QED
    BY <2>1, <2>2 DEF TypeOK
<1>2. ASSUME NEW e \in Execs, HeartbeatWrite(e) PROVE TypeOK'
  <2>1. ExecTypeOK'
    BY <1>2, BecomeType, HeartbeatType, ExecFields, LabelType DEF
       HeartbeatWrite
  <2>2. BackendTypeOK'
    BY <1>2, ExecFields DEF HeartbeatWrite, BackendTypeOK
  <2>3. MgrTypeOK' /\ RestTypeOK'
    BY <1>2 DEF HeartbeatWrite, MgrTypeOK, RestTypeOK
  <2> QED
    BY <2>1, <2>2, <2>3 DEF TypeOK
<1>3. ASSUME NEW e \in Execs, HeartbeatFails(e) PROVE TypeOK'
  <2>1. ExecTypeOK'
    BY <1>3, BecomeType, HeartbeatType, ExecFields, LabelType DEF
       HeartbeatFails
  <2>2. RestTypeOK'
    BY <1>3, BoundType DEF HeartbeatFails, RestTypeOK
  <2>3. BackendTypeOK' /\ MgrTypeOK'
    BY <1>3 DEF HeartbeatFails, BackendTypeOK, MgrTypeOK
  <2> QED
    BY <2>1, <2>2, <2>3 DEF TypeOK
<1> QED
  BY <1>1, <1>2, <1>3 DEF HeartbeatStep

LEMMA ManagerType ==
  ASSUME TypeOK, NEW x \in Managers, ManagerStep(x)
  PROVE  TypeOK'
<1> USE DEF TypeOK, backendVars, clientSide, managerSide, bounds, controlVars
<1>1. ASSUME NEW m \in Managers, MgrPoll(m) PROVE TypeOK'
  <2>1. MgrTypeOK'
    BY <1>1, MgrBecomeType DEF MgrPoll, PollWhen, MgrIdle, MgrState,
       MgrLabels, Stalled
  <2>2. ExecTypeOK' /\ BackendTypeOK' /\ RestTypeOK'
    BY <1>1 DEF MgrPoll, PollWhen, ExecTypeOK, BackendTypeOK, RestTypeOK
  <2> QED
    BY <2>1, <2>2 DEF TypeOK
<1>2. ASSUME NEW m \in Managers, MgrAcquire(m) PROVE TypeOK'
  <2>1. BackendTypeOK'
    BY <1>2, TokenType DEF MgrAcquire, MgrAt, MgrTypeOK, AcquireLock,
       BackendTypeOK
  <2>2. MgrTypeOK'
    BY <1>2, MgrGotoType, MgrIdleType DEF MgrAcquire, MgrAt, MgrLabels
  <2>3. ExecTypeOK' /\ RestTypeOK'
    BY <1>2 DEF MgrAcquire, ExecTypeOK, RestTypeOK
  <2> QED
    BY <2>1, <2>2, <2>3 DEF TypeOK
<1>3. ASSUME NEW m \in Managers, MgrRecheck(m) PROVE TypeOK'
  <2>1. MgrTypeOK'
    BY <1>3, MgrGotoType DEF MgrRecheck, MgrAt, MgrLabels
  <2>2. ExecTypeOK' /\ BackendTypeOK' /\ RestTypeOK'
    BY <1>3 DEF MgrRecheck, ExecTypeOK, BackendTypeOK, RestTypeOK
  <2> QED
    BY <2>1, <2>2 DEF TypeOK
<1>4. ASSUME NEW m \in Managers, MgrClaimStalled(m) PROVE TypeOK'
  <2>1. ExecTypeOK'
    BY <1>4, SupersededType, LabelType DEF MgrClaimStalled, ExecTypeOK
  <2>2. BackendTypeOK'
    BY <1>4, ExecFields DEF MgrClaimStalled, ClaimStalledRun, WorkerIds,
       BackendTypeOK
  <2>3. MgrTypeOK'
    BY <1>4, MgrGotoType, MgrIdleType DEF MgrClaimStalled, MgrAt, MgrLabels
  <2>4. RestTypeOK'
    BY <1>4 DEF MgrClaimStalled, RestTypeOK
  <2> QED
    BY <2>1, <2>2, <2>3, <2>4 DEF TypeOK
<1>5. ASSUME NEW m \in Managers, MgrAssign(m) PROVE TypeOK'
  <2>1. ExecTypeOK'
    BY <1>5, TakeType, LabelType DEF MgrAssign, AssignOwner, MgrAt, MgrTypeOK,
       WorkerIds, ExecTypeOK
  <2>2. BackendTypeOK'
    BY <1>5, ExecFields DEF MgrAssign, MgrAt, MgrTypeOK, AssignOwner,
       TakesOwnership, WorkerIds, StoreStatus, Statuses, Active, Terminal,
       BackendTypeOK
  <2>3. MgrTypeOK'
    BY <1>5, MgrBecomeType, MgrUpdateType, MgrGotoType DEF MgrAssign, MgrAt,
       MgrTypeOK, MgrLabels
  <2>4. RestTypeOK'
    BY <1>5 DEF MgrAssign, RestTypeOK
  <2> QED
    BY <2>1, <2>2, <2>3, <2>4 DEF TypeOK
<1>6. ASSUME NEW m \in Managers, MgrAssignRejected(m) PROVE TypeOK'
  <2>1. ExecTypeOK'
    BY <1>6, TakeType, LabelType DEF MgrAssignRejected, AssignOwner, MgrAt,
       MgrTypeOK, WorkerIds, ExecTypeOK
  <2>2. BackendTypeOK'
    BY <1>6, ExecFields DEF MgrAssignRejected, MgrAt, MgrTypeOK, AssignOwner,
       TakesOwnership, WorkerIds, StoreStatus, Statuses, Active, Terminal,
       BackendTypeOK
  <2>3. MgrTypeOK'
    BY <1>6, MgrBecomeType, MgrUpdateType DEF MgrAssignRejected, MgrAt,
       MgrTypeOK, MgrLabels
  <2>4. RestTypeOK'
    BY <1>6, BoundType DEF MgrAssignRejected, RestTypeOK
  <2> QED
    BY <2>1, <2>2, <2>3, <2>4 DEF TypeOK
<1>7. ASSUME NEW m \in Managers, MgrCreate(m) PROVE TypeOK'
  <2>1. ExecTypeOK'
    BY <1>7, GotoType, LabelType DEF MgrCreate, MgrAt, MgrTypeOK
  <2>2. MgrTypeOK'
    BY <1>7, MgrBecomeType, MgrUpdateType DEF MgrCreate, MgrAt, MgrTypeOK,
       MgrLabels
  <2>3. BackendTypeOK' /\ RestTypeOK'
    BY <1>7 DEF MgrCreate, BackendTypeOK, RestTypeOK
  <2> QED
    BY <2>1, <2>2, <2>3 DEF TypeOK
<1>8. ASSUME NEW m \in Managers, MgrCreateFails(m) PROVE TypeOK'
  <2>1. MgrTypeOK'
    BY <1>8, MgrGotoType DEF MgrCreateFails, MgrAt, MgrLabels
  <2>2. ExecTypeOK' /\ BackendTypeOK' /\ RestTypeOK'
    BY <1>8 DEF MgrCreateFails, ExecTypeOK, BackendTypeOK, RestTypeOK
  <2> QED
    BY <2>1, <2>2 DEF TypeOK
<1>9. ASSUME NEW m \in Managers, MgrFailOwned(m) PROVE TypeOK'
  <2>1. BackendTypeOK'
    BY <1>9, ExecFields DEF MgrFailOwned, StoreStatus, Statuses, Active,
       Terminal, BackendTypeOK
  <2>2. MgrTypeOK'
    BY <1>9, MgrGotoType DEF MgrFailOwned, MgrAt, MgrLabels
  <2>3. ExecTypeOK' /\ RestTypeOK'
    BY <1>9 DEF MgrFailOwned, ExecTypeOK, RestTypeOK
  <2> QED
    BY <2>1, <2>2, <2>3 DEF TypeOK
<1>10. ASSUME NEW m \in Managers, MgrFailLook(m) PROVE TypeOK'
  <2>1. MgrTypeOK'
    BY <1>10, MgrGotoType DEF MgrFailLook, MgrAt, MgrLabels
  <2>2. ExecTypeOK' /\ BackendTypeOK' /\ RestTypeOK'
    BY <1>10 DEF MgrFailLook, ExecTypeOK, BackendTypeOK, RestTypeOK
  <2> QED
    BY <2>1, <2>2 DEF TypeOK
<1>11. ASSUME NEW m \in Managers, MgrFailClaimed(m) PROVE TypeOK'
  <2>1. BackendTypeOK'
    BY <1>11, ExecFields DEF MgrFailClaimed, StoreStatus, Statuses, Active,
       Terminal, BackendTypeOK
  <2>2. MgrTypeOK'
    BY <1>11, MgrGotoType DEF MgrFailClaimed, MgrAt, MgrLabels
  <2>3. ExecTypeOK' /\ RestTypeOK'
    BY <1>11 DEF MgrFailClaimed, ExecTypeOK, RestTypeOK
  <2> QED
    BY <2>1, <2>2, <2>3 DEF TypeOK
<1>12. ASSUME NEW m \in Managers, MgrRelease(m) PROVE TypeOK'
  <2>1. BackendTypeOK'
    BY <1>12, ExecFields DEF MgrRelease, ReleaseLock, BackendTypeOK
  <2>2. MgrTypeOK'
    BY <1>12, MgrIdleType DEF MgrRelease
  <2>3. RestTypeOK'
    BY <1>12, ExecFields DEF MgrRelease, MgrAt, MgrTypeOK, RestTypeOK
  <2>4. ExecTypeOK'
    BY <1>12 DEF MgrRelease, ExecTypeOK
  <2> QED
    BY <2>1, <2>2, <2>3, <2>4 DEF TypeOK
<1>13. ASSUME NEW m \in Managers, MgrSync(m) PROVE TypeOK'
  <2>1. RestTypeOK'
    BY <1>13, ExecFields DEF MgrSync, RestTypeOK
  <2>2. ExecTypeOK' /\ BackendTypeOK' /\ MgrTypeOK'
    BY <1>13 DEF MgrSync, ExecTypeOK, BackendTypeOK, MgrTypeOK
  <2> QED
    BY <2>1, <2>2 DEF TypeOK
<1> QED
  BY <1>1, <1>2, <1>3, <1>4, <1>5, <1>6, <1>7, <1>8, <1>9, <1>10, <1>11,
     <1>12, <1>13 DEF ManagerStep

LEMMA EnvironmentType ==
  ASSUME TypeOK,
         (\E w \in Workers, e \in Execs : WorkerClaim(w, e)) \/ CrashStep \/ TimeStep
  PROVE  TypeOK'
<1> USE DEF TypeOK, backendVars, clientSide, managerSide, bounds, controlVars
<1>1. ASSUME NEW w \in Workers, NEW e \in Execs, WorkerClaim(w, e) PROVE TypeOK'
  <2>1. ExecTypeOK'
    BY <1>1, TakeType, LabelType DEF WorkerClaim, Hosts, WorkerIds
  <2>2. BackendTypeOK'
    BY <1>1, ExecFields DEF WorkerClaim, ClaimStalledRun, WorkerIds,
       BackendTypeOK
  <2>3. MgrTypeOK' /\ RestTypeOK'
    BY <1>1 DEF WorkerClaim, MgrTypeOK, RestTypeOK
  <2> QED
    BY <2>1, <2>2, <2>3 DEF TypeOK
<1>2. ASSUME NEW e \in Execs, CrashIsolated(e) PROVE TypeOK'
  <2>1. ExecTypeOK'
    BY <1>2, BecomeType, EndedType, LabelType DEF CrashIsolated
  <2>2. RestTypeOK'
    BY <1>2, BoundType DEF CrashIsolated, RestTypeOK
  <2>3. BackendTypeOK' /\ MgrTypeOK'
    BY <1>2 DEF CrashIsolated, BackendTypeOK, MgrTypeOK
  <2> QED
    BY <2>1, <2>2, <2>3 DEF TypeOK
<1>3. ASSUME NEW h \in Hosts, CrashHost(h) PROVE TypeOK'
  <2>1. ExecTypeOK'
    BY <1>3, EndedType, LabelType DEF CrashHost, ExecTypeOK
  <2>2. RestTypeOK'
    BY <1>3, BoundType DEF CrashHost, RestTypeOK
  <2>3. BackendTypeOK' /\ MgrTypeOK'
    BY <1>3 DEF CrashHost, BackendTypeOK, MgrTypeOK
  <2> QED
    BY <2>1, <2>2, <2>3 DEF TypeOK
<1>4. ASSUME NEW m \in Managers, CrashManager(m) PROVE TypeOK'
  <2>1. MgrTypeOK'
    BY <1>4, MgrIdleType DEF CrashManager
  <2>2. RestTypeOK'
    BY <1>4, BoundType DEF CrashManager, RestTypeOK
  <2>3. ExecTypeOK' /\ BackendTypeOK'
    BY <1>4 DEF CrashManager, ExecTypeOK, BackendTypeOK
  <2> QED
    BY <2>1, <2>2, <2>3 DEF TypeOK
<1>5. ASSUME LockExpires PROVE TypeOK'
  <2>1. BackendTypeOK'
    BY <1>5, ExecFields DEF LockExpires, BackendTypeOK
  <2>2. ExecTypeOK' /\ MgrTypeOK' /\ RestTypeOK'
    BY <1>5 DEF LockExpires, ExecTypeOK, MgrTypeOK, RestTypeOK
  <2> QED
    BY <2>1, <2>2 DEF TypeOK
<1>6. ASSUME HeartbeatAges PROVE TypeOK'
  <2>1. BackendTypeOK'
    BY <1>6, ExecFields DEF HeartbeatAges, BackendTypeOK
  <2>2. ExecTypeOK' /\ MgrTypeOK' /\ RestTypeOK'
    BY <1>6 DEF HeartbeatAges, ExecTypeOK, MgrTypeOK, RestTypeOK
  <2> QED
    BY <2>1, <2>2 DEF TypeOK
<1>7. ASSUME StalledClaimExpires PROVE TypeOK'
  <2>1. BackendTypeOK'
    BY <1>7, ExecFields DEF StalledClaimExpires, BackendTypeOK
  <2>2. ExecTypeOK' /\ MgrTypeOK' /\ RestTypeOK'
    BY <1>7 DEF StalledClaimExpires, ExecTypeOK, MgrTypeOK, RestTypeOK
  <2> QED
    BY <2>1, <2>2 DEF TypeOK
<1> QED
  BY <1>1, <1>2, <1>3, <1>4, <1>5, <1>6, <1>7 DEF CrashStep, TimeStep

LEMMA TypeInit == Init => TypeOK
<1> SUFFICES ASSUME Init PROVE TypeOK
  OBVIOUS
<1>1. BackendTypeOK
  BY StatusType DEF Init, BackendTypeOK, NoLock
<1>2. ExecTypeOK
  BY DEF Init, ExecTypeOK, ExecState, Unused, Labels
<1>3. MgrTypeOK
  BY DEF Init, MgrTypeOK, MgrState, MgrIdle, MgrLabels
<1>4. RestTypeOK
  BY BoundType DEF Init, RestTypeOK, Nobody
<1> QED
  BY <1>1, <1>2, <1>3, <1>4 DEF TypeOK

LEMMA TypeStep == TypeOK /\ [Next]_vars => TypeOK'
<1> SUFFICES ASSUME TypeOK, [Next]_vars PROVE TypeOK'
  OBVIOUS
<1>1. CASE Next
  BY <1>1, ClientType, ExecutionType, BeatType, ManagerType, EnvironmentType DEF Next
<1>2. CASE UNCHANGED vars
  BY <1>2 DEF vars, backendVars, controlVars, TypeOK, BackendTypeOK, ExecTypeOK,
              MgrTypeOK, RestTypeOK
<1> QED
  BY <1>1, <1>2

(* Every reachable state of the control protocol is well typed: each       *)
(* status that is stored is one the readers know, each lock in the store   *)
(* was taken by an execution or for one, each fence is a worker id.        *)
THEOREM TypeCorrect == Spec => []TypeOK
BY TypeInit, TypeStep, PTL DEF Spec

===========================================================================
