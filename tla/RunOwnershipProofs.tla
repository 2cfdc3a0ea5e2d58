----------------------- MODULE RunOwnershipProofs -----------------------
(***************************************************************************)
(* Mutual exclusion of executions while leases are renewed in time, and    *)
(* fencing of late executions however long a process sleeps.               *)
(***************************************************************************)
EXTENDS RunControlProofs

(* Executions that are past executeAsync's read of the run, and those that *)
(* must still hold the lock they acquired.                                 *)
LoadedLabels == {"acquire", "admit", "activate", "dag", "completeRead",
                 "completeCas", "pauseRead", "pauseCas", "announce", "unlock",
                 "recheck", "failRead", "failCas", "catch", "finally"}
HeldLabels == {"admit", "activate", "dag", "completeRead", "completeCas",
               "pauseRead", "pauseCas", "announce", "unlock"}
Loaded(e) == ex[e].pc \in LoadedLabels
Held(e) == ex[e].pc \in HeldLabels

(* The inductive strengthening of SoleExecution.                           *)
LockInv ==
  \A e \in Execs :
    /\ Held(e) => ex[e].token
    /\ ex[e].token => Live(e) /\ lock = ExecToken(e) /\ lockLive

(* An id not yet used is unknown to the store and to every execution.      *)
UnspentInv ==
  \A x \in Execs : ex[x].pc \in {"idle", "retryCas"} =>
    /\ owner # x
    /\ \A e \in Execs : ex[e].prev # x /\ (e # x => ex[e].ident # x)

(* The id a manager is about to assign is not used yet, by nobody else.    *)
ReservedInv ==
  /\ \A m \in Managers :
       mgr[m].pc \in {"acquire", "recheck", "stall", "assign"} =>
         ex[mgr[m].exec].pc = "idle"
  /\ \A m, n \in Managers :
       m # n /\ mgr[m].pc # "idle" => mgr[m].exec # mgr[n].exec

(* An execution from which the run was taken no longer matches its fence,  *)
(* or the run is over.                                                     *)
DisownedInv ==
  \A e \in Execs : Loaded(e) /\ ex[e].stale /\ ex[e].ident \in Execs =>
    owner # ex[e].ident \/ status \in Terminal

FenceInv == UnspentInv /\ ReservedInv /\ DisownedInv /\ FencedCompletion

---------------------------------------------------------------------------
(* What a step does to the execution that takes it                         *)

Others(e) == \A x \in Execs : x # e => ex'[x] = ex[x]

(* It moves on, keeping its fence, its lock and what it knows of the run.  *)
Moved(e, l) ==
  /\ ex'[e].pc = l
  /\ ex'[e].ident = ex[e].ident /\ ex'[e].prev = ex[e].prev
  /\ ex'[e].stale = ex[e].stale /\ ex'[e].token = ex[e].token

(* It starts afresh, or ends.                                              *)
Reset(e, l, i) ==
  /\ ex'[e].pc = l
  /\ ex'[e].ident = i /\ ex'[e].prev = None
  /\ ex'[e].stale = FALSE /\ ex'[e].token = FALSE

LEMMA Effects ==
  ASSUME ExecTypeOK, NEW e \in Execs, NEW l
  PROVE  /\ Goto(e, l) => Moved(e, l) /\ Others(e)
         /\ \A v : Become(e, [ex[e] EXCEPT !.pc = l, !.seen = v]) => Moved(e, l) /\ Others(e)
         /\ \A v : Become(e, [ex[e] EXCEPT !.pc = l, !.hb = v]) => Moved(e, l) /\ Others(e)
         /\ \A v : Become(e, [ex[e] EXCEPT !.pc = l, !.park = v]) => Moved(e, l) /\ Others(e)
         /\ Become(e, [ex[e] EXCEPT !.parked = TRUE, !.pc = l]) => Moved(e, l) /\ Others(e)
         /\ \A v : Become(e, [ex[e] EXCEPT !.pc = l, !.rethrow = v]) => Moved(e, l) /\ Others(e)
         /\ \A v : Become(e, [ex[e] EXCEPT !.hb = v]) => Moved(e, ex[e].pc) /\ Others(e)
         /\ \A v, w : Become(e, [ex[e] EXCEPT !.hb = v, !.abort = w]) => Moved(e, ex[e].pc) /\ Others(e)
<1>1. ASSUME NEW r, Become(e, r) PROVE ex'[e] = r /\ Others(e)
  BY <1>1 DEF Become, ExecTypeOK, Others
<1>2. ex[e] \in ExecState
  BY ExecFields
<1>3. ASSUME Goto(e, l) PROVE Moved(e, l) /\ Others(e)
  BY <1>1, <1>2, <1>3 DEF Goto, ExecState, Moved
<1>4. ASSUME NEW v, Become(e, [ex[e] EXCEPT !.pc = l, !.seen = v])
      PROVE  Moved(e, l) /\ Others(e)
  <2>1. ex'[e] = [ex[e] EXCEPT !.pc = l, !.seen = v] /\ Others(e)
    BY <1>1, <1>4
  <2>2. Moved(e, l)
    BY <1>2, <2>1 DEF ExecState, Moved
  <2> QED
    BY <2>1, <2>2
<1>5. ASSUME NEW v, Become(e, [ex[e] EXCEPT !.pc = l, !.hb = v])
      PROVE  Moved(e, l) /\ Others(e)
  <2>1. ex'[e] = [ex[e] EXCEPT !.pc = l, !.hb = v] /\ Others(e)
    BY <1>1, <1>5
  <2>2. Moved(e, l)
    BY <1>2, <2>1 DEF ExecState, Moved
  <2> QED
    BY <2>1, <2>2
<1>6. ASSUME NEW v, Become(e, [ex[e] EXCEPT !.pc = l, !.park = v])
      PROVE  Moved(e, l) /\ Others(e)
  <2>1. ex'[e] = [ex[e] EXCEPT !.pc = l, !.park = v] /\ Others(e)
    BY <1>1, <1>6
  <2>2. Moved(e, l)
    BY <1>2, <2>1 DEF ExecState, Moved
  <2> QED
    BY <2>1, <2>2
<1>7. ASSUME Become(e, [ex[e] EXCEPT !.parked = TRUE, !.pc = l])
      PROVE  Moved(e, l) /\ Others(e)
  <2>1. ex'[e] = [ex[e] EXCEPT !.parked = TRUE, !.pc = l] /\ Others(e)
    BY <1>1, <1>7
  <2>2. Moved(e, l)
    BY <1>2, <2>1 DEF ExecState, Moved
  <2> QED
    BY <2>1, <2>2
<1>8. ASSUME NEW v, Become(e, [ex[e] EXCEPT !.pc = l, !.rethrow = v])
      PROVE  Moved(e, l) /\ Others(e)
  <2>1. ex'[e] = [ex[e] EXCEPT !.pc = l, !.rethrow = v] /\ Others(e)
    BY <1>1, <1>8
  <2>2. Moved(e, l)
    BY <1>2, <2>1 DEF ExecState, Moved
  <2> QED
    BY <2>1, <2>2
<1>9. ASSUME NEW v, Become(e, [ex[e] EXCEPT !.hb = v])
      PROVE  Moved(e, ex[e].pc) /\ Others(e)
  <2>1. ex'[e] = [ex[e] EXCEPT !.hb = v] /\ Others(e)
    BY <1>1, <1>9
  <2>2. Moved(e, ex[e].pc)
    BY <1>2, <2>1 DEF ExecState, Moved
  <2> QED
    BY <2>1, <2>2
<1>10. ASSUME NEW v, NEW w, Become(e, [ex[e] EXCEPT !.hb = v, !.abort = w])
      PROVE  Moved(e, ex[e].pc) /\ Others(e)
  <2>1. ex'[e] = [ex[e] EXCEPT !.hb = v, !.abort = w] /\ Others(e)
    BY <1>1, <1>10
  <2>2. Moved(e, ex[e].pc)
    BY <1>2, <2>1 DEF ExecState, Moved
  <2> QED
    BY <2>1, <2>2
<1> QED
  BY <1>3, <1>4, <1>5, <1>6, <1>7, <1>8, <1>9, <1>10

LEMMA Endings ==
  ASSUME ExecTypeOK, NEW e \in Execs
  PROVE  /\ Return(e) => Reset(e, "done", None) /\ Others(e)
         /\ Become(e, Ended("crashed")) => Reset(e, "crashed", None) /\ Others(e)
         /\ Throw(e) => /\ Reset(e, "done", None) \/ Reset(e, "failExec", ex[e].ident)
                        /\ Others(e)
<1>1. ASSUME NEW r, Become(e, r) PROVE ex'[e] = r /\ Others(e)
  BY <1>1 DEF Become, ExecTypeOK, Others
<1>2. ASSUME NEW l, Become(e, Ended(l)) PROVE Reset(e, l, None) /\ Others(e)
  BY <1>1, <1>2 DEF Ended, Unused, Reset
<1>3. ASSUME Become(e, Launched(Isolated, ex[e].ident, "failExec"))
      PROVE  Reset(e, "failExec", ex[e].ident) /\ Others(e)
  <2>1. ex'[e] = Launched(Isolated, ex[e].ident, "failExec") /\ Others(e)
    BY <1>1, <1>3
  <2>2. Reset(e, "failExec", ex[e].ident)
    BY <2>1 DEF Launched, Unused, Reset
  <2> QED
    BY <2>1, <2>2
<1>4. ASSUME Throw(e)
      PROVE  Reset(e, "done", None) \/ Reset(e, "failExec", ex[e].ident)
  BY <1>2, <1>3, <1>4 DEF Throw, Thrown
<1>5. ASSUME Throw(e) PROVE Others(e)
  BY <1>1, <1>5 DEF Throw
<1> QED
  BY <1>2, <1>4, <1>5 DEF Return

LEMMA SpecialEffects ==
  ASSUME ExecTypeOK, NEW e \in Execs, NEW l
  PROVE  /\ Become(e, [ex[e] EXCEPT !.pc = l, !.prev = None]) =>
              /\ ex'[e].pc = l /\ ex'[e].ident = ex[e].ident /\ ex'[e].prev = None
              /\ ex'[e].stale = ex[e].stale /\ ex'[e].token = ex[e].token /\ Others(e)
         /\ Become(e, [ex[e] EXCEPT !.pc = l, !.stale = FALSE]) =>
              /\ ex'[e].pc = l /\ ex'[e].ident = ex[e].ident /\ ex'[e].prev = ex[e].prev
              /\ ex'[e].stale = FALSE /\ ex'[e].token = ex[e].token /\ Others(e)
         /\ Become(e, [ex[e] EXCEPT !.pc = l, !.token = TRUE]) =>
              /\ ex'[e].pc = l /\ ex'[e].ident = ex[e].ident /\ ex'[e].prev = ex[e].prev
              /\ ex'[e].stale = ex[e].stale /\ ex'[e].token = TRUE /\ Others(e)
         /\ Become(e, [ex[e] EXCEPT !.pc = l, !.hb = "off", !.token = FALSE]) =>
              /\ ex'[e].pc = l /\ ex'[e].ident = ex[e].ident /\ ex'[e].prev = ex[e].prev
              /\ ex'[e].stale = ex[e].stale /\ ex'[e].token = FALSE /\ Others(e)
<1>1. ASSUME NEW r, Become(e, r) PROVE ex'[e] = r /\ Others(e)
  BY <1>1 DEF Become, ExecTypeOK, Others
<1>2. ex[e] \in ExecState
  BY ExecFields
<1>3. ASSUME Become(e, [ex[e] EXCEPT !.pc = l, !.prev = None])
      PROVE  /\ ex'[e].pc = l /\ ex'[e].ident = ex[e].ident /\ ex'[e].prev = None
       /\ ex'[e].stale = ex[e].stale /\ ex'[e].token = ex[e].token /\ Others(e)
  <2>1. ex'[e] = [ex[e] EXCEPT !.pc = l, !.prev = None] /\ Others(e)
    BY <1>1, <1>3
  <2> QED
    BY <1>2, <2>1 DEF ExecState
<1>4. ASSUME Become(e, [ex[e] EXCEPT !.pc = l, !.stale = FALSE])
      PROVE  /\ ex'[e].pc = l /\ ex'[e].ident = ex[e].ident /\ ex'[e].prev = ex[e].prev
       /\ ex'[e].stale = FALSE /\ ex'[e].token = ex[e].token /\ Others(e)
  <2>1. ex'[e] = [ex[e] EXCEPT !.pc = l, !.stale = FALSE] /\ Others(e)
    BY <1>1, <1>4
  <2> QED
    BY <1>2, <2>1 DEF ExecState
<1>5. ASSUME Become(e, [ex[e] EXCEPT !.pc = l, !.token = TRUE])
      PROVE  /\ ex'[e].pc = l /\ ex'[e].ident = ex[e].ident /\ ex'[e].prev = ex[e].prev
       /\ ex'[e].stale = ex[e].stale /\ ex'[e].token = TRUE /\ Others(e)
  <2>1. ex'[e] = [ex[e] EXCEPT !.pc = l, !.token = TRUE] /\ Others(e)
    BY <1>1, <1>5
  <2> QED
    BY <1>2, <2>1 DEF ExecState
<1>6. ASSUME Become(e, [ex[e] EXCEPT !.pc = l, !.hb = "off", !.token = FALSE])
      PROVE  /\ ex'[e].pc = l /\ ex'[e].ident = ex[e].ident /\ ex'[e].prev = ex[e].prev
       /\ ex'[e].stale = ex[e].stale /\ ex'[e].token = FALSE /\ Others(e)
  <2>1. ex'[e] = [ex[e] EXCEPT !.pc = l, !.hb = "off", !.token = FALSE] /\ Others(e)
    BY <1>1, <1>6
  <2> QED
    BY <1>2, <2>1 DEF ExecState
<1> QED
  BY <1>3, <1>4, <1>5, <1>6

---------------------------------------------------------------------------
(* Steps that disturb neither the ownership nor the lock of the run        *)

FenceQuiet(e) ==
  /\ Others(e)
  /\ ex[e].pc # "idle"
  /\ ex'[e].pc \in {"idle", "retryCas"} => ex'[e].pc = ex[e].pc
  /\ ex'[e].ident \in {ex[e].ident, None} /\ ex'[e].prev \in {ex[e].prev, None}
  /\ ex'[e].pc \in LoadedLabels /\ ex'[e].stale => Loaded(e) /\ ex[e].stale

TokenQuiet(e) ==
  /\ Others(e)
  /\ ex'[e].token => ex[e].token /\ ex'[e].pc \notin {"idle", "assigned", "done", "crashed"}
  /\ ex'[e].pc \in HeldLabels => Held(e) /\ ex'[e].token = ex[e].token

StoreQuiet ==
  /\ owner' = owner
  /\ status \in Terminal => status' \in Terminal

LEMMA SeenType ==
  ASSUME ExecTypeOK, NEW e \in Execs
  PROVE  ex[e].seen \in {"none", "pending", "running"}
BY DEF ExecTypeOK, ExecState

LEMMA MovedQuiet ==
  ASSUME NEW e \in Execs, NEW l, Live(e), Moved(e, l), Others(e),
         l \notin {"idle", "retryCas", "assigned", "done", "crashed"},
         l \in LoadedLabels => Loaded(e), l \in HeldLabels => Held(e)
  PROVE  FenceQuiet(e) /\ TokenQuiet(e)
BY DEF Moved, FenceQuiet, TokenQuiet, Live

LEMMA ResetQuiet ==
  ASSUME NEW e \in Execs, NEW l \in {"done", "crashed", "failExec"},
         NEW i \in {None, ex[e].ident}, Live(e), Reset(e, l, i), Others(e)
  PROVE  FenceQuiet(e) /\ TokenQuiet(e)
BY DEF Reset, FenceQuiet, TokenQuiet, Live, LoadedLabels, HeldLabels

(* The execution and heartbeat actions of that kind.                       *)
LEMMA QuietStep ==
  ASSUME TypeOK, NEW e \in Execs,
         \/ RetryReconciled(e) \/ Resume(e) \/ Restore(e) 
         \/ Load(e) \/ Admit(e) \/ Activate(e) \/ DagSettles(e) 
         \/ CompleteRead(e) \/ PauseRead(e) \/ PauseCas(e) 
         \/ Announce(e) \/ Recheck(e) \/ Catch(e) \/ FailRead(e) 
         \/ FailCas(e) \/ FailExec(e) \/ HeartbeatExtend(e) 
         \/ HeartbeatWrite(e) \/ HeartbeatFails(e) 
         \/ CrashIsolated(e)
  PROVE  /\ FenceQuiet(e) /\ TokenQuiet(e) /\ StoreQuiet
         /\ UNCHANGED <<lock, lockLive, mgr, committer>>
<1>0. ExecTypeOK
  BY DEF TypeOK
<1> USE DEF backendVars, clientSide, managerSide, bounds
<1>1. CASE RetryReconciled(e)
  <2>1. Live(e)
    BY <1>1 DEF RetryReconciled, At, Live
  <2>2. FenceQuiet(e) /\ TokenQuiet(e)
    <3>1. ASSUME Return(e) PROVE FenceQuiet(e) /\ TokenQuiet(e)
      BY <1>0, <2>1, <3>1, Endings, ResetQuiet
    <3>2. ASSUME Become(e, [ex[e] EXCEPT !.pc = "load", !.prev = None])
          PROVE  FenceQuiet(e) /\ TokenQuiet(e)
      BY <1>0, <2>1, <3>2, SpecialEffects
         DEF FenceQuiet, TokenQuiet, Live, LoadedLabels, HeldLabels
    <3> QED
      BY <1>1, <3>1, <3>2 DEF RetryReconciled
  <2>3. StoreQuiet
    BY <1>1 DEF RetryReconciled, StoreQuiet
  <2>4. UNCHANGED <<lock, lockLive, mgr, committer>>
    BY <1>1 DEF RetryReconciled
  <2> QED
    BY <2>2, <2>3, <2>4
<1>2. CASE Resume(e)
  <2>1. Live(e)
    BY <1>2 DEF Resume, At, Live
  <2>2. FenceQuiet(e) /\ TokenQuiet(e)
    BY <1>0, <1>2, <2>1, Effects, Endings, MovedQuiet, ResetQuiet DEF Resume,
       At, LoadedLabels, HeldLabels, Loaded, Held
  <2>3. StoreQuiet
    BY <1>2 DEF Resume, StoreQuiet
  <2>4. UNCHANGED <<lock, lockLive, mgr, committer>>
    BY <1>2 DEF Resume
  <2> QED
    BY <2>2, <2>3, <2>4
<1>3. CASE Restore(e)
  <2>1. Live(e)
    BY <1>3 DEF Restore, At, Live
  <2>2. FenceQuiet(e) /\ TokenQuiet(e)
    BY <1>0, <1>3, <2>1, Effects, Endings, MovedQuiet, ResetQuiet DEF Restore,
       At, LoadedLabels, HeldLabels, Loaded, Held
  <2>3. StoreQuiet
    BY <1>0, <1>3, SeenType DEF Restore, StoreStatus, Matches, StoreQuiet, Terminal
  <2>4. UNCHANGED <<lock, lockLive, mgr, committer>>
    BY <1>3 DEF Restore
  <2> QED
    BY <2>2, <2>3, <2>4
<1>4. CASE Load(e)
  <2>1. Live(e)
    BY <1>4 DEF Load, At, Live
  <2>2. FenceQuiet(e) /\ TokenQuiet(e)
    <3>1. ASSUME Throw(e) PROVE FenceQuiet(e) /\ TokenQuiet(e)
      BY <1>0, <2>1, <3>1, Endings, ResetQuiet
    <3>2. ASSUME Become(e, [ex[e] EXCEPT !.pc = "acquire", !.stale = FALSE])
          PROVE  FenceQuiet(e) /\ TokenQuiet(e)
      BY <1>0, <2>1, <3>2, SpecialEffects
         DEF FenceQuiet, TokenQuiet, Live, LoadedLabels, HeldLabels
    <3> QED
      BY <1>4, <3>1, <3>2 DEF Load
  <2>3. StoreQuiet
    BY <1>4 DEF Load, StoreQuiet
  <2>4. UNCHANGED <<lock, lockLive, mgr, committer>>
    BY <1>4 DEF Load
  <2> QED
    BY <2>2, <2>3, <2>4
<1>5. CASE Admit(e)
  <2>1. Live(e)
    BY <1>5 DEF Admit, At, Live
  <2>2. FenceQuiet(e) /\ TokenQuiet(e)
    BY <1>0, <1>5, <2>1, Effects, MovedQuiet DEF Admit, At, LoadedLabels,
       HeldLabels, Loaded, Held
  <2>3. StoreQuiet
    BY <1>5 DEF Admit, StoreQuiet
  <2>4. UNCHANGED <<lock, lockLive, mgr, committer>>
    BY <1>5 DEF Admit
  <2> QED
    BY <2>2, <2>3, <2>4
<1>6. CASE Activate(e)
  <2>1. Live(e)
    BY <1>6 DEF Activate, At, Live
  <2>2. FenceQuiet(e) /\ TokenQuiet(e)
    BY <1>0, <1>6, <2>1, Effects, MovedQuiet DEF Activate, At, LoadedLabels,
       HeldLabels, Loaded, Held
  <2>3. StoreQuiet
    BY <1>6 DEF Activate, StoreStatus, Matches, StoreQuiet, Active, Terminal
  <2>4. UNCHANGED <<lock, lockLive, mgr, committer>>
    BY <1>6 DEF Activate
  <2> QED
    BY <2>2, <2>3, <2>4
<1>7. CASE DagSettles(e)
  <2>1. Live(e)
    BY <1>7 DEF DagSettles, At, Live
  <2>2. FenceQuiet(e) /\ TokenQuiet(e)
    BY <1>0, <1>7, <2>1, Effects, MovedQuiet DEF DagSettles, At, LoadedLabels,
       HeldLabels, Loaded, Held
  <2>3. StoreQuiet
    BY <1>7 DEF DagSettles, StoreQuiet
  <2>4. UNCHANGED <<lock, lockLive, mgr, committer>>
    BY <1>7 DEF DagSettles
  <2> QED
    BY <2>2, <2>3, <2>4
<1>8. CASE CompleteRead(e)
  <2>1. Live(e)
    BY <1>8 DEF CompleteRead, At, CommitRead, Live
  <2>2. FenceQuiet(e) /\ TokenQuiet(e)
    BY <1>0, <1>8, <2>1, Effects, MovedQuiet DEF CompleteRead, At, CommitRead,
       LoadedLabels, HeldLabels, Loaded, Held
  <2>3. StoreQuiet
    BY <1>8 DEF CompleteRead, CommitRead, StoreQuiet
  <2>4. UNCHANGED <<lock, lockLive, mgr, committer>>
    BY <1>8 DEF CompleteRead, CommitRead
  <2> QED
    BY <2>2, <2>3, <2>4
<1>9. CASE PauseRead(e)
  <2>1. Live(e)
    BY <1>9 DEF PauseRead, At, CommitRead, Live
  <2>2. FenceQuiet(e) /\ TokenQuiet(e)
    BY <1>0, <1>9, <2>1, Effects, MovedQuiet DEF PauseRead, At, CommitRead,
       LoadedLabels, HeldLabels, Loaded, Held
  <2>3. StoreQuiet
    BY <1>9 DEF PauseRead, CommitRead, StoreQuiet
  <2>4. UNCHANGED <<lock, lockLive, mgr, committer>>
    BY <1>9 DEF PauseRead, CommitRead
  <2> QED
    BY <2>2, <2>3, <2>4
<1>10. CASE PauseCas(e)
  <2>1. Live(e)
    BY <1>10 DEF PauseCas, At, Live
  <2>2. FenceQuiet(e) /\ TokenQuiet(e)
    BY <1>0, <1>10, <2>1, Effects, MovedQuiet DEF PauseCas, At, LoadedLabels,
       HeldLabels, Loaded, Held
  <2>3. StoreQuiet
    BY <1>10 DEF PauseCas, StoreStatus, Matches, StoreQuiet, Active, Terminal
  <2>4. UNCHANGED <<lock, lockLive, mgr, committer>>
    BY <1>10 DEF PauseCas
  <2> QED
    BY <2>2, <2>3, <2>4
<1>11. CASE Announce(e)
  <2>1. Live(e)
    BY <1>11 DEF Announce, At, Live
  <2>2. FenceQuiet(e) /\ TokenQuiet(e)
    BY <1>0, <1>11, <2>1, Effects, MovedQuiet DEF Announce, At, LoadedLabels,
       HeldLabels, Loaded, Held
  <2>3. StoreQuiet
    BY <1>11 DEF Announce, StoreQuiet
  <2>4. UNCHANGED <<lock, lockLive, mgr, committer>>
    BY <1>11 DEF Announce
  <2> QED
    BY <2>2, <2>3, <2>4
<1>12. CASE Recheck(e)
  <2>1. Live(e)
    BY <1>12 DEF Recheck, At, Live
  <2>2. FenceQuiet(e) /\ TokenQuiet(e)
    BY <1>0, <1>12, <2>1, Effects, MovedQuiet DEF Recheck, At, LoadedLabels,
       HeldLabels, Loaded, Held
  <2>3. StoreQuiet
    BY <1>12 DEF Recheck, StoreQuiet
  <2>4. UNCHANGED <<lock, lockLive, mgr, committer>>
    BY <1>12 DEF Recheck
  <2> QED
    BY <2>2, <2>3, <2>4
<1>13. CASE Catch(e)
  <2>1. Live(e)
    BY <1>13 DEF Catch, At, Live
  <2>2. FenceQuiet(e) /\ TokenQuiet(e)
    BY <1>0, <1>13, <2>1, Effects, MovedQuiet DEF Catch, At, LoadedLabels,
       HeldLabels, Loaded, Held
  <2>3. StoreQuiet
    BY <1>13 DEF Catch, StoreQuiet
  <2>4. UNCHANGED <<lock, lockLive, mgr, committer>>
    BY <1>13 DEF Catch
  <2> QED
    BY <2>2, <2>3, <2>4
<1>14. CASE FailRead(e)
  <2>1. Live(e)
    BY <1>14 DEF FailRead, At, Live
  <2>2. FenceQuiet(e) /\ TokenQuiet(e)
    BY <1>0, <1>14, <2>1, Effects, MovedQuiet DEF FailRead, At, LoadedLabels,
       HeldLabels, Loaded, Held
  <2>3. StoreQuiet
    BY <1>14 DEF FailRead, StoreQuiet
  <2>4. UNCHANGED <<lock, lockLive, mgr, committer>>
    BY <1>14 DEF FailRead
  <2> QED
    BY <2>2, <2>3, <2>4
<1>15. CASE FailCas(e)
  <2>1. Live(e)
    BY <1>15 DEF FailCas, At, Live
  <2>2. FenceQuiet(e) /\ TokenQuiet(e)
    BY <1>0, <1>15, <2>1, Effects, MovedQuiet DEF FailCas, At, LoadedLabels,
       HeldLabels, Loaded, Held
  <2>3. StoreQuiet
    BY <1>15 DEF FailCas, StoreStatus, Matches, StoreQuiet, Active, Terminal
  <2>4. UNCHANGED <<lock, lockLive, mgr, committer>>
    BY <1>15 DEF FailCas
  <2> QED
    BY <2>2, <2>3, <2>4
<1>16. CASE FailExec(e)
  <2>1. Live(e)
    BY <1>16 DEF FailExec, At, Live
  <2>2. FenceQuiet(e) /\ TokenQuiet(e)
    BY <1>0, <1>16, <2>1, Endings, ResetQuiet DEF FailExec, At, LoadedLabels,
       HeldLabels, Loaded, Held
  <2>3. StoreQuiet
    BY <1>16 DEF FailExec, StoreStatus, Matches, StoreQuiet, Active, Terminal
  <2>4. UNCHANGED <<lock, lockLive, mgr, committer>>
    BY <1>16 DEF FailExec
  <2> QED
    BY <2>2, <2>3, <2>4
<1>17. CASE HeartbeatExtend(e)
  <2>1. Live(e)
    BY <1>17 DEF HeartbeatExtend, Beating, Live
  <2>2. FenceQuiet(e) /\ TokenQuiet(e)
    <3>1. Moved(e, ex[e].pc) /\ Others(e)
      BY <1>0, <1>17, Effects DEF HeartbeatExtend
    <3> QED
      BY <2>1, <3>1 DEF Moved, FenceQuiet, TokenQuiet, Live, Loaded, Held
  <2>3. StoreQuiet
    BY <1>17 DEF HeartbeatExtend, StoreQuiet
  <2>4. UNCHANGED <<lock, lockLive, mgr, committer>>
    BY <1>17 DEF HeartbeatExtend
  <2> QED
    BY <2>2, <2>3, <2>4
<1>18. CASE HeartbeatWrite(e)
  <2>1. Live(e)
    BY <1>18 DEF HeartbeatWrite, Live
  <2>2. FenceQuiet(e) /\ TokenQuiet(e)
    <3>1. Moved(e, ex[e].pc) /\ Others(e)
      BY <1>0, <1>18, Effects DEF HeartbeatWrite
    <3> QED
      BY <2>1, <3>1 DEF Moved, FenceQuiet, TokenQuiet, Live, Loaded, Held
  <2>3. StoreQuiet
    BY <1>18 DEF HeartbeatWrite, StoreQuiet
  <2>4. UNCHANGED <<lock, lockLive, mgr, committer>>
    BY <1>18 DEF HeartbeatWrite
  <2> QED
    BY <2>2, <2>3, <2>4
<1>19. CASE HeartbeatFails(e)
  <2>1. Live(e)
    BY <1>19 DEF HeartbeatFails, Beating, Live
  <2>2. FenceQuiet(e) /\ TokenQuiet(e)
    <3>1. Moved(e, ex[e].pc) /\ Others(e)
      BY <1>0, <1>19, Effects DEF HeartbeatFails
    <3> QED
      BY <2>1, <3>1 DEF Moved, FenceQuiet, TokenQuiet, Live, Loaded, Held
  <2>3. StoreQuiet
    BY <1>19 DEF HeartbeatFails, StoreQuiet
  <2>4. UNCHANGED <<lock, lockLive, mgr, committer>>
    BY <1>19 DEF HeartbeatFails
  <2> QED
    BY <2>2, <2>3, <2>4
<1>20. CASE CrashIsolated(e)
  <2>1. Live(e)
    BY <1>20 DEF CrashIsolated, Live
  <2>2. FenceQuiet(e) /\ TokenQuiet(e)
    BY <1>0, <1>20, <2>1, Endings, ResetQuiet DEF CrashIsolated, LoadedLabels,
       HeldLabels, Loaded, Held
  <2>3. StoreQuiet
    BY <1>20 DEF CrashIsolated, StoreQuiet
  <2>4. UNCHANGED <<lock, lockLive, mgr, committer>>
    BY <1>20 DEF CrashIsolated
  <2> QED
    BY <2>2, <2>3, <2>4
<1> QED
  BY <1>1, <1>2, <1>3, <1>4, <1>5, <1>6, <1>7, <1>8, <1>9, <1>10, <1>11,
     <1>12, <1>13, <1>14, <1>15, <1>16, <1>17, <1>18, <1>19, <1>20

---------------------------------------------------------------------------
(* What taking the run does to the executions                              *)

Carried(x) ==
  /\ ex'[x].pc = ex[x].pc /\ ex'[x].ident = ex[x].ident
  /\ ex'[x].prev = ex[x].prev /\ ex'[x].token = ex[x].token

LEMMA SupersededFields ==
  ASSUME ExecTypeOK, NEW x \in Execs
  PROVE  /\ Superseded[x].pc = ex[x].pc /\ Superseded[x].ident = ex[x].ident
         /\ Superseded[x].prev = ex[x].prev /\ Superseded[x].token = ex[x].token
<1>1. ex[x] \in ExecState
  BY ExecFields
<1>2. Superseded[x] = [ex[x] EXCEPT !.stale = Live(x)]
  BY DEF Superseded
<1> QED
  BY <1>1, <1>2 DEF ExecState

LEMMA TakeEffects ==
  ASSUME ExecTypeOK, NEW e \in Execs, NEW w, NEW h, NEW l, TakesOwnership(w, e, h, l)
  PROVE  /\ owner' = w /\ Reset(e, l, w)
         /\ \A x \in Execs : x # e => Carried(x)
<1>1. /\ owner' = w
      /\ ex' = [Superseded EXCEPT ![e] = Launched(h, w, l)]
  BY DEF TakesOwnership
<1>2. DOMAIN Superseded = Execs
  BY DEF Superseded
<1>3. ex'[e] = Launched(h, w, l) /\ \A x \in Execs : x # e => ex'[x] = Superseded[x]
  BY <1>1, <1>2
<1>4. Reset(e, l, w)
  BY <1>3 DEF Launched, Unused, Reset
<1> QED
  BY <1>1, <1>3, <1>4, SupersededFields DEF Carried

LEMMA LaunchEffects ==
  ASSUME ExecTypeOK, NEW e \in Execs, NEW w, NEW h, NEW l, Become(e, Launched(h, w, l))
  PROVE  Reset(e, l, w) /\ Others(e)
<1>1. ex'[e] = Launched(h, w, l) /\ Others(e)
  BY DEF Become, ExecTypeOK, Others
<1> QED
  BY <1>1 DEF Launched, Unused, Reset

LEMMA RetryReadEffects ==
  ASSUME ExecTypeOK, NEW e \in Execs, NEW h, NEW w,
         Become(e, [Launched(h, e, "retryCas") EXCEPT !.prev = w])
  PROVE  /\ ex'[e].pc = "retryCas" /\ ex'[e].ident = e /\ ex'[e].prev = w
         /\ ex'[e].stale = FALSE /\ ex'[e].token = FALSE /\ Others(e)
<1>1. ex'[e] = [Launched(h, e, "retryCas") EXCEPT !.prev = w] /\ Others(e)
  BY DEF Become, ExecTypeOK, Others
<1> QED
  BY <1>1 DEF Launched, Unused

LEMMA RetryCasEffects ==
  ASSUME ExecTypeOK, NEW e \in Execs,
         ex' = [Superseded EXCEPT ![e] = [ex[e] EXCEPT !.pc = "reconcile"]]
  PROVE  /\ Moved(e, "reconcile")
         /\ \A x \in Execs : x # e => Carried(x)
<1>1. DOMAIN Superseded = Execs
  BY DEF Superseded
<1>2. /\ ex'[e] = [ex[e] EXCEPT !.pc = "reconcile"]
      /\ \A x \in Execs : x # e => ex'[x] = Superseded[x]
  BY <1>1
<1>3. ex[e] \in ExecState
  BY ExecFields
<1>4. Moved(e, "reconcile")
  BY <1>2, <1>3 DEF ExecState, Moved
<1> QED
  BY <1>2, <1>4, SupersededFields DEF Carried

LEMMA CancelEffects ==
  ASSUME ExecTypeOK, NEW c \in Clients, CancelBegin(c), NEW x \in Execs
  PROVE  Carried(x) /\ ex'[x].stale = ex[x].stale
<1>1. ex[x] \in ExecState
  BY ExecFields
<1>2. ex'[x] \in {ex[x], [ex[x] EXCEPT !.abort = "cancel"]}
  BY DEF CancelBegin
<1>3. CASE ex'[x] = ex[x]
  BY <1>3 DEF Carried
<1>4. CASE ex'[x] = [ex[x] EXCEPT !.abort = "cancel"]
  BY <1>1, <1>4 DEF ExecState, Carried
<1> QED
  BY <1>2, <1>3, <1>4

LEMMA UpdateEffects ==
  ASSUME ExecTypeOK, NEW c, UpdateRejects(c), NEW x \in Execs
  PROVE  \/ ex'[x] = ex[x]
         \/ Loaded(x) /\ (Moved(x, "catch") \/ Moved(x, "finally"))
<1>1. ex[x] \in ExecState
  BY ExecFields
<1>2. ex'[x] = ex[x] \/ (AwaitsUpdate(x, c) /\ ex'[x] = UpdateThrows(x))
  <2>1. PICK S \in SUBSET {e \in Execs : AwaitsUpdate(e, c)} :
          ex' = [e \in Execs |-> IF e \in S THEN UpdateThrows(e) ELSE ex[e]]
    BY DEF UpdateRejects
  <2>2. ex'[x] = IF x \in S THEN UpdateThrows(x) ELSE ex[x]
    BY <2>1
  <2>3. S \subseteq {e \in Execs : AwaitsUpdate(e, c)}
    BY <2>1
  <2>4. CASE x \in S
    BY <2>2, <2>3, <2>4
  <2>5. CASE x \notin S
    BY <2>2, <2>5
  <2> QED
    BY <2>4, <2>5
<1>3. ASSUME ex'[x] = UpdateThrows(x) PROVE Moved(x, "catch") \/ Moved(x, "finally")
  <2>1. \/ ex'[x] = [ex[x] EXCEPT !.pc = "finally", !.rethrow = TRUE]
        \/ ex'[x] = [ex[x] EXCEPT !.pc = "catch", !.rethrow = FALSE]
    BY <1>3, ThrowsTo
  <2> QED
    BY <1>1, <2>1 DEF ExecState, Moved
<1>4. AwaitsUpdate(x, c) => Loaded(x)
  BY DEF AwaitsUpdate, At, Loaded, LoadedLabels
<1> QED
  BY <1>2, <1>3, <1>4

LEMMA CrashHostEffects ==
  ASSUME ExecTypeOK, NEW h \in Hosts, CrashHost(h), NEW x \in Execs
  PROVE  \/ ex'[x] = ex[x]
         \/ Live(x) /\ Reset(x, "crashed", None)
BY DEF CrashHost, Ended, Unused, Reset

---------------------------------------------------------------------------
(* Mutual exclusion                                                        *)

LEMMA TokensDiffer ==
  /\ \A e, x : ExecToken(e) = ExecToken(x) => e = x
  /\ \A e, x : ExecToken(e) # ClaimToken(x)
  /\ \A e : ExecToken(e) # NoLock
BY DEF ExecToken, ClaimToken, NoLock

LEMMA LockQuiet ==
  ASSUME LockInv, NEW e \in Execs, TokenQuiet(e), UNCHANGED <<lock, lockLive>>
  PROVE  LockInv'
BY DEF LockInv, TokenQuiet, Others, Held, Live

(* Executions keep their token and their place, or go where no lock is     *)
(* needed, or have no lock to lose.                                        *)
TokensKept ==
  \A x \in Execs :
    \/ /\ ex'[x].pc = ex[x].pc \/ ex'[x].pc \in {"catch", "finally"}
       /\ ex'[x].token = ex[x].token
    \/ ex'[x].pc \notin HeldLabels /\ ~ex'[x].token

LEMMA LockKept ==
  ASSUME LockInv, TokensKept, UNCHANGED <<lock, lockLive>>
  PROVE  LockInv'
BY DEF LockInv, TokensKept, Held, HeldLabels, Live

LEMMA TakeKeepsTokens ==
  ASSUME ExecTypeOK, NEW e \in Execs, NEW w, NEW h, NEW l, TakesOwnership(w, e, h, l),
         l \notin HeldLabels
  PROVE  TokensKept
<1>1. Reset(e, l, w) /\ \A x \in Execs : x # e => Carried(x)
  BY TakeEffects
<1> QED
  BY <1>1 DEF Carried, Reset, TokensKept

(* Nobody holds a lock that can be acquired.                               *)
LEMMA FreeUnheld ==
  ASSUME LockInv, LockFree, NEW x \in Execs
  PROVE  ~ex[x].token
BY TokensDiffer DEF LockInv, LockFree

LEMMA LockClient ==
  ASSUME TypeOK, LockInv, ClientStep
  PROVE  LockInv'
<1>0. ExecTypeOK
  BY DEF TypeOK
<1> USE DEF backendVars
<1>1. PICK c \in Clients :
        \/ \E e \in Execs : Start(c, e) \/ ResumeReconciled(c, e) \/ RetryRead(c, e)
        \/ Reject(c) \/ CancelBegin(c) \/ CancelCommit(c) \/ CancelRejected(c)
  BY DEF ClientStep
<1>2. ASSUME NEW e \in Execs, Start(c, e) PROVE LockInv'
  <2>1. TakesOwnership(e, e, c, "load") /\ UNCHANGED <<lock, lockLive>>
    BY <1>2 DEF Start
  <2> QED
    BY <1>0, <2>1, TakeKeepsTokens, LockKept DEF HeldLabels
<1>3. ASSUME NEW e \in Execs, ResumeReconciled(c, e) PROVE LockInv'
  <2>1. Become(e, Launched(c, owner, "resume")) /\ UNCHANGED <<lock, lockLive>>
    BY <1>3 DEF ResumeReconciled
  <2>2. TokensKept
    <3>1. Reset(e, "resume", owner) /\ Others(e)
      BY <1>0, <2>1, LaunchEffects
    <3> QED
      BY <3>1 DEF Reset, Others, TokensKept, HeldLabels
  <2> QED
    BY <2>1, <2>2, LockKept
<1>4. ASSUME NEW e \in Execs, RetryRead(c, e) PROVE LockInv'
  <2>1. /\ Become(e, [Launched(c, e, "retryCas") EXCEPT !.prev = owner])
        /\ UNCHANGED <<lock, lockLive>>
    BY <1>4 DEF RetryRead
  <2>2. TokensKept
    BY <1>0, <2>1, RetryReadEffects DEF Others, TokensKept, HeldLabels
  <2> QED
    BY <2>1, <2>2, LockKept
<1>5. ASSUME CancelBegin(c) PROVE LockInv'
  <2>1. TokensKept
    BY <1>0, <1>5, CancelEffects DEF Carried, TokensKept
  <2>2. UNCHANGED <<lock, lockLive>>
    BY <1>5 DEF CancelBegin
  <2> QED
    BY <2>1, <2>2, LockKept
<1>6. ASSUME Reject(c) \/ CancelCommit(c) \/ CancelRejected(c) PROVE LockInv'
  <2>1. (UNCHANGED ex \/ UpdateRejects(c)) /\ UNCHANGED <<lock, lockLive>>
    BY <1>6 DEF Reject, CancelCommit, CancelRejected
  <2>2. ASSUME UNCHANGED ex PROVE TokensKept
    BY <2>2 DEF TokensKept
  <2>3. ASSUME UpdateRejects(c) PROVE TokensKept
    BY <1>0, <2>3, UpdateEffects DEF Moved, TokensKept
  <2> QED
    BY <2>1, <2>2, <2>3, LockKept
<1> QED
  BY <1>1, <1>2, <1>3, <1>4, <1>5, <1>6

LEMMA LockExecution ==
  ASSUME TypeOK, LockInv, NEW e \in Execs, ExecStep(e) \/ HeartbeatStep(e)
  PROVE  LockInv'
<1>0. ExecTypeOK
  BY DEF TypeOK
<1> USE DEF backendVars, managerSide, clientSide, bounds
<1>1. ASSUME RetryCas(e) PROVE LockInv'
  <2>1. UNCHANGED <<lock, lockLive>>
    BY <1>1 DEF RetryCas
  <2>2. ASSUME Return(e) PROVE TokensKept
    BY <1>0, <2>2, Endings DEF Reset, Others, TokensKept, HeldLabels
  <2>3. ASSUME ex' = [Superseded EXCEPT ![e] = [ex[e] EXCEPT !.pc = "reconcile"]]
        PROVE  LockInv'
    <3>1. Moved(e, "reconcile") /\ \A x \in Execs : x # e => Carried(x)
      BY <1>0, <2>3, RetryCasEffects
    <3>2. Live(e)
      BY <1>1 DEF RetryCas, At, Live
    <3> QED
      BY <2>1, <3>1, <3>2 DEF Moved, Carried, LockInv, Held, Live, HeldLabels
  <2> QED
    BY <1>1, <2>1, <2>2, <2>3, LockKept DEF RetryCas
<1>2. ASSUME RetryRollback(e) PROVE LockInv'
  <2>1. Return(e) /\ UNCHANGED <<lock, lockLive>>
    BY <1>2 DEF RetryRollback
  <2>2. TokensKept
    BY <1>0, <2>1, Endings DEF Reset, Others, TokensKept, HeldLabels
  <2> QED
    BY <2>1, <2>2, LockKept
<1>3. ASSUME Acquire(e) PROVE LockInv'
  <2>1. ASSUME Throw(e), UNCHANGED <<lock, lockLive>> PROVE LockInv'
    <3>1. TokensKept
      BY <1>0, <2>1, Endings DEF Reset, Others, TokensKept, HeldLabels
    <3> QED
      BY <2>1, <3>1, LockKept
  <2>2. ASSUME AcquireLock(ExecToken(e)),
               Become(e, [ex[e] EXCEPT !.pc = "admit", !.token = TRUE])
        PROVE  LockInv'
    <3>1. LockFree /\ lock' = ExecToken(e) /\ lockLive'
      BY <2>2 DEF AcquireLock
    <3>2. ex'[e].pc = "admit" /\ ex'[e].token = TRUE /\ Others(e)
      BY <1>0, <2>2, SpecialEffects
    <3>3. \A x \in Execs : ~ex[x].token
      BY <3>1, FreeUnheld
    <3> QED
      BY <3>1, <3>2, <3>3 DEF Others, LockInv, Held, Live
  <2> QED
    BY <1>3, <2>1, <2>2 DEF Acquire
<1>4. ASSUME CompleteCas(e) PROVE LockInv'
  <2>1. Live(e) /\ Held(e)
    BY <1>4 DEF CompleteCas, At, Live, Held, HeldLabels
  <2>2. PICK l \in {"finally", "catch"} : Goto(e, l)
    BY <1>4 DEF CompleteCas
  <2>3. TokenQuiet(e)
    BY <1>0, <2>1, <2>2, Effects, MovedQuiet DEF LoadedLabels, HeldLabels, Loaded, Held
  <2>4. UNCHANGED <<lock, lockLive>>
    BY <1>4 DEF CompleteCas
  <2> QED
    BY <2>3, <2>4, LockQuiet
<1>5. ASSUME Unlock(e) PROVE LockInv'
  <2>1. Live(e)
    BY <1>5 DEF Unlock, At, Live
  <2>2. ASSUME Become(e, [ex[e] EXCEPT !.pc = "catch", !.hb = "off"]),
               UNCHANGED <<lock, lockLive>>
        PROVE  LockInv'
    <3>1. TokenQuiet(e)
      BY <1>0, <1>5, <2>1, <2>2, Effects, MovedQuiet
         DEF Unlock, At, LoadedLabels, HeldLabels, Loaded, Held
    <3> QED
      BY <2>2, <3>1, LockQuiet
  <2>3. ASSUME Become(e, [ex[e] EXCEPT !.pc = "recheck", !.hb = "off", !.token = FALSE]),
               ReleaseLock(ExecToken(e))
        PROVE  LockInv'
    <3>1. ex'[e].pc = "recheck" /\ ex'[e].token = FALSE /\ Others(e)
      BY <1>0, <2>3, SpecialEffects
    <3>2. \A x \in Execs : x # e /\ lock = ExecToken(x) /\ lockLive =>
            lock' = ExecToken(x) /\ lockLive'
      BY <2>3, TokensDiffer DEF ReleaseLock
    <3> QED
      BY <3>1, <3>2 DEF Others, LockInv, Held, Live, HeldLabels
  <2> QED
    BY <1>5, <2>2, <2>3 DEF Unlock
<1>6. ASSUME Finally(e) PROVE LockInv'
  <2>1. ex'[e].pc \notin HeldLabels /\ ex'[e].token = FALSE /\ Others(e)
    BY <1>0, <1>6, Endings DEF Finally, Reset, HeldLabels
  <2>2. ReleaseLock(ExecToken(e)) \/ UNCHANGED <<lock, lockLive>>
    BY <1>6 DEF Finally
  <2>3. \A x \in Execs : x # e /\ lock = ExecToken(x) /\ lockLive =>
          lock' = ExecToken(x) /\ lockLive'
    BY <2>2, TokensDiffer DEF ReleaseLock
  <2> QED
    BY <2>1, <2>3 DEF Others, LockInv, Held, Live
<1>7. ASSUME TokenQuiet(e), UNCHANGED <<lock, lockLive>> PROVE LockInv'
  BY <1>7, LockQuiet
<1> QED
  BY <1>1, <1>2, <1>3, <1>4, <1>5, <1>6, <1>7, QuietStep DEF ExecStep, HeartbeatStep

LEMMA AssignEffects ==
  ASSUME ExecTypeOK, NEW m \in Managers, AssignOwner(m), mgr[m].exec \in Execs
  PROVE  /\ owner' = mgr[m].exec /\ Reset(mgr[m].exec, "assigned", mgr[m].exec)
         /\ \A x \in Execs : x # mgr[m].exec => Carried(x)
<1>1. TakesOwnership(mgr[m].exec, mgr[m].exec, Isolated, "assigned")
  BY DEF AssignOwner
<1> QED
  BY <1>1, TakeEffects

LEMMA LockManager ==
  ASSUME TypeOK, LockInv, NEW m \in Managers, ManagerStep(m)
  PROVE  LockInv'
<1>0. ExecTypeOK /\ (mgr[m].pc # "idle" => mgr[m].exec \in Execs)
  BY DEF TypeOK, MgrTypeOK
<1> USE DEF backendVars
<1>1. ASSUME UNCHANGED <<ex, lock, lockLive>> PROVE LockInv'
  BY <1>1, LockKept DEF TokensKept
<1>2. ASSUME MgrAcquire(m) PROVE LockInv'
  <2>1. ex' = ex
    BY <1>2 DEF MgrAcquire
  <2>2. ASSUME AcquireLock(ClaimToken(mgr[m].exec)) PROVE LockInv'
    <3>1. LockFree
      BY <2>2 DEF AcquireLock
    <3>2. \A x \in Execs : ~ex[x].token
      BY <3>1, FreeUnheld
    <3> QED
      BY <2>1, <3>2 DEF LockInv, Held, Live
  <2> QED
    BY <1>1, <1>2, <2>1, <2>2 DEF MgrAcquire
<1>3. ASSUME MgrClaimStalled(m) PROVE LockInv'
  <2>1. UNCHANGED <<lock, lockLive>>
    BY <1>3 DEF MgrClaimStalled, ClaimStalledRun
  <2>2. ex' = ex \/ ex' = Superseded
    BY <1>3 DEF MgrClaimStalled
  <2>3. TokensKept
    BY <1>0, <2>2, SupersededFields DEF TokensKept
  <2> QED
    BY <2>1, <2>3, LockKept
<1>4. ASSUME MgrAssign(m) \/ MgrAssignRejected(m) PROVE LockInv'
  <2>1. UNCHANGED <<lock, lockLive>> /\ mgr[m].exec \in Execs
    BY <1>0, <1>4 DEF MgrAssign, MgrAssignRejected, MgrAt
  <2>2. ASSUME AssignOwner(m) PROVE LockInv'
    <3>1. /\ Reset(mgr[m].exec, "assigned", mgr[m].exec)
          /\ \A x \in Execs : x # mgr[m].exec => Carried(x)
      BY <1>0, <2>1, <2>2, AssignEffects
    <3>2. TokensKept
      BY <3>1 DEF Reset, Carried, TokensKept, HeldLabels
    <3> QED
      BY <2>1, <3>2, LockKept
  <2>3. AssignOwner(m) \/ ex' = ex
    BY <1>4 DEF MgrAssign, MgrAssignRejected
  <2> QED
    BY <1>1, <2>1, <2>2, <2>3
<1>5. ASSUME MgrCreate(m) PROVE LockInv'
  <2>1. mgr[m].exec \in Execs /\ UNCHANGED <<lock, lockLive>>
    BY <1>0, <1>5 DEF MgrCreate, MgrAt
  <2>2. Moved(mgr[m].exec, "resume") /\ Others(mgr[m].exec)
    BY <1>0, <1>5, <2>1, Effects DEF MgrCreate
  <2> QED
    BY <2>1, <2>2 DEF Moved, Others, LockInv, Held, Live, HeldLabels
<1>6. ASSUME MgrRelease(m) PROVE LockInv'
  <2>1. ex' = ex
    BY <1>6 DEF MgrRelease
  <2>2. ReleaseLock(ClaimToken(mgr[m].exec)) \/ UNCHANGED <<lock, lockLive>>
    BY <1>6 DEF MgrRelease
  <2>3. \A x \in Execs : lock = ExecToken(x) /\ lockLive => lock' = ExecToken(x) /\ lockLive'
    BY <2>2, TokensDiffer DEF ReleaseLock
  <2> QED
    BY <2>1, <2>3 DEF LockInv, Held, Live
<1>7. ASSUME \/ MgrPoll(m) \/ MgrRecheck(m) \/ MgrCreateFails(m) \/ MgrFailOwned(m)
             \/ MgrFailLook(m) \/ MgrFailClaimed(m) \/ MgrSync(m)
      PROVE  LockInv'
  <2>1. UNCHANGED <<ex, lock, lockLive>>
    BY <1>7 DEF MgrPoll, PollWhen, MgrRecheck, MgrCreateFails, MgrFailOwned, MgrFailLook,
                MgrFailClaimed, MgrSync
  <2> QED
    BY <1>1, <2>1
<1> QED
  BY <1>2, <1>3, <1>4, <1>5, <1>6, <1>7 DEF ManagerStep

LEMMA LockEnvironment ==
  ASSUME TypeOK, LockInv, ~Async,
         \/ \E w \in Workers, e \in Execs : WorkerClaim(w, e)
         \/ CrashStep \/ TimeStep
  PROVE  LockInv'
<1>0. ExecTypeOK
  BY DEF TypeOK
<1> USE DEF backendVars, controlVars
<1>1. ASSUME NEW w \in Workers, NEW e \in Execs, WorkerClaim(w, e) PROVE LockInv'
  <2>1. TakesOwnership(w, e, w, "resume") /\ UNCHANGED <<lock, lockLive>>
    BY <1>1 DEF WorkerClaim, ClaimStalledRun
  <2> QED
    BY <1>0, <2>1, TakeKeepsTokens, LockKept DEF HeldLabels
<1>2. ASSUME NEW e \in Execs, CrashIsolated(e) PROVE LockInv'
  BY <1>2, QuietStep, LockQuiet
<1>3. ASSUME NEW h \in Hosts, CrashHost(h) PROVE LockInv'
  <2>1. UNCHANGED <<lock, lockLive>>
    BY <1>3 DEF CrashHost
  <2>2. TokensKept
    BY <1>0, <1>3, CrashHostEffects DEF Reset, TokensKept, HeldLabels
  <2> QED
    BY <2>1, <2>2, LockKept
<1>4. ASSUME NEW m \in Managers, CrashManager(m) PROVE LockInv'
  <2>1. UNCHANGED <<ex, lock, lockLive>>
    BY <1>4 DEF CrashManager
  <2> QED
    BY <2>1, LockKept DEF TokensKept
<1>5. ASSUME LockExpires PROVE LockInv'
  <2>1. \A x \in Execs : ~ex[x].token
    BY <1>5 DEF LockExpires, HolderAlive, LockInv
  <2>2. ex' = ex
    BY <1>5 DEF LockExpires
  <2> QED
    BY <2>1, <2>2 DEF LockInv, Held
<1>6. ASSUME HeartbeatAges \/ StalledClaimExpires PROVE LockInv'
  <2>1. UNCHANGED <<ex, lock, lockLive>>
    BY <1>6 DEF HeartbeatAges, StalledClaimExpires
  <2> QED
    BY <2>1, LockKept DEF TokensKept
<1> QED
  BY <1>1, <1>2, <1>3, <1>4, <1>5, <1>6 DEF CrashStep, TimeStep

LEMMA LockInit == Init => LockInv
BY DEF Init, LockInv, Held, HeldLabels, Unused

LEMMA LockStep ==
  ASSUME TypeOK, LockInv, ~Async, [Next]_vars
  PROVE  LockInv'
<1>1. CASE Next
  BY <1>1, LockClient, LockExecution, LockManager, LockEnvironment DEF Next
<1>2. CASE UNCHANGED vars
  <2>1. UNCHANGED <<ex, lock, lockLive>>
    BY <1>2 DEF vars, backendVars, controlVars
  <2> QED
    BY <2>1, LockKept DEF TokensKept
<1> QED
  BY <1>1, <1>2

(* As long as only dead processes lose their leases, an execution that has *)
(* passed its activation holds the lock of the run until it releases it,   *)
(* for any number of processes, retries and crashes: two executions are    *)
(* never active together.                                                  *)
THEOREM Exclusion ==
  ASSUME ~Async
  PROVE  Spec => []SoleExecution
<1>1. Init => LockInv
  BY LockInit
<1>2. TypeOK /\ LockInv /\ [Next]_vars => LockInv'
  BY LockStep
<1>3. LockInv => SoleExecution
  BY DEF LockInv, SoleExecution, Activated, Working, Held, HeldLabels
<1> QED
  BY <1>1, <1>2, <1>3, TypeCorrect, PTL DEF Spec

---------------------------------------------------------------------------
(* Fencing                                                                 *)

LEMMA IdsDiffer ==
  /\ \A x \in Execs : x # None
  /\ \A m \in Managers : m \notin Execs
  /\ \A w \in Workers : w \notin Execs
BY ControlAssumption DEF WorkerIds

LEMMA ReservedStay ==
  ASSUME MgrTypeOK, ReservedInv, UNCHANGED mgr,
         NEW e, \A m \in Managers : mgr[m].exec # e \/ ex[mgr[m].exec].pc # "idle",
         \A x \in Execs : x # e /\ ex[x].pc = "idle" => ex'[x].pc = "idle"
  PROVE  ReservedInv'
<1>1. ASSUME NEW m \in Managers, mgr[m].pc \in {"acquire", "recheck", "stall", "assign"}
      PROVE  ex'[mgr[m].exec].pc = "idle"
  <2>1. mgr[m].exec \in Execs /\ ex[mgr[m].exec].pc = "idle"
    BY <1>1 DEF MgrTypeOK, ReservedInv
  <2> QED
    BY <2>1
<1> QED
  BY <1>1 DEF ReservedInv

LEMMA ReservedIdle ==
  ASSUME MgrTypeOK, ReservedInv, UNCHANGED mgr,
         \A x \in Execs : ex[x].pc = "idle" => ex'[x].pc = "idle"
  PROVE  ReservedInv'
<1>1. ASSUME NEW m \in Managers, mgr[m].pc \in {"acquire", "recheck", "stall", "assign"}
      PROVE  ex'[mgr[m].exec].pc = "idle"
  BY <1>1 DEF MgrTypeOK, ReservedInv
<1> QED
  BY <1>1 DEF ReservedInv

(* A step of one execution that leaves ownership alone.                    *)
LEMMA FenceOwnership ==
  ASSUME MgrTypeOK, FenceInv, NEW e \in Execs, FenceQuiet(e), StoreQuiet,
         UNCHANGED mgr
  PROVE  UnspentInv' /\ ReservedInv' /\ DisownedInv'
<1>1. \A x \in Execs : ex'[x].pc \in {"idle", "retryCas"} => ex'[x].pc = ex[x].pc
  BY DEF FenceQuiet, Others
<1>2. \A x \in Execs : /\ ex'[x].ident \in {ex[x].ident, None}
                       /\ ex'[x].prev \in {ex[x].prev, None}
  BY DEF FenceQuiet, Others
<1>3. UnspentInv'
  BY <1>1, <1>2, IdsDiffer DEF FenceInv, UnspentInv, StoreQuiet
<1>4. ReservedInv'
  <2>1. \A x \in Execs : x # e /\ ex[x].pc = "idle" => ex'[x].pc = "idle"
    BY DEF FenceQuiet, Others
  <2>2. \A m \in Managers : mgr[m].exec # e \/ ex[mgr[m].exec].pc # "idle"
    BY DEF FenceQuiet
  <2> QED
    BY <2>1, <2>2, ReservedStay DEF FenceInv
<1>5. DisownedInv'
  <2>1. \A x \in Execs : ex'[x].pc \in LoadedLabels /\ ex'[x].stale => Loaded(x) /\ ex[x].stale
    BY DEF FenceQuiet, Others, Loaded
  <2> QED
    BY <1>2, <2>1, IdsDiffer DEF FenceInv, DisownedInv, Loaded, StoreQuiet
<1> QED
  BY <1>3, <1>4, <1>5

LEMMA FenceFrame ==
  ASSUME MgrTypeOK, FenceInv, NEW e \in Execs, FenceQuiet(e), StoreQuiet,
         UNCHANGED <<mgr, committer>>
  PROVE  FenceInv'
BY FenceOwnership DEF FenceInv, FencedCompletion

(* Any number of executions end or give up, the others stay as they are.   *)
EndedOrSame ==
  \A x \in Execs : \/ Carried(x) /\ ex'[x].stale = ex[x].stale
                   \/ Loaded(x) /\ (Moved(x, "catch") \/ Moved(x, "finally"))
                   \/ Live(x) /\ Reset(x, "crashed", None)

LEMMA FenceStay ==
  ASSUME FenceInv, EndedOrSame, StoreQuiet, UNCHANGED committer
  PROVE  /\ UnspentInv' /\ DisownedInv' /\ FencedCompletion'
         /\ \A x \in Execs : ex[x].pc = "idle" => ex'[x].pc = "idle"
<1>1. \A x \in Execs : /\ ex'[x].pc \in {ex[x].pc, "crashed", "catch", "finally"}
                       /\ ex'[x].ident \in {ex[x].ident, None}
                       /\ ex'[x].prev \in {ex[x].prev, None}
  BY DEF EndedOrSame, Carried, Moved, Reset
<1>2. UnspentInv'
  BY <1>1, IdsDiffer DEF FenceInv, UnspentInv, StoreQuiet
<1>3. DisownedInv'
  <2>1. \A x \in Execs : ex'[x].pc \in LoadedLabels /\ ex'[x].stale => Loaded(x) /\ ex[x].stale
    BY DEF EndedOrSame, Carried, Moved, Reset, Loaded, LoadedLabels
  <2> QED
    BY <1>1, <2>1, IdsDiffer DEF FenceInv, DisownedInv, Loaded, StoreQuiet
<1>4. FencedCompletion'
  BY DEF FenceInv, FencedCompletion
<1>5. \A x \in Execs : ex[x].pc = "idle" => ex'[x].pc = "idle"
  BY DEF EndedOrSame, Carried, Live, Loaded, LoadedLabels
<1> QED
  BY <1>2, <1>3, <1>4, <1>5

(* A new owner: an id used for the first time, or one that is no           *)
(* execution's.                                                            *)
LEMMA FenceTake ==
  ASSUME UnspentInv, NEW e \in Execs, NEW w \in {e} \cup Managers \cup Workers,
         ex[e].pc \in {"idle", "retryCas"}, owner' = w,
         ex'[e].pc \notin {"idle", "retryCas"} \cup LoadedLabels,
         ex'[e].ident \in {w, ex[e].ident}, ex'[e].prev \in {None, ex[e].prev},
         \A x \in Execs : x # e => Carried(x)
  PROVE  UnspentInv' /\ DisownedInv'
<1>1. \A x \in Execs : x # e => w # x
  BY IdsDiffer
<1>2. ASSUME NEW x \in Execs, ex'[x].pc \in {"idle", "retryCas"}
      PROVE  /\ x # e /\ owner' # x
             /\ \A y \in Execs : ex'[y].prev # x /\ (y # x => ex'[y].ident # x)
  <2>1. x # e /\ ex[x].pc \in {"idle", "retryCas"}
    BY <1>2 DEF Carried
  <2>2. \A y \in Execs : ex[y].prev # x /\ (y # x => ex[y].ident # x)
    BY <2>1 DEF UnspentInv
  <2>3. ex'[e].prev # x /\ ex'[e].ident # x
    BY <1>1, <2>1, <2>2, IdsDiffer
  <2>4. \A y \in Execs : y # e => ex'[y].prev # x /\ (y # x => ex'[y].ident # x)
    BY <2>2 DEF Carried
  <2> QED
    BY <1>1, <2>1, <2>3, <2>4
<1>3. UnspentInv'
  BY <1>2 DEF UnspentInv
<1>4. ASSUME NEW x \in Execs, ex'[x].pc \in LoadedLabels, ex'[x].ident \in Execs
      PROVE  owner' # ex'[x].ident
  <2>1. x # e
    BY <1>4
  <2>2. ex[x].ident # e /\ ex'[x].ident = ex[x].ident
    BY <2>1 DEF UnspentInv, Carried
  <2> QED
    BY <1>4, <2>2, IdsDiffer
<1>5. DisownedInv'
  BY <1>4 DEF DisownedInv, Loaded
<1> QED
  BY <1>3, <1>5

LEMMA FenceClient ==
  ASSUME TypeOK, FenceInv, ClientStep
  PROVE  FenceInv'
<1>0. ExecTypeOK /\ MgrTypeOK
  BY DEF TypeOK
<1> USE DEF backendVars, managerSide
<1>1. PICK c \in Clients :
        \/ \E e \in Execs : Start(c, e) \/ ResumeReconciled(c, e) \/ RetryRead(c, e)
        \/ Reject(c) \/ CancelBegin(c) \/ CancelCommit(c) \/ CancelRejected(c)
  BY DEF ClientStep
<1>2. ASSUME NEW e \in Execs, Start(c, e) PROVE FenceInv'
  <2>1. /\ ex[e].pc = "idle" /\ \A m \in Managers : mgr[m].exec # e
        /\ TakesOwnership(e, e, c, "load") /\ UNCHANGED <<mgr, committer>>
    BY <1>2 DEF Start, FreshId, At
  <2>2. owner' = e /\ Reset(e, "load", e) /\ \A x \in Execs : x # e => Carried(x)
    BY <1>0, <2>1, TakeEffects
  <2>3. UnspentInv' /\ DisownedInv'
    BY <2>1, <2>2, FenceTake DEF FenceInv, Reset, LoadedLabels
  <2>4. ReservedInv'
    BY <1>0, <2>1, <2>2, ReservedStay DEF FenceInv, Carried
  <2> QED
    BY <2>1, <2>3, <2>4 DEF FenceInv, FencedCompletion
<1>3. ASSUME NEW e \in Execs, ResumeReconciled(c, e) \/ RetryRead(c, e) PROVE FenceInv'
  <2>1. /\ ex[e].pc = "idle" /\ \A m \in Managers : mgr[m].exec # e
        /\ UNCHANGED <<status, owner, mgr, committer>>
    BY <1>3 DEF ResumeReconciled, RetryRead, FreshId, At
  <2>2. /\ ex'[e].pc \in {"resume", "retryCas"} /\ ex'[e].ident \in {owner, e}
        /\ ex'[e].prev \in {owner, None} /\ Others(e)
    <3>1. ASSUME Become(e, Launched(c, owner, "resume"))
          PROVE  Reset(e, "resume", owner) /\ Others(e)
      BY <1>0, <3>1, LaunchEffects
    <3>2. ASSUME Become(e, [Launched(c, e, "retryCas") EXCEPT !.prev = owner])
          PROVE  /\ ex'[e].pc = "retryCas" /\ ex'[e].ident = e /\ ex'[e].prev = owner
                 /\ ex'[e].stale = FALSE /\ ex'[e].token = FALSE /\ Others(e)
      BY <1>0, <3>2, RetryReadEffects
    <3> QED
      BY <1>3, <3>1, <3>2 DEF ResumeReconciled, RetryRead, Reset
  <2>3. UnspentInv'
    <3>1. \A x \in Execs : ex'[x].pc \in {"idle", "retryCas"} =>
            ex[x].pc \in {"idle", "retryCas"}
      BY <2>1, <2>2 DEF Others
    <3>2. \A x \in Execs : ex'[x].pc \in {"idle", "retryCas"} =>
            /\ owner # x
            /\ ex'[e].prev # x /\ (e # x => ex'[e].ident # x)
      BY <2>2, <3>1, IdsDiffer DEF FenceInv, UnspentInv
    <3>3. \A x, y \in Execs : ex'[x].pc \in {"idle", "retryCas"} /\ y # e =>
            ex'[y].prev # x /\ (y # x => ex'[y].ident # x)
      BY <2>2, <3>1 DEF FenceInv, UnspentInv, Others
    <3> QED
      BY <2>1, <3>2, <3>3 DEF UnspentInv
  <2>4. DisownedInv'
    BY <2>1, <2>2 DEF FenceInv, DisownedInv, Loaded, LoadedLabels, Others
  <2>5. ReservedInv'
    BY <1>0, <2>1, <2>2, ReservedStay DEF FenceInv, Others
  <2> QED
    BY <2>1, <2>3, <2>4, <2>5 DEF FenceInv, FencedCompletion
<1>4. ASSUME Reject(c) \/ CancelBegin(c) \/ CancelCommit(c) \/ CancelRejected(c)
      PROVE  FenceInv'
  <2>1. ASSUME CancelBegin(c) PROVE EndedOrSame
    BY <1>0, <2>1, CancelEffects DEF EndedOrSame
  <2>2. ASSUME ex' = ex PROVE EndedOrSame
    BY <2>2 DEF EndedOrSame, Carried
  <2>3. ASSUME UpdateRejects(c) PROVE EndedOrSame
    BY <1>0, <2>3, UpdateEffects DEF EndedOrSame, Carried
  <2>4. EndedOrSame
    BY <1>4, <2>1, <2>2, <2>3 DEF Reject, CancelCommit, CancelRejected
  <2>5. StoreQuiet /\ UNCHANGED <<mgr, committer>>
    BY <1>4 DEF Reject, CancelBegin, CancelCommit, CancelRejected, StoreQuiet, StoreStatus,
                Terminal
  <2>6. /\ UnspentInv' /\ DisownedInv' /\ FencedCompletion'
        /\ \A x \in Execs : ex[x].pc = "idle" => ex'[x].pc = "idle"
    BY <2>4, <2>5, FenceStay
  <2>7. ReservedInv'
    BY <1>0, <2>5, <2>6, ReservedIdle DEF FenceInv
  <2> QED
    BY <2>6, <2>7 DEF FenceInv
<1> QED
  BY <1>1, <1>2, <1>3, <1>4

LEMMA FenceExecution ==
  ASSUME TypeOK, FenceInv, NEW e \in Execs, ExecStep(e) \/ HeartbeatStep(e)
  PROVE  FenceInv'
<1>0. ExecTypeOK /\ MgrTypeOK
  BY DEF TypeOK
<1> USE DEF managerSide
<1>1. ASSUME RetryCas(e) PROVE FenceInv'
  <2>1. ex[e].pc = "retryCas" /\ UNCHANGED <<mgr, committer>>
    BY <1>1 DEF RetryCas, At
  <2>2. ASSUME Return(e), UNCHANGED <<status, owner>> PROVE FenceInv'
    <3>1. FenceQuiet(e)
      BY <1>0, <2>1, <2>2, Endings, ResetQuiet DEF Live
    <3> QED
      BY <1>0, <2>1, <2>2, <3>1, FenceFrame DEF StoreQuiet
  <2>3. ASSUME owner' = e,
               ex' = [Superseded EXCEPT ![e] = [ex[e] EXCEPT !.pc = "reconcile"]]
        PROVE  FenceInv'
    <3>1. Moved(e, "reconcile") /\ \A x \in Execs : x # e => Carried(x)
      BY <1>0, <2>3, RetryCasEffects
    <3>2. UnspentInv' /\ DisownedInv'
      BY <2>1, <2>3, <3>1, FenceTake DEF FenceInv, Moved, LoadedLabels
    <3>3. ReservedInv'
      BY <1>0, <2>1, <3>1, ReservedStay DEF FenceInv, Carried
    <3> QED
      BY <2>1, <3>2, <3>3 DEF FenceInv, FencedCompletion
  <2> QED
    BY <1>1, <2>2, <2>3 DEF RetryCas
<1>2. ASSUME RetryRollback(e) PROVE FenceInv'
  <2>1. ex[e].pc = "reconcile" /\ Return(e) /\ UNCHANGED <<mgr, committer>>
    BY <1>2 DEF RetryRollback, At
  <2>2. FenceQuiet(e) /\ Reset(e, "done", None) /\ Others(e)
    BY <1>0, <2>1, Endings, ResetQuiet DEF Live
  <2>3. ASSUME UNCHANGED <<status, owner>> PROVE FenceInv'
    BY <1>0, <2>1, <2>2, <2>3, FenceFrame DEF StoreQuiet
  <2>4. ASSUME status' = "failed", owner' = ex[e].prev PROVE FenceInv'
    <3>1. UnspentInv'
      <4>1. \A x \in Execs : ex'[x].pc \in {"idle", "retryCas"} =>
              ex[x].pc \in {"idle", "retryCas"} /\ owner' # x
        BY <2>2, <2>4 DEF FenceInv, UnspentInv, Reset, Others
      <4>2. \A y \in Execs : /\ ex'[y].prev \in {ex[y].prev, None}
                             /\ ex'[y].ident \in {ex[y].ident, None}
        BY <2>2 DEF Reset, Others
      <4> QED
        BY <4>1, <4>2, IdsDiffer DEF FenceInv, UnspentInv
    <3>2. DisownedInv'
      BY <2>4 DEF DisownedInv, Terminal
    <3>3. ReservedInv'
      BY <1>0, <2>1, <2>2, ReservedStay DEF FenceInv, Others
    <3> QED
      BY <2>1, <3>1, <3>2, <3>3 DEF FenceInv, FencedCompletion
  <2> QED
    BY <1>2, <2>3, <2>4 DEF RetryRollback, StoreStatus
<1>3. ASSUME Acquire(e) PROVE FenceInv'
  <2>1. ex[e].pc = "acquire" /\ Live(e)
    BY <1>3 DEF Acquire, At, Live
  <2>2. UNCHANGED <<status, owner, mgr, committer>>
    BY <1>3 DEF Acquire
  <2>3. ASSUME Throw(e) PROVE FenceQuiet(e)
    BY <1>0, <2>1, <2>3, Endings, ResetQuiet
  <2>4. ASSUME Become(e, [ex[e] EXCEPT !.pc = "admit", !.token = TRUE]) PROVE FenceQuiet(e)
    <3>1. /\ ex'[e].pc = "admit" /\ ex'[e].ident = ex[e].ident /\ ex'[e].prev = ex[e].prev
          /\ ex'[e].stale = ex[e].stale /\ Others(e)
      BY <1>0, <2>4, SpecialEffects
    <3> QED
      BY <2>1, <3>1 DEF FenceQuiet, Loaded, LoadedLabels
  <2>5. FenceQuiet(e)
    BY <1>3, <2>3, <2>4 DEF Acquire
  <2> QED
    BY <1>0, <2>2, <2>5, FenceFrame DEF StoreQuiet
<1>4. ASSUME CompleteCas(e) PROVE FenceInv'
  <2>1. Live(e) /\ Loaded(e)
    BY <1>4 DEF CompleteCas, At, Live, Loaded, LoadedLabels
  <2>2. PICK l \in {"finally", "catch"} : Goto(e, l)
    BY <1>4 DEF CompleteCas
  <2>3. FenceQuiet(e)
    BY <1>0, <2>1, <2>2, Effects, MovedQuiet DEF LoadedLabels, HeldLabels, Loaded, Held
  <2>4. StoreQuiet /\ UNCHANGED mgr
    BY <1>4 DEF CompleteCas, StoreQuiet, StoreStatus, Terminal
  <2>5. FencedCompletion'
    <3>1. ASSUME UNCHANGED committer PROVE FencedCompletion'
      BY <3>1 DEF FenceInv, FencedCompletion
    <3>2. ASSUME Matches({"running"}, ex[e].ident),
                 committer' = [ident |-> ex[e].ident, stale |-> ex[e].stale]
          PROVE  FencedCompletion'
      <4>1. ex[e].ident \in Execs => ~ex[e].stale
        BY <2>1, <3>2, IdsDiffer DEF Matches, FenceInv, DisownedInv, Terminal
      <4>2. committer'.ident = ex[e].ident /\ committer'.stale = ex[e].stale
        BY <3>2
      <4> QED
        BY <4>1, <4>2 DEF FencedCompletion
    <3> QED
      BY <1>4, <3>1, <3>2 DEF CompleteCas
  <2>6. UnspentInv' /\ ReservedInv' /\ DisownedInv'
    BY <1>0, <2>3, <2>4, FenceOwnership
  <2> QED
    BY <2>5, <2>6 DEF FenceInv
<1>5. ASSUME Unlock(e) PROVE FenceInv'
  <2>1. ex[e].pc = "unlock" /\ Live(e)
    BY <1>5 DEF Unlock, At, Live
  <2>2. UNCHANGED <<status, owner, mgr, committer>>
    BY <1>5 DEF Unlock
  <2>3. ASSUME Become(e, [ex[e] EXCEPT !.pc = "catch", !.hb = "off"]) PROVE FenceQuiet(e)
    BY <1>0, <2>1, <2>3, Effects, MovedQuiet DEF LoadedLabels, HeldLabels, Loaded, Held
  <2>4. ASSUME Become(e, [ex[e] EXCEPT !.pc = "recheck", !.hb = "off", !.token = FALSE])
        PROVE  FenceQuiet(e)
    <3>1. /\ ex'[e].pc = "recheck" /\ ex'[e].ident = ex[e].ident
          /\ ex'[e].prev = ex[e].prev /\ ex'[e].stale = ex[e].stale /\ Others(e)
      BY <1>0, <2>4, SpecialEffects
    <3>2. Loaded(e)
      BY <2>1 DEF Loaded, LoadedLabels
    <3> QED
      BY <2>1, <3>1, <3>2 DEF FenceQuiet
  <2>5. FenceQuiet(e)
    BY <1>5, <2>3, <2>4 DEF Unlock
  <2> QED
    BY <1>0, <2>2, <2>5, FenceFrame DEF StoreQuiet
<1>6. ASSUME Finally(e) PROVE FenceInv'
  <2>1. Live(e)
    BY <1>6 DEF Finally, At, Live
  <2>2. UNCHANGED <<status, owner, mgr, committer>>
    BY <1>6 DEF Finally
  <2>3. FenceQuiet(e)
    BY <1>0, <1>6, <2>1, Endings, ResetQuiet DEF Finally
  <2> QED
    BY <1>0, <2>2, <2>3, FenceFrame DEF StoreQuiet
<1>7. ASSUME FenceQuiet(e), StoreQuiet, UNCHANGED <<mgr, committer>> PROVE FenceInv'
  BY <1>0, <1>7, FenceFrame
<1> QED
  BY <1>1, <1>2, <1>3, <1>4, <1>5, <1>6, <1>7, QuietStep DEF ExecStep, HeartbeatStep

---------------------------------------------------------------------------

Reserving == {"acquire", "recheck", "stall", "assign"}

(* A manager goes on with its claim, or drops it.                          *)
MgrNow(m, l) ==
  /\ mgr'[m].pc = l /\ mgr'[m].exec = mgr[m].exec
  /\ \A n \in Managers : n # m => mgr'[n] = mgr[n]

MgrFreed(m) ==
  /\ mgr'[m].pc = "idle" /\ mgr'[m].exec = None
  /\ \A n \in Managers : n # m => mgr'[n] = mgr[n]

LEMMA MgrEffects ==
  ASSUME MgrTypeOK, NEW m \in Managers, NEW l
  PROVE  /\ MgrGoto(m, l) => MgrNow(m, l)
         /\ \A p : MgrBecome(m, [mgr[m] EXCEPT !.pc = l, !.phase = p]) => MgrNow(m, l)
         /\ MgrBecome(m, [mgr[m] EXCEPT !.pc = l, !.created = TRUE]) => MgrNow(m, l)
         /\ MgrBecome(m, MgrIdle) => MgrFreed(m)
<1>1. ASSUME NEW r, MgrBecome(m, r)
      PROVE  mgr'[m] = r /\ \A n \in Managers : n # m => mgr'[n] = mgr[n]
  BY <1>1 DEF MgrBecome, MgrTypeOK
<1>2. mgr[m] \in MgrState
  BY DEF MgrTypeOK
<1>3. ASSUME MgrGoto(m, l) PROVE MgrNow(m, l)
  <2>1. mgr'[m] = [mgr[m] EXCEPT !.pc = l] /\ \A n \in Managers : n # m => mgr'[n] = mgr[n]
    BY <1>1, <1>3 DEF MgrGoto
  <2> QED
    BY <1>2, <2>1 DEF MgrState, MgrNow
<1>4. ASSUME NEW p, MgrBecome(m, [mgr[m] EXCEPT !.pc = l, !.phase = p]) PROVE MgrNow(m, l)
  <2>1. /\ mgr'[m] = [mgr[m] EXCEPT !.pc = l, !.phase = p]
        /\ \A n \in Managers : n # m => mgr'[n] = mgr[n]
    BY <1>1, <1>4
  <2> QED
    BY <1>2, <2>1 DEF MgrState, MgrNow
<1>5. ASSUME MgrBecome(m, [mgr[m] EXCEPT !.pc = l, !.created = TRUE]) PROVE MgrNow(m, l)
  <2>1. /\ mgr'[m] = [mgr[m] EXCEPT !.pc = l, !.created = TRUE]
        /\ \A n \in Managers : n # m => mgr'[n] = mgr[n]
    BY <1>1, <1>5
  <2> QED
    BY <1>2, <2>1 DEF MgrState, MgrNow
<1>6. ASSUME MgrBecome(m, MgrIdle) PROVE MgrFreed(m)
  BY <1>1, <1>6 DEF MgrIdle, MgrFreed
<1> QED
  BY <1>3, <1>4, <1>5, <1>6

(* The reservations survive a manager's step that wakes at most the        *)
(* execution it had reserved.                                              *)
LEMMA ReservedMove ==
  ASSUME MgrTypeOK, ReservedInv, NEW m \in Managers, NEW l,
         \/ MgrFreed(m)
         \/ MgrNow(m, l) /\ mgr[m].pc # "idle" /\ (l \in Reserving => mgr[m].pc \in Reserving),
         \A x \in Execs : ex[x].pc = "idle" =>
           \/ ex'[x].pc = "idle"
           \/ x = mgr[m].exec /\ mgr[m].pc # "idle" /\ mgr'[m].pc \notin Reserving
  PROVE  ReservedInv'
<1>1. ASSUME NEW n \in Managers, mgr'[n].pc \in Reserving
      PROVE  ex'[mgr'[n].exec].pc = "idle"
  <2>1. /\ mgr'[n].exec = mgr[n].exec /\ mgr[n].pc \in Reserving
        /\ n = m => mgr'[m].pc \in Reserving
    BY <1>1 DEF MgrFreed, MgrNow, Reserving
  <2>2. mgr[n].exec \in Execs /\ ex[mgr[n].exec].pc = "idle"
    BY <2>1 DEF MgrTypeOK, ReservedInv, Reserving
  <2>3. CASE n = m
    BY <2>1, <2>2, <2>3
  <2>4. CASE n # m
    <3>1. mgr[n].exec # mgr[m].exec
      BY <2>1, <2>4 DEF ReservedInv, Reserving
    <3> QED
      BY <2>1, <2>2, <3>1
  <2> QED
    BY <2>3, <2>4
<1>2. ASSUME NEW a \in Managers, NEW b \in Managers, a # b, mgr'[a].pc # "idle"
      PROVE  mgr'[a].exec # mgr'[b].exec
  <2>1. mgr'[a].exec = mgr[a].exec /\ mgr[a].pc # "idle"
    BY <1>2 DEF MgrFreed, MgrNow
  <2>2. mgr[a].exec \in Execs /\ mgr[a].exec # mgr[b].exec
    BY <1>2, <2>1 DEF MgrTypeOK, ReservedInv
  <2>3. mgr'[b].exec \in {mgr[b].exec, None}
    BY DEF MgrFreed, MgrNow
  <2> QED
    BY <2>1, <2>2, <2>3, IdsDiffer
<1> QED
  BY <1>1, <1>2 DEF ReservedInv, Reserving

LEMMA FenceManager ==
  ASSUME TypeOK, FenceInv, NEW m \in Managers, ManagerStep(m)
  PROVE  FenceInv'
<1>0. ExecTypeOK /\ MgrTypeOK /\ (mgr[m].pc # "idle" => mgr[m].exec \in Execs)
  BY DEF TypeOK, MgrTypeOK
<1>00. ReservedInv /\ UnspentInv /\ FencedCompletion
  BY DEF FenceInv
<1> USE DEF backendVars
<1>1. ASSUME UNCHANGED <<ex, committer>>, StoreQuiet, NEW l,
             \/ MgrFreed(m)
             \/ MgrNow(m, l) /\ mgr[m].pc # "idle" /\ (l \in Reserving => mgr[m].pc \in Reserving)
      PROVE  FenceInv'
  <2>1. UnspentInv' /\ DisownedInv' /\ FencedCompletion'
    BY <1>1, FenceStay DEF EndedOrSame, Carried
  <2>2. ReservedInv'
    BY <1>0, <1>00, <1>1, ReservedMove
  <2> QED
    BY <2>1, <2>2 DEF FenceInv
<1>2. ASSUME MgrPoll(m) PROVE FenceInv'
  <2>1. UNCHANGED <<ex, status, owner, committer>>
    BY <1>2 DEF MgrPoll, PollWhen
  <2>2. PICK e \in Execs :
          /\ FreshId(e)
          /\ MgrBecome(m, [MgrIdle EXCEPT !.pc = IF Stalled THEN "stall" ELSE "acquire",
                                          !.exec = e, !.stalled = Stalled])
    BY <1>2 DEF MgrPoll, PollWhen
  <2>3. /\ mgr'[m].exec = e /\ mgr'[m].pc \in {"stall", "acquire"}
        /\ \A n \in Managers : n # m => mgr'[n] = mgr[n]
    <3>1. /\ mgr'[m] = [MgrIdle EXCEPT !.pc = IF Stalled THEN "stall" ELSE "acquire",
                                       !.exec = e, !.stalled = Stalled]
          /\ \A n \in Managers : n # m => mgr'[n] = mgr[n]
      BY <1>0, <2>2 DEF MgrBecome, MgrTypeOK
    <3> QED
      BY <3>1 DEF MgrIdle
  <2>4. ex[e].pc = "idle" /\ \A n \in Managers : mgr[n].exec # e
    BY <2>2 DEF FreshId, At
  <2>5. ReservedInv'
    BY <1>00, <2>1, <2>3, <2>4 DEF ReservedInv
  <2>6. UnspentInv' /\ DisownedInv' /\ FencedCompletion'
    BY <2>1, FenceStay DEF EndedOrSame, Carried, StoreQuiet
  <2> QED
    BY <2>5, <2>6 DEF FenceInv
<1>3. ASSUME MgrAcquire(m) PROVE FenceInv'
  <2>1. MgrNow(m, "recheck") \/ MgrFreed(m)
    BY <1>0, <1>3, MgrEffects DEF MgrAcquire
  <2>2. mgr[m].pc = "acquire" /\ UNCHANGED <<ex, committer>> /\ StoreQuiet
    BY <1>3 DEF MgrAcquire, MgrAt, StoreQuiet
  <2> QED
    BY <1>1, <2>1, <2>2 DEF Reserving
<1>4. ASSUME MgrRecheck(m) PROVE FenceInv'
  <2>1. MgrNow(m, "assign") \/ MgrNow(m, "release")
    BY <1>0, <1>4, MgrEffects DEF MgrRecheck
  <2>2. mgr[m].pc = "recheck" /\ UNCHANGED <<ex, committer>> /\ StoreQuiet
    BY <1>4 DEF MgrRecheck, MgrAt, StoreQuiet
  <2> QED
    BY <1>1, <2>1, <2>2 DEF Reserving
<1>5. ASSUME MgrClaimStalled(m) PROVE FenceInv'
  <2>1. mgr[m].pc = "stall" /\ UNCHANGED committer
    BY <1>5 DEF MgrClaimStalled, MgrAt
  <2>2. ASSUME MgrBecome(m, MgrIdle), UNCHANGED <<backendVars, ex>> PROVE FenceInv'
    BY <1>0, <1>1, <2>1, <2>2, MgrEffects DEF StoreQuiet
  <2>3. ASSUME ClaimStalledRun(m), ex' = Superseded, MgrGoto(m, "assign") PROVE FenceInv'
    <3>1. owner' = m /\ MgrNow(m, "assign")
      BY <1>0, <2>3, MgrEffects DEF ClaimStalledRun
    <3>2. \A x \in Execs : Carried(x)
      BY <1>0, <2>3, SupersededFields DEF Carried
    <3>3. UnspentInv'
      BY <1>00, <3>1, <3>2, IdsDiffer DEF UnspentInv, Carried
    <3>4. DisownedInv'
      BY <3>1, IdsDiffer DEF DisownedInv
    <3>5. ReservedInv'
      BY <1>0, <1>00, <2>1, <3>1, <3>2, ReservedMove DEF Carried, Reserving
    <3>6. FencedCompletion'
      BY <1>00, <2>1 DEF FencedCompletion
    <3> QED
      BY <3>3, <3>4, <3>5, <3>6 DEF FenceInv
  <2> QED
    BY <1>5, <2>2, <2>3 DEF MgrClaimStalled
<1>6. ASSUME MgrAssign(m) \/ MgrAssignRejected(m) PROVE FenceInv'
  <2>1. mgr[m].pc = "assign" /\ UNCHANGED committer
    BY <1>6 DEF MgrAssign, MgrAssignRejected, MgrAt
  <2>2. MgrNow(m, "create") \/ MgrNow(m, "release") \/ MgrNow(m, "failOwned")
    BY <1>0, <1>6, MgrEffects DEF MgrAssign, MgrAssignRejected
  <2>3. ASSUME UNCHANGED <<status, owner, ex>> PROVE FenceInv'
    BY <1>1, <2>1, <2>2, <2>3 DEF StoreQuiet, Reserving
  <2>4. ASSUME AssignOwner(m) PROVE FenceInv'
    <3>1. mgr[m].exec \in Execs /\ ex[mgr[m].exec].pc = "idle"
      BY <1>0, <1>00, <2>1 DEF ReservedInv
    <3>2. /\ owner' = mgr[m].exec /\ Reset(mgr[m].exec, "assigned", mgr[m].exec)
          /\ \A x \in Execs : x # mgr[m].exec => Carried(x)
      BY <1>0, <2>4, <3>1, AssignEffects
    <3>3. UnspentInv' /\ DisownedInv'
      BY <1>00, <3>1, <3>2, FenceTake DEF Reset, LoadedLabels
    <3>4. mgr'[m].pc \notin Reserving
      BY <2>2 DEF MgrNow, Reserving
    <3>5. ReservedInv'
      BY <1>0, <1>00, <2>1, <2>2, <3>2, <3>4, ReservedMove DEF Carried, Reserving
    <3>6. FencedCompletion'
      BY <1>00, <2>1 DEF FencedCompletion
    <3> QED
      BY <3>3, <3>5, <3>6 DEF FenceInv
  <2> QED
    BY <1>6, <2>3, <2>4 DEF MgrAssign, MgrAssignRejected
<1>7. ASSUME MgrCreate(m) PROVE FenceInv'
  <2>1. mgr[m].pc = "create" /\ UNCHANGED <<status, owner, committer>>
    BY <1>7 DEF MgrCreate, MgrAt
  <2>2. mgr[m].exec \in Execs
    BY <1>0, <2>1
  <2>3. Moved(mgr[m].exec, "resume") /\ Others(mgr[m].exec)
    BY <1>0, <1>7, <2>2, Effects DEF MgrCreate
  <2>4. MgrNow(m, "release")
    BY <1>0, <1>7, MgrEffects DEF MgrCreate
  <2>5. UnspentInv'
    BY <1>00, <2>1, <2>3 DEF UnspentInv, Moved, Others
  <2>6. DisownedInv'
    BY <2>1, <2>3 DEF FenceInv, DisownedInv, Moved, Others, Loaded, LoadedLabels
  <2>7. ReservedInv'
    <3>1. mgr'[m].pc \notin Reserving
      BY <2>4 DEF MgrNow, Reserving
    <3> QED
      BY <1>0, <1>00, <2>1, <2>3, <2>4, <3>1, ReservedMove DEF Others, Reserving
  <2> QED
    BY <1>00, <2>1, <2>5, <2>6, <2>7 DEF FenceInv, FencedCompletion
<1>8. ASSUME MgrCreateFails(m) \/ MgrFailOwned(m) \/ MgrFailLook(m) \/ MgrFailClaimed(m)
      PROVE  FenceInv'
  <2>1. /\ mgr[m].pc \in {"create", "failOwned", "failLook", "failClaimed"}
        /\ UNCHANGED <<ex, committer>>
    BY <1>8 DEF MgrCreateFails, MgrFailOwned, MgrFailLook, MgrFailClaimed, MgrAt
  <2>2. PICK l \in {"failOwned", "failLook", "failClaimed", "release"} : MgrNow(m, l)
    BY <1>0, <1>8, MgrEffects DEF MgrCreateFails, MgrFailOwned, MgrFailLook, MgrFailClaimed
  <2>3. StoreQuiet
    BY <1>8 DEF MgrCreateFails, MgrFailOwned, MgrFailLook, MgrFailClaimed, StoreQuiet,
                StoreStatus, Terminal
  <2> QED
    BY <1>1, <2>1, <2>2, <2>3 DEF Reserving
<1>9. ASSUME MgrRelease(m) PROVE FenceInv'
  BY <1>0, <1>1, <1>9, MgrEffects DEF MgrRelease, StoreQuiet
<1>10. ASSUME MgrSync(m) PROVE FenceInv'
  <2>1. UNCHANGED <<ex, status, owner, mgr, committer>>
    BY <1>10 DEF MgrSync
  <2> QED
    BY <2>1 DEF FenceInv, UnspentInv, ReservedInv, DisownedInv, Loaded, FencedCompletion
<1> QED
  BY <1>2, <1>3, <1>4, <1>5, <1>6, <1>7, <1>8, <1>9, <1>10 DEF ManagerStep

LEMMA FenceEnvironment ==
  ASSUME TypeOK, FenceInv,
         \/ \E w \in Workers, e \in Execs : WorkerClaim(w, e)
         \/ CrashStep \/ TimeStep
  PROVE  FenceInv'
<1>0. ExecTypeOK /\ MgrTypeOK
  BY DEF TypeOK
<1> USE DEF backendVars, controlVars, managerSide
<1>1. ASSUME NEW w \in Workers, NEW e \in Execs, WorkerClaim(w, e) PROVE FenceInv'
  <2>1. /\ ex[e].pc = "idle" /\ \A m \in Managers : mgr[m].exec # e
        /\ TakesOwnership(w, e, w, "resume") /\ UNCHANGED <<mgr, committer>>
    BY <1>1 DEF WorkerClaim, FreshId, At
  <2>2. owner' = w /\ Reset(e, "resume", w) /\ \A x \in Execs : x # e => Carried(x)
    BY <1>0, <2>1, TakeEffects
  <2>3. UnspentInv' /\ DisownedInv'
    BY <2>1, <2>2, FenceTake DEF FenceInv, Reset, LoadedLabels
  <2>4. ReservedInv'
    BY <1>0, <2>1, <2>2, ReservedStay DEF FenceInv, Carried
  <2> QED
    BY <2>1, <2>3, <2>4 DEF FenceInv, FencedCompletion
<1>2. ASSUME NEW e \in Execs, CrashIsolated(e) PROVE FenceInv'
  BY <1>0, <1>2, QuietStep, FenceFrame
<1>3. ASSUME NEW h \in Hosts, CrashHost(h) PROVE FenceInv'
  <2>1. EndedOrSame
    BY <1>0, <1>3, CrashHostEffects DEF EndedOrSame, Carried
  <2>2. StoreQuiet /\ UNCHANGED <<mgr, committer>>
    BY <1>3 DEF CrashHost, StoreQuiet
  <2>3. /\ UnspentInv' /\ DisownedInv' /\ FencedCompletion'
        /\ \A x \in Execs : ex[x].pc = "idle" => ex'[x].pc = "idle"
    BY <2>1, <2>2, FenceStay
  <2>4. ReservedInv'
    BY <1>0, <2>2, <2>3, ReservedIdle DEF FenceInv
  <2> QED
    BY <2>3, <2>4 DEF FenceInv
<1>4. ASSUME NEW m \in Managers, CrashManager(m) PROVE FenceInv'
  <2>1. MgrFreed(m) /\ UNCHANGED <<ex, status, owner, committer>>
    BY <1>0, <1>4, MgrEffects DEF CrashManager
  <2>2. UnspentInv' /\ DisownedInv' /\ FencedCompletion'
    BY <2>1, FenceStay DEF EndedOrSame, Carried, StoreQuiet
  <2>3. ReservedInv'
    BY <1>0, <2>1, ReservedMove DEF FenceInv
  <2> QED
    BY <2>2, <2>3 DEF FenceInv
<1>5. ASSUME LockExpires \/ HeartbeatAges \/ StalledClaimExpires PROVE FenceInv'
  <2>1. UNCHANGED <<ex, status, owner, mgr, committer>>
    BY <1>5 DEF LockExpires, HeartbeatAges, StalledClaimExpires
  <2> QED
    BY <2>1 DEF FenceInv, UnspentInv, ReservedInv, DisownedInv, Loaded, FencedCompletion
<1> QED
  BY <1>1, <1>2, <1>3, <1>4, <1>5 DEF CrashStep, TimeStep

LEMMA FenceInit == Init => FenceInv
<1> SUFFICES ASSUME Init PROVE FenceInv
  OBVIOUS
<1>1. \A e \in Execs : /\ ex[e].pc = "idle" /\ ex[e].ident = None /\ ex[e].prev = None
                       /\ ex[e].stale = FALSE
  BY DEF Init, Unused
<1>2. UnspentInv
  BY <1>1, IdsDiffer DEF Init, UnspentInv
<1>3. ReservedInv
  BY DEF Init, ReservedInv, MgrIdle
<1>4. DisownedInv
  BY <1>1 DEF DisownedInv
<1>5. FencedCompletion
  BY DEF Init, Nobody, FencedCompletion
<1> QED
  BY <1>2, <1>3, <1>4, <1>5 DEF FenceInv

LEMMA FenceStep ==
  ASSUME TypeOK, FenceInv, [Next]_vars
  PROVE  FenceInv'
<1>1. CASE Next
  BY <1>1, FenceClient, FenceExecution, FenceManager, FenceEnvironment DEF Next
<1>2. CASE UNCHANGED vars
  BY <1>2 DEF vars, backendVars, controlVars, FenceInv, UnspentInv, ReservedInv,
              DisownedInv, Loaded, FencedCompletion
<1> QED
  BY <1>1, <1>2

(* However long processes sleep, crash or race, an execution from which    *)
(* the run was taken after it read the run never completes it: the         *)
(* expected worker id fences it off, for any number of processes, because  *)
(* no id of an execution ever becomes the owner a second time.             *)
THEOREM Fencing == Spec => []FencedCompletion
<1>1. Init => FenceInv
  BY FenceInit
<1>2. TypeOK /\ FenceInv /\ [Next]_vars => FenceInv'
  BY FenceStep
<1>3. FenceInv => FencedCompletion
  BY DEF FenceInv
<1> QED
  BY <1>1, <1>2, <1>3, TypeCorrect, PTL DEF Spec

===========================================================================
