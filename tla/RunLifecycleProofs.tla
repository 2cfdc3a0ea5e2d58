----------------------- MODULE RunLifecycleProofs -----------------------
(***************************************************************************)
(* The control protocol implements the lifecycle of a run, step by step;   *)
(* a run at work is not taken away, and a live lock is not lost, for any   *)
(* number of processes.                                                    *)
(***************************************************************************)
EXTENDS RunOwnershipProofs

(* A run that exists has an owner, an execution under way has a fence, one *)
(* that retries knows the owner before it, and one that restores a         *)
(* checkpoint has seen the run.                                            *)
Over == {"idle", "done", "crashed"}
Retrying == {"retryCas", "reconcile"}

LifeInv ==
  /\ status # "none" => owner \in WorkerIds
  /\ \A e \in Execs :
       /\ ex[e].pc \notin Over => ex[e].ident \in WorkerIds
       /\ ex[e].pc \in Retrying => ex[e].prev \in WorkerIds
       /\ ex[e].pc = "restore" => ex[e].seen # "none"
  /\ \A m \in Managers : mgr[m].pc = "create" => ex[mgr[m].exec].pc = "assigned"

(* A run whose owner is at work is not pending, and while heartbeats come  *)
(* in time its heartbeat is young.                                         *)
WorkInv ==
  \A e \in Execs : Working(e) /\ ex[e].ident = owner /\ status \in Active =>
    status # "pending" /\ (Async \/ fresh)

(* However late a process is: whoever is about to release the lock of its  *)
(* execution still knows the token, and an unlocked run has no live lock.  *)
HeldInv ==
  /\ \A e \in Execs : Held(e) => ex[e].token
  /\ lockLive => lock # NoLock

---------------------------------------------------------------------------
(* What a step does to an execution                                        *)

WorkLabels == {"dag", "completeRead", "completeCas", "pauseRead", "pauseCas"}

(* It keeps its fence and what it has seen, or ends.                       *)
Calm(x) ==
  /\ ex[x].pc \in Over \cup {"assigned"} => ex'[x].pc = ex[x].pc
  /\ ex'[x].pc \notin Over => ex'[x].ident = ex[x].ident
  /\ ex'[x].pc \in Retrying => ex[x].pc \in Retrying /\ ex'[x].prev = ex[x].prev
  /\ ex'[x].pc = "restore" => \/ ex'[x].seen # "none"
                              \/ ex[x].pc = "restore" /\ ex'[x].seen = ex[x].seen

(* It does not come to hold the lock, and does not come to work.           *)
Steady(x) ==
  /\ ex'[x].pc \in HeldLabels => Held(x) /\ ex'[x].token = ex[x].token
  /\ ex'[x].pc \in WorkLabels => Working(x)

LEMMA SameCalm == ASSUME NEW x \in Execs, ex'[x] = ex[x] PROVE Calm(x) /\ Steady(x)
BY DEF Calm, Steady, Held, Working, WorkLabels

LEMMA CarriedCalm ==
  ASSUME NEW x \in Execs, Carried(x), ex'[x].seen = ex[x].seen
  PROVE  Calm(x) /\ Steady(x)
BY DEF Carried, Calm, Steady, Held, Working, WorkLabels

LEMMA MovedCalm ==
  ASSUME NEW x \in Execs, NEW l, Live(x), Moved(x, l),
         l \notin Over \cup {"assigned", "restore", "retryCas"},
         l = "reconcile" => ex[x].pc = "retryCas"
  PROVE  /\ Calm(x)
         /\ (l \in HeldLabels => Held(x)) /\ (l \in WorkLabels => Working(x)) => Steady(x)
BY DEF Moved, Live, Calm, Steady, Over, Retrying

LEMMA EndedCalm ==
  ASSUME NEW x \in Execs, Live(x),
         \/ Reset(x, "done", None) \/ Reset(x, "crashed", None)
         \/ Reset(x, "failExec", ex[x].ident)
  PROVE  Calm(x) /\ Steady(x)
BY DEF Reset, Live, Calm, Steady, Over, Retrying, HeldLabels, WorkLabels

LEMMA SeenKept ==
  ASSUME ExecTypeOK, NEW x \in Execs
  PROVE  /\ Superseded[x].seen = ex[x].seen
         /\ [ex[x] EXCEPT !.abort = "cancel"].seen = ex[x].seen
         /\ \A v, l : [ex[x] EXCEPT !.pc = l, !.seen = v].seen = v
<1>1. ex[x] \in ExecState
  BY ExecFields
<1>2. Superseded[x] = [ex[x] EXCEPT !.stale = Live(x)]
  BY DEF Superseded
<1> QED
  BY <1>1, <1>2 DEF ExecState

LEMMA BeatSeen ==
  ASSUME ExecTypeOK, NEW e \in Execs, NEW v,
         \/ Become(e, [ex[e] EXCEPT !.hb = v])
         \/ \E w : Become(e, [ex[e] EXCEPT !.hb = v, !.abort = w])
  PROVE  ex'[e].seen = ex[e].seen
<1>1. ex[e] \in ExecState
  BY ExecFields
<1>2. CASE Become(e, [ex[e] EXCEPT !.hb = v])
  <2>1. ex'[e] = [ex[e] EXCEPT !.hb = v]
    BY <1>2 DEF Become, ExecTypeOK
  <2> QED
    BY <1>1, <2>1 DEF ExecState
<1>3. CASE \E w : Become(e, [ex[e] EXCEPT !.hb = v, !.abort = w])
  <2>1. PICK w : ex'[e] = [ex[e] EXCEPT !.hb = v, !.abort = w]
    BY <1>3 DEF Become, ExecTypeOK
  <2> QED
    BY <1>1, <2>1 DEF ExecState
<1> QED
  BY <1>2, <1>3

LEMMA TakeCalm ==
  ASSUME ExecTypeOK, NEW e \in Execs, NEW w, NEW h, NEW l, TakesOwnership(w, e, h, l),
         NEW x \in Execs, x # e
  PROVE  Calm(x) /\ Steady(x)
<1>1. Carried(x)
  BY TakeEffects
<1>2. ex'[x] = Superseded[x]
  BY DEF TakesOwnership, Superseded
<1> QED
  BY <1>1, <1>2, SeenKept, CarriedCalm

LEMMA OthersCalm ==
  ASSUME NEW e \in Execs, Others(e), NEW x \in Execs, x # e
  PROVE  Calm(x) /\ Steady(x)
BY SameCalm DEF Others

LEMMA ExecutionCalm ==
  ASSUME TypeOK, NEW e \in Execs, ExecStep(e) \/ HeartbeatStep(e) \/ CrashIsolated(e)
  PROVE  /\ \A x \in Execs : Calm(x)
         /\ \A x \in Execs : x # e => Steady(x)
         /\ Steady(e) \/ Acquire(e) \/ Activate(e)
<1>0. ExecTypeOK
  BY DEF TypeOK
<1> USE DEF At
<1>a. ASSUME Others(e), Calm(e), Steady(e) \/ Acquire(e) \/ Activate(e)
      PROVE  /\ \A x \in Execs : Calm(x)
             /\ \A x \in Execs : x # e => Steady(x)
             /\ Steady(e) \/ Acquire(e) \/ Activate(e)
  BY <1>a, OthersCalm
<1>b. ASSUME Live(e), Return(e) \/ Throw(e) \/ Become(e, Ended("crashed"))
      PROVE  Others(e) /\ Calm(e) /\ Steady(e)
  BY <1>0, <1>b, Endings, EndedCalm
<1>1. ASSUME RetryReconciled(e) PROVE Others(e) /\ Calm(e) /\ (Steady(e) \/ Acquire(e) \/ Activate(e))
  <2>1. Live(e)
    BY <1>1 DEF RetryReconciled, Live
  <2>2. ASSUME Become(e, [ex[e] EXCEPT !.pc = "load", !.prev = None])
        PROVE  Others(e) /\ Calm(e) /\ (Steady(e) \/ Acquire(e) \/ Activate(e))
    <3>1. ex'[e].pc = "load" /\ ex'[e].ident = ex[e].ident /\ Others(e)
      BY <1>0, <2>2, SpecialEffects
    <3> QED
      BY <1>1, <2>1, <3>1 DEF Live, Calm, Steady, Over, Retrying, HeldLabels, WorkLabels
  <2> QED
    BY <1>b, <1>1, <2>1, <2>2 DEF RetryReconciled
<1>2. ASSUME Resume(e) PROVE Others(e) /\ Calm(e) /\ (Steady(e) \/ Acquire(e) \/ Activate(e))
  <2>1. Live(e)
    BY <1>2 DEF Resume, Live
  <2>2. CASE \E s \in Active : Become(e, [ex[e] EXCEPT !.pc = "restore", !.seen = s])
    <3>1. PICK s \in Active : Become(e, [ex[e] EXCEPT !.pc = "restore", !.seen = s])
      BY <2>2
    <3>2. Moved(e, "restore") /\ Others(e)
      BY <1>0, <3>1, Effects
    <3>3. ex'[e].seen = s
      BY <1>0, <3>1, SeenKept DEF Become, ExecTypeOK
    <3> QED
      BY <2>1, <3>2, <3>3 DEF Moved, Live, Calm, Steady, Over, Retrying, HeldLabels, WorkLabels, Active
  <2>3. ASSUME NEW l \in {"load"}, Moved(e, l), Others(e)
        PROVE  Others(e) /\ Calm(e) /\ Steady(e)
    BY <1>2, <2>1, <2>3, MovedCalm DEF Resume, HeldLabels, Held, WorkLabels, Working, Over
  <2> QED
    BY <1>0, <1>b, <1>2, <2>1, <2>2, <2>3, Effects DEF Resume
<1>3. ASSUME Restore(e) PROVE Others(e) /\ Calm(e) /\ (Steady(e) \/ Acquire(e) \/ Activate(e))
  <2>1. Live(e)
    BY <1>3 DEF Restore, Live
  <2>3. ASSUME NEW l \in {"load"}, Moved(e, l), Others(e)
        PROVE  Others(e) /\ Calm(e) /\ Steady(e)
    BY <1>3, <2>1, <2>3, MovedCalm DEF Restore, HeldLabels, Held, WorkLabels, Working, Over
  <2> QED
    BY <1>0, <1>b, <1>3, <2>1, <2>3, Effects DEF Restore
<1>4. ASSUME Load(e) PROVE Others(e) /\ Calm(e) /\ (Steady(e) \/ Acquire(e) \/ Activate(e))
  <2>1. Live(e)
    BY <1>4 DEF Load, Live
  <2>2. ASSUME Become(e, [ex[e] EXCEPT !.pc = "acquire", !.stale = FALSE])
        PROVE  Others(e) /\ Calm(e) /\ (Steady(e) \/ Acquire(e) \/ Activate(e))
    <3>1. ex'[e].pc = "acquire" /\ ex'[e].ident = ex[e].ident /\ Others(e)
      BY <1>0, <2>2, SpecialEffects
    <3> QED
      BY <1>4, <2>1, <3>1 DEF Live, Calm, Steady, Over, Retrying, HeldLabels, WorkLabels
  <2> QED
    BY <1>b, <1>4, <2>1, <2>2 DEF Load
<1>5. ASSUME Acquire(e) PROVE Others(e) /\ Calm(e) /\ (Steady(e) \/ Acquire(e) \/ Activate(e))
  <2>1. Live(e)
    BY <1>5 DEF Acquire, Live
  <2>2. ASSUME Become(e, [ex[e] EXCEPT !.pc = "admit", !.token = TRUE])
        PROVE  Others(e) /\ Calm(e) /\ (Steady(e) \/ Acquire(e) \/ Activate(e))
    <3>1. ex'[e].pc = "admit" /\ ex'[e].ident = ex[e].ident /\ Others(e)
      BY <1>0, <2>2, SpecialEffects
    <3> QED
      BY <1>5, <2>1, <3>1 DEF Live, Calm, Steady, Over, Retrying, HeldLabels, WorkLabels
  <2> QED
    BY <1>b, <1>5, <2>1, <2>2 DEF Acquire
<1>6. ASSUME Admit(e) PROVE Others(e) /\ Calm(e) /\ (Steady(e) \/ Acquire(e) \/ Activate(e))
  <2>1. Live(e)
    BY <1>6 DEF Admit, Live
  <2>3. ASSUME NEW l \in {"finally", "activate"}, Moved(e, l), Others(e)
        PROVE  Others(e) /\ Calm(e) /\ Steady(e)
    BY <1>6, <2>1, <2>3, MovedCalm DEF Admit, HeldLabels, Held, WorkLabels, Working, Over
  <2> QED
    BY <1>0, <1>b, <1>6, <2>1, <2>3, Effects DEF Admit
<1>7. ASSUME Activate(e) PROVE Others(e) /\ Calm(e) /\ (Steady(e) \/ Acquire(e) \/ Activate(e))
  <2>1. Live(e)
    BY <1>7 DEF Activate, Live
  <2> QED
    BY <1>0, <1>7, <2>1, Effects, MovedCalm DEF Activate, Over
<1>8. ASSUME DagSettles(e) PROVE Others(e) /\ Calm(e) /\ (Steady(e) \/ Acquire(e) \/ Activate(e))
  <2>1. Live(e)
    BY <1>8 DEF DagSettles, Live
  <2> QED
    BY <1>0, <1>b, <1>8, <2>1, Effects, MovedCalm DEF DagSettles, HeldLabels, Held, WorkLabels, Working, Over
<1>9. ASSUME CompleteRead(e) PROVE Others(e) /\ Calm(e) /\ (Steady(e) \/ Acquire(e) \/ Activate(e))
  <2>1. Live(e)
    BY <1>9 DEF CompleteRead, CommitRead, Live
  <2> QED
    BY <1>0, <1>b, <1>9, <2>1, Effects, MovedCalm DEF CompleteRead, CommitRead, HeldLabels, Held, WorkLabels, Working, Over
<1>10. ASSUME PauseRead(e) PROVE Others(e) /\ Calm(e) /\ (Steady(e) \/ Acquire(e) \/ Activate(e))
  <2>1. Live(e)
    BY <1>10 DEF PauseRead, CommitRead, Live
  <2> QED
    BY <1>0, <1>b, <1>10, <2>1, Effects, MovedCalm DEF PauseRead, CommitRead, HeldLabels, Held, WorkLabels, Working, Over
<1>11. ASSUME CompleteCas(e) PROVE Others(e) /\ Calm(e) /\ (Steady(e) \/ Acquire(e) \/ Activate(e))
  <2>1. Live(e)
    BY <1>11 DEF CompleteCas, Live
  <2> QED
    BY <1>0, <1>b, <1>11, <2>1, Effects, MovedCalm DEF CompleteCas, HeldLabels, Held, WorkLabels, Working, Over
<1>12. ASSUME PauseCas(e) PROVE Others(e) /\ Calm(e) /\ (Steady(e) \/ Acquire(e) \/ Activate(e))
  <2>1. Live(e)
    BY <1>12 DEF PauseCas, Live
  <2> QED
    BY <1>0, <1>b, <1>12, <2>1, Effects, MovedCalm DEF PauseCas, HeldLabels, Held, WorkLabels, Working, Over
<1>13. ASSUME Announce(e) PROVE Others(e) /\ Calm(e) /\ (Steady(e) \/ Acquire(e) \/ Activate(e))
  <2>1. Live(e)
    BY <1>13 DEF Announce, Live
  <2> QED
    BY <1>0, <1>b, <1>13, <2>1, Effects, MovedCalm DEF Announce, HeldLabels, Held, WorkLabels, Working, Over
<1>14. ASSUME Unlock(e) PROVE Others(e) /\ Calm(e) /\ (Steady(e) \/ Acquire(e) \/ Activate(e))
  <2>1. Live(e)
    BY <1>14 DEF Unlock, Live
  <2>2. ASSUME Become(e, [ex[e] EXCEPT !.pc = "recheck", !.hb = "off", !.token = FALSE])
        PROVE  Others(e) /\ Calm(e) /\ (Steady(e) \/ Acquire(e) \/ Activate(e))
    <3>1. ex'[e].pc = "recheck" /\ ex'[e].ident = ex[e].ident /\ Others(e)
      BY <1>0, <2>2, SpecialEffects
    <3> QED
      BY <1>14, <2>1, <3>1 DEF Live, Calm, Steady, Over, Retrying, HeldLabels, WorkLabels
  <2>3. ASSUME NEW l \in {"catch"}, Moved(e, l), Others(e)
        PROVE  Others(e) /\ Calm(e) /\ Steady(e)
    BY <1>14, <2>1, <2>3, MovedCalm DEF Unlock, HeldLabels, Held, WorkLabels, Working, Over
  <2> QED
    BY <1>0, <1>14, <2>1, <2>2, <2>3, Effects DEF Unlock
<1>15. ASSUME Recheck(e) PROVE Others(e) /\ Calm(e) /\ (Steady(e) \/ Acquire(e) \/ Activate(e))
  <2>1. Live(e)
    BY <1>15 DEF Recheck, Live
  <2> QED
    BY <1>0, <1>b, <1>15, <2>1, Effects, MovedCalm DEF Recheck, HeldLabels, Held, WorkLabels, Working, Over
<1>16. ASSUME Catch(e) PROVE Others(e) /\ Calm(e) /\ (Steady(e) \/ Acquire(e) \/ Activate(e))
  <2>1. Live(e)
    BY <1>16 DEF Catch, Live
  <2>3. ASSUME NEW l \in {"finally", "failRead"}, Moved(e, l), Others(e)
        PROVE  Others(e) /\ Calm(e) /\ Steady(e)
    BY <1>16, <2>1, <2>3, MovedCalm DEF Catch, HeldLabels, Held, WorkLabels, Working, Over
  <2> QED
    BY <1>0, <1>b, <1>16, <2>1, <2>3, Effects DEF Catch
<1>17. ASSUME FailRead(e) PROVE Others(e) /\ Calm(e) /\ (Steady(e) \/ Acquire(e) \/ Activate(e))
  <2>1. Live(e)
    BY <1>17 DEF FailRead, Live
  <2>3. ASSUME NEW l \in {"finally", "failCas"}, Moved(e, l), Others(e)
        PROVE  Others(e) /\ Calm(e) /\ Steady(e)
    BY <1>17, <2>1, <2>3, MovedCalm DEF FailRead, HeldLabels, Held, WorkLabels, Working, Over
  <2> QED
    BY <1>0, <1>b, <1>17, <2>1, <2>3, Effects DEF FailRead
<1>18. ASSUME FailCas(e) PROVE Others(e) /\ Calm(e) /\ (Steady(e) \/ Acquire(e) \/ Activate(e))
  <2>1. Live(e)
    BY <1>18 DEF FailCas, Live
  <2>3. ASSUME NEW l \in {"finally", "catch"}, Moved(e, l), Others(e)
        PROVE  Others(e) /\ Calm(e) /\ Steady(e)
    BY <1>18, <2>1, <2>3, MovedCalm DEF FailCas, HeldLabels, Held, WorkLabels, Working, Over
  <2> QED
    BY <1>0, <1>b, <1>18, <2>1, <2>3, Effects DEF FailCas
<1>19. ASSUME Finally(e) PROVE Others(e) /\ Calm(e) /\ (Steady(e) \/ Acquire(e) \/ Activate(e))
  <2>1. Live(e)
    BY <1>19 DEF Finally, Live
  <2> QED
    BY <1>b, <1>19, <2>1 DEF Finally
<1>20. ASSUME FailExec(e) PROVE Others(e) /\ Calm(e) /\ (Steady(e) \/ Acquire(e) \/ Activate(e))
  <2>1. Live(e)
    BY <1>20 DEF FailExec, Live
  <2> QED
    BY <1>b, <1>20, <2>1 DEF FailExec
<1>21. ASSUME RetryRollback(e) PROVE Others(e) /\ Calm(e) /\ (Steady(e) \/ Acquire(e) \/ Activate(e))
  <2>1. Live(e)
    BY <1>21 DEF RetryRollback, Live
  <2> QED
    BY <1>b, <1>21, <2>1 DEF RetryRollback
<1>22. ASSUME RetryCas(e)
      PROVE  /\ \A x \in Execs : Calm(x)
             /\ \A x \in Execs : x # e => Steady(x)
             /\ Steady(e) \/ Acquire(e) \/ Activate(e)
  <2>1. Live(e)
    BY <1>22 DEF RetryCas, Live
  <2>2. CASE Return(e)
    BY <1>a, <1>b, <2>1, <2>2
  <2>3. CASE ex' = [Superseded EXCEPT ![e] = [ex[e] EXCEPT !.pc = "reconcile"]]
    <3>1. Moved(e, "reconcile") /\ \A x \in Execs : x # e => Carried(x)
      BY <1>0, <2>3, RetryCasEffects
    <3>2. Calm(e) /\ Steady(e)
      BY <1>22, <2>1, <3>1, MovedCalm DEF RetryCas, HeldLabels, WorkLabels, Over
    <3>3. \A x \in Execs : x # e => ex'[x].seen = ex[x].seen
      BY <1>0, <2>3, SeenKept DEF Superseded
    <3> QED
      BY <3>1, <3>2, <3>3, CarriedCalm
  <2> QED
    BY <1>22, <2>2, <2>3 DEF RetryCas
<1>23. ASSUME HeartbeatExtend(e) PROVE Others(e) /\ Calm(e) /\ (Steady(e) \/ Acquire(e) \/ Activate(e))
  <2>1. Live(e)
    BY <1>23 DEF HeartbeatExtend, Live, Beating
  <2>2. Moved(e, ex[e].pc) /\ Others(e)
    BY <1>0, <1>23, Effects DEF HeartbeatExtend
  <2>3. ex'[e].seen = ex[e].seen
    BY <1>0, <1>23, BeatSeen DEF HeartbeatExtend
  <2> QED
    BY <2>2, <2>3, CarriedCalm DEF Moved, Carried
<1>24. ASSUME HeartbeatWrite(e) PROVE Others(e) /\ Calm(e) /\ (Steady(e) \/ Acquire(e) \/ Activate(e))
  <2>1. Live(e)
    BY <1>24 DEF HeartbeatWrite, Live, Beating
  <2>2. Moved(e, ex[e].pc) /\ Others(e)
    BY <1>0, <1>24, Effects DEF HeartbeatWrite
  <2>3. ex'[e].seen = ex[e].seen
    BY <1>0, <1>24, BeatSeen DEF HeartbeatWrite
  <2> QED
    BY <2>2, <2>3, CarriedCalm DEF Moved, Carried
<1>25. ASSUME HeartbeatFails(e) PROVE Others(e) /\ Calm(e) /\ (Steady(e) \/ Acquire(e) \/ Activate(e))
  <2>1. Live(e)
    BY <1>25 DEF HeartbeatFails, Live, Beating
  <2>2. Moved(e, ex[e].pc) /\ Others(e)
    BY <1>0, <1>25, Effects DEF HeartbeatFails
  <2>3. ex'[e].seen = ex[e].seen
    BY <1>0, <1>25, BeatSeen DEF HeartbeatFails
  <2> QED
    BY <2>2, <2>3, CarriedCalm DEF Moved, Carried
<1>26. ASSUME CrashIsolated(e) PROVE Others(e) /\ Calm(e) /\ (Steady(e) \/ Acquire(e) \/ Activate(e))
  <2>1. Live(e)
    BY <1>26 DEF CrashIsolated, Live
  <2> QED
    BY <1>b, <1>26, <2>1 DEF CrashIsolated
<1> QED
  BY <1>a, <1>1, <1>2, <1>3, <1>4, <1>5, <1>6, <1>7, <1>8, <1>9, <1>10, <1>11, <1>12, <1>13, <1>14,
     <1>15, <1>16, <1>17, <1>18, <1>19, <1>20, <1>21, <1>22, <1>23, <1>24, <1>25, <1>26 DEF ExecStep, HeartbeatStep

(* The steps of clients, managers and the environment.                     *)
LEMMA ClientCalm ==
  ASSUME TypeOK, NEW c \in Clients,
         Reject(c) \/ CancelBegin(c) \/ CancelCommit(c) \/ CancelRejected(c), NEW x \in Execs
  PROVE  Calm(x) /\ Steady(x)
<1>0. ExecTypeOK
  BY DEF TypeOK
<1>1. ASSUME ex' = ex PROVE Calm(x) /\ Steady(x)
  BY <1>1, SameCalm
<1>2. CASE CancelBegin(c)
  <2>1. Carried(x)
    BY <1>0, <1>2, CancelEffects
  <2>2. ex'[x] \in {ex[x], [ex[x] EXCEPT !.abort = "cancel"]}
    BY <1>2 DEF CancelBegin
  <2> QED
    BY <1>0, <2>1, <2>2, SeenKept, CarriedCalm
<1>3. ASSUME UpdateRejects(c) PROVE Calm(x) /\ Steady(x)
  <2>1. \/ ex'[x] = ex[x]
        \/ Loaded(x) /\ (Moved(x, "catch") \/ Moved(x, "finally"))
    BY <1>0, <1>3, UpdateEffects
  <2>2. Loaded(x) => Live(x)
    BY DEF Loaded, LoadedLabels, Live
  <2> QED
    BY <2>1, <2>2, SameCalm, MovedCalm DEF HeldLabels, WorkLabels, Over
<1> QED
  BY <1>1, <1>2, <1>3 DEF Reject, CancelCommit, CancelRejected

LEMMA CrashCalm ==
  ASSUME TypeOK, NEW h \in Hosts, CrashHost(h), NEW x \in Execs
  PROVE  Calm(x) /\ Steady(x)
<1>1. ex'[x] = ex[x] \/ (Live(x) /\ Reset(x, "crashed", None))
  BY CrashHostEffects DEF TypeOK
<1> QED
  BY <1>1, SameCalm, EndedCalm

LEMMA SupersededCalm ==
  ASSUME TypeOK, ex' = Superseded, NEW x \in Execs
  PROVE  Calm(x) /\ Steady(x)
BY SupersededFields, SeenKept, CarriedCalm DEF TypeOK, Carried

---------------------------------------------------------------------------
(* Refinement of the lifecycle                                             *)

LifeStep == Lifecycle!Next \/ UNCHANGED <<status, owner, committer>>

LEMMA Closes ==
  ASSUME status \in Active, NEW s \in {"failed", "cancelled"}, StoreStatus(s), UNCHANGED <<owner, committer>>
  PROVE  LifeStep
BY DEF StoreStatus, Active, LifeStep, Lifecycle!Next, Lifecycle!Close, Lifecycle!Open

LEMMA Runs ==
  ASSUME status \in Active, StoreStatus("running"), UNCHANGED <<owner, committer>>
  PROVE  LifeStep
BY DEF StoreStatus, Active, LifeStep, Lifecycle!Next, Lifecycle!Run, Lifecycle!Open

LEMMA Takes ==
  ASSUME status \in {"pending", "running"}, status' \in {status, "running"},
         NEW w \in WorkerIds, owner' = w, UNCHANGED committer
  PROVE  LifeStep
<1>1. Lifecycle!Take(w)
  BY DEF Lifecycle!Take
<1> QED
  BY <1>1 DEF LifeStep, Lifecycle!Next

LEMMA IdTypes ==
  /\ \A e \in Execs : e \in WorkerIds
  /\ \A m \in Managers : m \in WorkerIds
  /\ \A w \in Workers : w \in WorkerIds
  /\ None \notin WorkerIds
BY ControlAssumption DEF WorkerIds

LEMMA ClientLife ==
  ASSUME TypeOK, ClientStep
  PROVE  LifeStep
<1> USE DEF backendVars
<1>1. PICK c \in Clients :
        \/ \E e \in Execs : Start(c, e) \/ ResumeReconciled(c, e) \/ RetryRead(c, e)
        \/ Reject(c) \/ CancelBegin(c) \/ CancelCommit(c) \/ CancelRejected(c)
  BY DEF ClientStep
<1>2. ASSUME NEW e \in Execs, Start(c, e) PROVE LifeStep
  <2>1. Lifecycle!Create(e)
    BY <1>2 DEF Start, StoreStatus, TakesOwnership, Lifecycle!Create
  <2> QED
    BY <2>1, IdTypes DEF LifeStep, Lifecycle!Next
<1>3. ASSUME NEW e \in Execs, ResumeReconciled(c, e) \/ RetryRead(c, e) PROVE LifeStep
  BY <1>3 DEF ResumeReconciled, RetryRead, LifeStep
<1>4. ASSUME Reject(c) PROVE LifeStep
  BY <1>4, Closes DEF Reject
<1>5. ASSUME CancelBegin(c) \/ CancelRejected(c) PROVE LifeStep
  BY <1>5 DEF CancelBegin, CancelRejected, LifeStep
<1>6. ASSUME CancelCommit(c) PROVE LifeStep
  <2>1. CASE Matches(Active, None)
    BY <1>6, <2>1, Closes DEF CancelCommit, Matches
  <2>2. CASE ~Matches(Active, None)
    BY <1>6, <2>2 DEF CancelCommit, LifeStep
  <2> QED
    BY <2>1, <2>2
<1> QED
  BY <1>1, <1>2, <1>3, <1>4, <1>5, <1>6

LEMMA ExecutionLife ==
  ASSUME TypeOK, LifeInv, FenceInv, NEW e \in Execs, ExecStep(e) \/ HeartbeatStep(e)
  PROVE  LifeStep
<1>0. ExecTypeOK /\ ex[e].stale \in BOOLEAN
  BY ExecFields DEF TypeOK
<1> USE DEF backendVars, At
<1>1. ASSUME RetryCas(e) PROVE LifeStep
  <2>1. CASE Matches({"failed"}, None)
    <3>1. Lifecycle!Reopen(e)
      BY <1>1, <2>1 DEF RetryCas, Matches, StoreStatus, Lifecycle!Reopen
    <3> QED
      BY <3>1, IdTypes DEF LifeStep, Lifecycle!Next
  <2>2. CASE ~Matches({"failed"}, None)
    BY <1>1, <2>2 DEF RetryCas, LifeStep
  <2> QED
    BY <2>1, <2>2
<1>2. ASSUME RetryRollback(e) PROVE LifeStep
  <2>1. CASE Matches({"pending"}, e)
    <3>1. ex[e].prev \in WorkerIds
      BY <1>2 DEF RetryRollback, LifeInv, Retrying
    <3>2. Lifecycle!Withdraw
      BY <1>2, <2>1, <3>1 DEF RetryRollback, Matches, StoreStatus, Lifecycle!Withdraw
    <3> QED
      BY <3>2 DEF LifeStep, Lifecycle!Next
  <2>2. CASE ~Matches({"pending"}, e)
    BY <1>2, <2>2 DEF RetryRollback, LifeStep
  <2> QED
    BY <2>1, <2>2
<1>3. ASSUME Restore(e) PROVE LifeStep
  <2>1. CASE Matches({ex[e].seen}, ex[e].ident)
    <3>1. ex[e].seen \in {"pending", "running"}
      BY <1>0, <1>3, SeenType DEF Restore, LifeInv
    <3>2. status \in Active
      BY <2>1, <3>1 DEF Matches, Active
    <3> QED
      BY <1>3, <2>1, <3>2, Runs DEF Restore
  <2>2. CASE ~Matches({ex[e].seen}, ex[e].ident)
    BY <1>3, <2>2 DEF Restore, LifeStep
  <2> QED
    BY <2>1, <2>2
<1>4. ASSUME Activate(e) PROVE LifeStep
  <2>1. CASE Matches(Active, ex[e].ident)
    BY <1>4, <2>1, Runs DEF Activate, Matches
  <2>2. CASE ~Matches(Active, ex[e].ident)
    BY <1>4, <2>2 DEF Activate, LifeStep
  <2> QED
    BY <2>1, <2>2
<1>5. ASSUME CompleteCas(e) PROVE LifeStep
  <2>1. CASE Matches({"running"}, ex[e].ident)
    <3>1. ex[e].ident \in WorkerIds /\ ex[e].ident = owner /\ status = "running"
      BY <1>5, <2>1, IdTypes DEF CompleteCas, Matches, LifeInv, Over
    <3>2. owner \notin Workers \cup Managers => ex[e].stale = FALSE
      <4>1. Loaded(e)
        BY <1>5 DEF CompleteCas, Loaded, LoadedLabels
      <4> QED
        BY <1>0, <3>1, <4>1 DEF FenceInv, DisownedInv, Terminal, WorkerIds
    <3>3. status' = "completed" /\ committer' = [ident |-> owner, stale |-> ex[e].stale] /\ owner' = owner
      BY <1>5, <2>1, <3>1 DEF CompleteCas, StoreStatus
    <3>4. committer' \in [ident : {owner}, stale : IF owner \in Workers \cup Managers THEN BOOLEAN ELSE {FALSE}]
      BY <1>0, <3>2, <3>3
    <3>5. Lifecycle!Complete
      BY <3>1, <3>3, <3>4 DEF Lifecycle!Complete
    <3> QED
      BY <3>5 DEF LifeStep, Lifecycle!Next
  <2>2. CASE ~Matches({"running"}, ex[e].ident)
    BY <1>5, <2>2 DEF CompleteCas, LifeStep
  <2> QED
    BY <2>1, <2>2
<1>6. ASSUME PauseCas(e) PROVE LifeStep
  <2>1. CASE Matches({"running"}, ex[e].ident)
    <3>1. Lifecycle!Park
      BY <1>6, <2>1 DEF PauseCas, Matches, StoreStatus, Lifecycle!Park
    <3> QED
      BY <3>1 DEF LifeStep, Lifecycle!Next
  <2>2. CASE ~Matches({"running"}, ex[e].ident)
    BY <1>6, <2>2 DEF PauseCas, LifeStep
  <2> QED
    BY <2>1, <2>2
<1>7. ASSUME FailCas(e) PROVE LifeStep
  <2> DEFINE M == Matches(IF ex[e].parked THEN {"waiting"} ELSE {"running"}, ex[e].ident)
  <2>1. CASE M
    <3>1. status \in Active
      BY <2>1 DEF Matches, Active
    <3> QED
      BY <1>7, <2>1, <3>1, Closes DEF FailCas
  <2>2. CASE ~M
    BY <1>7, <2>2 DEF FailCas, LifeStep
  <2> QED
    BY <2>1, <2>2
<1>8. ASSUME FailExec(e) PROVE LifeStep
  <2>1. CASE Matches({"pending", "running"}, ex[e].ident)
    BY <1>8, <2>1, Closes DEF FailExec, Matches, Active
  <2>2. CASE ~Matches({"pending", "running"}, ex[e].ident)
    BY <1>8, <2>2 DEF FailExec, LifeStep
  <2> QED
    BY <2>1, <2>2
<1>9. ASSUME \/ RetryReconciled(e) \/ Resume(e) \/ Load(e) \/ Acquire(e) \/ Admit(e)
             \/ DagSettles(e) \/ CompleteRead(e) \/ PauseRead(e)
      PROVE  LifeStep
  BY <1>9 DEF RetryReconciled, Resume, Load, Acquire, Admit, DagSettles, CompleteRead, PauseRead,
              CommitRead, LifeStep
<1>10. ASSUME \/ Announce(e) \/ Unlock(e) \/ Recheck(e) \/ Catch(e) \/ FailRead(e) \/ Finally(e)
              \/ HeartbeatStep(e)
       PROVE  LifeStep
  BY <1>10 DEF Announce, Unlock, Recheck, Catch, FailRead, Finally, HeartbeatStep, HeartbeatExtend,
               HeartbeatWrite, HeartbeatFails, LifeStep
<1> QED
  BY <1>1, <1>2, <1>3, <1>4, <1>5, <1>6, <1>7, <1>8, <1>9, <1>10 DEF ExecStep

LEMMA AssignLife ==
  ASSUME TypeOK, NEW m \in Managers, mgr[m].exec \in Execs, AssignOwner(m), UNCHANGED committer
  PROVE  LifeStep
<1>1. status \in {"pending", "running"} /\ status' = "running" /\ owner' = mgr[m].exec
  BY DEF AssignOwner, Matches, StoreStatus, TakesOwnership
<1> QED
  BY <1>1, Takes, IdTypes

LEMMA ManagerLife ==
  ASSUME TypeOK, NEW m \in Managers, ManagerStep(m)
  PROVE  LifeStep
<1> USE DEF backendVars, MgrAt
<1>1. ASSUME MgrClaimStalled(m) PROVE LifeStep
  <2>1. CASE ClaimStalledRun(m)
    <3>1. status = "running" /\ status' = status /\ owner' = m /\ UNCHANGED committer
      BY <1>1, <2>1 DEF MgrClaimStalled, ClaimStalledRun, Stalled
    <3> QED
      BY <3>1, Takes, IdTypes
  <2>2. CASE ~ClaimStalledRun(m)
    BY <1>1, <2>2 DEF MgrClaimStalled, LifeStep
  <2> QED
    BY <2>1, <2>2
<1>2. ASSUME MgrAssign(m) \/ MgrAssignRejected(m) PROVE LifeStep
  <2>1. mgr[m].exec \in Execs /\ UNCHANGED committer
    BY <1>2 DEF MgrAssign, MgrAssignRejected, TypeOK, MgrTypeOK
  <2>2. CASE AssignOwner(m)
    BY <2>1, <2>2, AssignLife
  <2>3. CASE ~AssignOwner(m)
    BY <1>2, <2>1, <2>3 DEF MgrAssign, MgrAssignRejected, LifeStep
  <2> QED
    BY <2>2, <2>3
<1>3. ASSUME MgrFailOwned(m) PROVE LifeStep
  <2>1. CASE Matches(Active, mgr[m].exec)
    BY <1>3, <2>1, Closes DEF MgrFailOwned, Matches
  <2>2. CASE ~Matches(Active, mgr[m].exec)
    BY <1>3, <2>2 DEF MgrFailOwned, LifeStep
  <2> QED
    BY <2>1, <2>2
<1>4. ASSUME MgrFailClaimed(m) PROVE LifeStep
  <2>1. CASE Matches(Active, MgrWorkerId(m))
    BY <1>4, <2>1, Closes DEF MgrFailClaimed, Matches
  <2>2. CASE ~Matches(Active, MgrWorkerId(m))
    BY <1>4, <2>2 DEF MgrFailClaimed, LifeStep
  <2> QED
    BY <2>1, <2>2
<1>5. ASSUME \/ MgrPoll(m) \/ MgrAcquire(m) \/ MgrRecheck(m) \/ MgrCreate(m) \/ MgrCreateFails(m)
             \/ MgrFailLook(m) \/ MgrRelease(m) \/ MgrSync(m)
      PROVE  LifeStep
  BY <1>5 DEF MgrPoll, PollWhen, MgrAcquire, MgrRecheck, MgrCreate, MgrCreateFails, MgrFailLook,
              MgrRelease, MgrSync, LifeStep
<1> QED
  BY <1>1, <1>2, <1>3, <1>4, <1>5 DEF ManagerStep

LEMMA EnvironmentLife ==
  ASSUME TypeOK,
         \/ \E w \in Workers, e \in Execs : WorkerClaim(w, e)
         \/ CrashStep \/ TimeStep
  PROVE  LifeStep
<1> USE DEF backendVars, controlVars
<1>1. ASSUME NEW w \in Workers, NEW e \in Execs, WorkerClaim(w, e) PROVE LifeStep
  <2>1. status = "running" /\ status' = status /\ owner' = w /\ UNCHANGED committer
    BY <1>1 DEF WorkerClaim, ClaimStalledRun, Stalled
  <2> QED
    BY <2>1, Takes, IdTypes
<1>2. ASSUME CrashStep PROVE LifeStep
  BY <1>2 DEF CrashStep, CrashIsolated, CrashHost, CrashManager, LifeStep
<1>3. ASSUME TimeStep PROVE LifeStep
  BY <1>3 DEF TimeStep, LockExpires, HeartbeatAges, StalledClaimExpires, LifeStep
<1> QED
  BY <1>1, <1>2, <1>3

LEMMA LifecycleStep ==
  ASSUME TypeOK, LifeInv, FenceInv, [Next]_vars
  PROVE  LifeStep
<1>1. CASE UNCHANGED vars
  BY <1>1 DEF vars, backendVars, controlVars, LifeStep
<1>2. CASE Next
  BY <1>2, ClientLife, ExecutionLife, ManagerLife, EnvironmentLife DEF Next
<1> QED
  BY <1>1, <1>2

---------------------------------------------------------------------------
(* What the executions and managers know stays true                        *)

(* The part of LifeInv about executions, which a calm step keeps.          *)
KnownInv ==
  \A e \in Execs :
    /\ ex[e].pc \notin Over => ex[e].ident \in WorkerIds
    /\ ex[e].pc \in Retrying => ex[e].prev \in WorkerIds
    /\ ex[e].pc = "restore" => ex[e].seen # "none"

CreateInv == \A m \in Managers : mgr[m].pc = "create" => ex[mgr[m].exec].pc = "assigned"

LEMMA OwnerKept ==
  ASSUME LifeStep, status # "none" => owner \in WorkerIds
  PROVE  (status # "none" => owner \in WorkerIds)'
BY DEF LifeStep, Lifecycle!Next, Lifecycle!Create, Lifecycle!Take, Lifecycle!Run, Lifecycle!Park,
       Lifecycle!Complete, Lifecycle!Close, Lifecycle!Reopen, Lifecycle!Withdraw, Lifecycle!Open

LEMMA CalmKnown ==
  ASSUME KnownInv, NEW x \in Execs, Calm(x)
  PROVE  /\ ex'[x].pc \notin Over => ex'[x].ident \in WorkerIds
         /\ ex'[x].pc \in Retrying => ex'[x].prev \in WorkerIds
         /\ ex'[x].pc = "restore" => ex'[x].seen # "none"
BY DEF KnownInv, Calm, Over

(* One execution is launched, the others stay calm.                        *)
LEMMA LaunchKnown ==
  ASSUME KnownInv, NEW e \in Execs, \A x \in Execs : x # e => Calm(x),
         ex'[e].pc \notin Over \cup {"restore"}, ex'[e].ident \in WorkerIds,
         ex'[e].pc \in Retrying => ex'[e].prev \in WorkerIds
  PROVE  KnownInv'
BY CalmKnown DEF KnownInv

LEMMA CreateKept ==
  ASSUME MgrTypeOK, CreateInv, NEW e \in Execs \cup {None},
         \A x \in Execs : x # e => Calm(x),
         e \in Execs => ex[e].pc # "assigned",
         \A m \in Managers : mgr'[m].pc = "create" => mgr'[m] = mgr[m]
  PROVE  CreateInv'
<1> SUFFICES ASSUME NEW m \in Managers, mgr'[m].pc = "create"
             PROVE  ex'[mgr'[m].exec].pc = "assigned"
  BY DEF CreateInv
<1>1. mgr'[m] = mgr[m] /\ mgr[m].exec \in Execs /\ ex[mgr[m].exec].pc = "assigned"
  BY DEF CreateInv, MgrTypeOK
<1> QED
  BY <1>1 DEF Calm

LEMMA CalmStep ==
  ASSUME TypeOK, KnownInv, CreateInv, \A x \in Execs : Calm(x),
         \A m \in Managers : mgr'[m].pc = "create" => mgr'[m] = mgr[m]
  PROVE  KnownInv' /\ CreateInv'
<1>1. None \notin Execs /\ MgrTypeOK
  BY IdTypes DEF TypeOK
<1>2. KnownInv'
  BY CalmKnown DEF KnownInv
<1>3. CreateInv'
  BY <1>1, CreateKept
<1> QED
  BY <1>2, <1>3

LEMMA ClientKnown ==
  ASSUME TypeOK, LifeInv, ClientStep
  PROVE  KnownInv' /\ CreateInv'
<1>0. ExecTypeOK /\ MgrTypeOK /\ KnownInv /\ CreateInv
  BY DEF TypeOK, LifeInv, KnownInv, CreateInv
<1> USE <1>0 DEF managerSide
<1>1. PICK c \in Clients :
        \/ \E e \in Execs : Start(c, e) \/ ResumeReconciled(c, e) \/ RetryRead(c, e)
        \/ Reject(c) \/ CancelBegin(c) \/ CancelCommit(c) \/ CancelRejected(c)
  BY DEF ClientStep
<1>2. ASSUME NEW e \in Execs, ex[e].pc = "idle", mgr' = mgr, \A x \in Execs : x # e => Calm(x),
             ex'[e].pc \notin Over \cup {"restore"}, ex'[e].ident \in WorkerIds,
             ex'[e].pc \in Retrying => ex'[e].prev \in WorkerIds
      PROVE  KnownInv' /\ CreateInv'
  BY <1>2, LaunchKnown, CreateKept
<1>3. ASSUME NEW e \in Execs, Start(c, e) PROVE KnownInv' /\ CreateInv'
  <2>1. TakesOwnership(e, e, c, "load") /\ mgr' = mgr /\ ex[e].pc = "idle"
    BY <1>3 DEF Start, FreshId, At
  <2>2. Reset(e, "load", e) /\ \A x \in Execs : x # e => Calm(x)
    BY <2>1, TakeEffects, TakeCalm
  <2> QED
    BY <1>2, <2>1, <2>2, IdTypes DEF Reset, Over, Retrying
<1>4. ASSUME NEW e \in Execs, ResumeReconciled(c, e) PROVE KnownInv' /\ CreateInv'
  <2>1. Become(e, Launched(c, owner, "resume")) /\ mgr' = mgr /\ ex[e].pc = "idle"
    BY <1>4 DEF ResumeReconciled, FreshId, At
  <2>2. owner \in WorkerIds
    BY <1>4 DEF ResumeReconciled, LifeInv, Active
  <2>3. Reset(e, "resume", owner) /\ Others(e)
    BY <2>1, LaunchEffects
  <2> QED
    BY <1>2, <2>1, <2>2, <2>3, OthersCalm DEF Reset, Over, Retrying
<1>5. ASSUME NEW e \in Execs, RetryRead(c, e) PROVE KnownInv' /\ CreateInv'
  <2>1. /\ Become(e, [Launched(c, e, "retryCas") EXCEPT !.prev = owner])
        /\ mgr' = mgr /\ ex[e].pc = "idle"
    BY <1>5 DEF RetryRead, FreshId, At
  <2>2. owner \in WorkerIds
    BY <1>5 DEF RetryRead, LifeInv
  <2>3. ASSUME Become(e, [Launched(c, e, "retryCas") EXCEPT !.prev = owner])
        PROVE  /\ ex'[e].pc = "retryCas" /\ ex'[e].ident = e /\ ex'[e].prev = owner
               /\ ex'[e].stale = FALSE /\ ex'[e].token = FALSE /\ Others(e)
    BY <1>0, <2>3, RetryReadEffects
  <2> QED
    BY <1>2, <2>1, <2>2, <2>3, OthersCalm, IdTypes DEF Over
<1>6. ASSUME Reject(c) \/ CancelBegin(c) \/ CancelCommit(c) \/ CancelRejected(c)
      PROVE  KnownInv' /\ CreateInv'
  <2>1. mgr' = mgr
    BY <1>6 DEF Reject, CancelBegin, CancelCommit, CancelRejected
  <2> QED
    BY <1>6, <2>1, ClientCalm, CalmStep
<1> QED
  BY <1>1, <1>3, <1>4, <1>5, <1>6

LEMMA ExecutionManagers ==
  ASSUME NEW e \in Execs, ExecStep(e) \/ HeartbeatStep(e) \/ CrashIsolated(e)
  PROVE  mgr' = mgr
<1> USE DEF managerSide
<1>1. ASSUME \/ RetryCas(e) \/ RetryReconciled(e) \/ RetryRollback(e) \/ Resume(e) \/ Restore(e)
             \/ Load(e) \/ Acquire(e) \/ Admit(e) \/ Activate(e) \/ DagSettles(e)
      PROVE  mgr' = mgr
  BY <1>1 DEF RetryCas, RetryReconciled, RetryRollback, Resume, Restore, Load, Acquire, Admit,
              Activate, DagSettles
<1>2. ASSUME \/ CompleteRead(e) \/ CompleteCas(e) \/ PauseRead(e) \/ PauseCas(e) \/ Announce(e)
             \/ Unlock(e) \/ Recheck(e)
      PROVE  mgr' = mgr
  BY <1>2 DEF CompleteRead, CommitRead, CompleteCas, PauseRead, PauseCas, Announce, Unlock, Recheck
<1>3. ASSUME \/ Catch(e) \/ FailRead(e) \/ FailCas(e) \/ Finally(e) \/ FailExec(e)
             \/ HeartbeatStep(e) \/ CrashIsolated(e)
      PROVE  mgr' = mgr
  BY <1>3 DEF Catch, FailRead, FailCas, Finally, FailExec, HeartbeatStep, HeartbeatExtend,
              HeartbeatWrite, HeartbeatFails, CrashIsolated
<1> QED
  BY <1>1, <1>2, <1>3 DEF ExecStep

(* Two managers never launch the same execution.                           *)
LEMMA ManagerKnown ==
  ASSUME TypeOK, LifeInv, ReservedInv, NEW m \in Managers, ManagerStep(m)
  PROVE  KnownInv' /\ CreateInv'
<1>0. /\ ExecTypeOK /\ MgrTypeOK /\ KnownInv /\ CreateInv
      /\ mgr[m].pc # "idle" => mgr[m].exec \in Execs
  BY DEF TypeOK, LifeInv, KnownInv, CreateInv, MgrTypeOK
<1> USE <1>0 DEF MgrAt
<1>1. ASSUME NEW l, l # "create", MgrNow(m, l) \/ MgrFreed(m), \A x \in Execs : Calm(x)
      PROVE  KnownInv' /\ CreateInv'
  <2>1. \A n \in Managers : mgr'[n].pc = "create" => mgr'[n] = mgr[n]
    BY <1>1 DEF MgrNow, MgrFreed
  <2> QED
    BY <1>1, <2>1, CalmStep
<1>2. ASSUME MgrPoll(m) PROVE KnownInv' /\ CreateInv'
  <2>1. PICK e \in Execs :
          MgrBecome(m, [MgrIdle EXCEPT !.pc = IF Stalled THEN "stall" ELSE "acquire",
                                       !.exec = e, !.stalled = Stalled])
    BY <1>2 DEF MgrPoll, PollWhen
  <2>2. ex' = ex
    BY <1>2 DEF MgrPoll, PollWhen
  <2>3. \A n \in Managers : mgr'[n].pc = "create" => mgr'[n] = mgr[n]
    BY <2>1 DEF MgrBecome, MgrIdle, MgrTypeOK
  <2> QED
    BY <2>2, <2>3, SameCalm, CalmStep
<1>3. ASSUME \/ MgrAcquire(m) \/ MgrRecheck(m) \/ MgrCreateFails(m) \/ MgrFailOwned(m)
             \/ MgrFailLook(m) \/ MgrFailClaimed(m) \/ MgrRelease(m)
      PROVE  KnownInv' /\ CreateInv'
  <2>1. ex' = ex
    BY <1>3 DEF MgrAcquire, MgrRecheck, MgrCreateFails, MgrFailOwned, MgrFailLook, MgrFailClaimed,
                MgrRelease
  <2>2. PICK l \in {"recheck", "assign", "release", "failOwned", "failLook", "failClaimed"} :
          MgrGoto(m, l) \/ MgrBecome(m, MgrIdle)
    BY <1>3 DEF MgrAcquire, MgrRecheck, MgrCreateFails, MgrFailOwned, MgrFailLook, MgrFailClaimed,
                MgrRelease
  <2> QED
    BY <1>1, <2>1, <2>2, MgrEffects, SameCalm
<1>4. ASSUME MgrSync(m) PROVE KnownInv' /\ CreateInv'
  BY <1>4, SameCalm, CalmStep DEF MgrSync
<1>5. ASSUME MgrClaimStalled(m) PROVE KnownInv' /\ CreateInv'
  <2>1. ex' = ex \/ ex' = Superseded
    BY <1>5 DEF MgrClaimStalled
  <2>2. \A x \in Execs : Calm(x)
    BY <2>1, SameCalm, SupersededCalm
  <2>3. MgrGoto(m, "assign") \/ MgrBecome(m, MgrIdle)
    BY <1>5 DEF MgrClaimStalled
  <2>4. MgrNow(m, "assign") \/ MgrFreed(m)
    BY <2>3, MgrEffects
  <2> QED
    BY <1>1, <2>2, <2>4
<1>6. ASSUME AssignOwner(m), MgrAt(m, "assign"), NEW l \in {"create", "failOwned"}, MgrNow(m, l)
      PROVE  KnownInv' /\ CreateInv'
  <2> DEFINE e == mgr[m].exec
  <2>1. e \in Execs /\ ex[e].pc = "idle"
    BY <1>6 DEF ReservedInv
  <2>2. TakesOwnership(e, e, Isolated, "assigned")
    BY <1>6 DEF AssignOwner
  <2>3. Reset(e, "assigned", e) /\ \A x \in Execs : x # e => Calm(x)
    BY <2>1, <2>2, TakeEffects, TakeCalm
  <2>4. KnownInv'
    BY <2>1, <2>3, LaunchKnown, IdTypes DEF Reset, Over, Retrying
  <2>5. ASSUME NEW n \in Managers, mgr'[n].pc = "create" PROVE ex'[mgr'[n].exec].pc = "assigned"
    <3>1. CASE n = m
      BY <1>6, <2>3, <3>1 DEF MgrNow, Reset
    <3>2. CASE n # m
      <4>1. mgr'[n] = mgr[n]
        BY <1>6, <3>2 DEF MgrNow
      <4>2. mgr[n].exec \in Execs /\ ex[mgr[n].exec].pc = "assigned"
        BY <2>5, <4>1 DEF CreateInv, MgrTypeOK
      <4> QED
        BY <2>1, <2>3, <4>1, <4>2 DEF Calm
    <3> QED
      BY <3>1, <3>2
  <2> QED
    BY <2>4, <2>5 DEF CreateInv
<1>7. ASSUME MgrAssign(m) \/ MgrAssignRejected(m) PROVE KnownInv' /\ CreateInv'
  <2>1. PICK l \in {"create", "failOwned"} :
          \/ AssignOwner(m) /\ MgrNow(m, l)
          \/ ex' = ex /\ (MgrNow(m, "failOwned") \/ MgrNow(m, "release"))
    BY <1>7, MgrEffects DEF MgrAssign, MgrAssignRejected
  <2>2. MgrAt(m, "assign")
    BY <1>7 DEF MgrAssign, MgrAssignRejected
  <2> QED
    BY <1>1, <1>6, <2>1, <2>2, SameCalm
<1>8. ASSUME MgrCreate(m) PROVE KnownInv' /\ CreateInv'
  <2> DEFINE e == mgr[m].exec
  <2>1. e \in Execs /\ ex[e].pc = "assigned" /\ ex[e].ident \in WorkerIds
    BY <1>8 DEF MgrCreate, CreateInv, KnownInv, Over
  <2>2. Goto(e, "resume") /\ MgrNow(m, "release")
    BY <1>8, MgrEffects DEF MgrCreate
  <2>3. Moved(e, "resume") /\ Others(e)
    BY <2>1, <2>2, Effects
  <2>4. KnownInv'
    BY <2>1, <2>3, OthersCalm, LaunchKnown DEF Moved, Over, Retrying
  <2>5. ASSUME NEW n \in Managers, mgr'[n].pc = "create" PROVE ex'[mgr'[n].exec].pc = "assigned"
    <3>1. n # m /\ mgr'[n] = mgr[n]
      BY <2>2, <2>5 DEF MgrNow
    <3>2. mgr[n].exec \in Execs /\ ex[mgr[n].exec].pc = "assigned" /\ mgr[n].exec # e
      BY <2>5, <3>1 DEF CreateInv, MgrTypeOK, ReservedInv
    <3> QED
      BY <2>3, <3>1, <3>2 DEF Others
  <2> QED
    BY <2>4, <2>5 DEF CreateInv
<1> QED
  BY <1>2, <1>3, <1>4, <1>5, <1>7, <1>8 DEF ManagerStep

LEMMA EnvironmentKnown ==
  ASSUME TypeOK, LifeInv,
         \/ \E w \in Workers, e \in Execs : WorkerClaim(w, e)
         \/ CrashStep \/ TimeStep
  PROVE  KnownInv' /\ CreateInv'
<1>0. ExecTypeOK /\ MgrTypeOK /\ KnownInv /\ CreateInv
  BY DEF TypeOK, LifeInv, KnownInv, CreateInv
<1> USE <1>0 DEF managerSide, controlVars
<1>1. ASSUME NEW w \in Workers, NEW e \in Execs, WorkerClaim(w, e) PROVE KnownInv' /\ CreateInv'
  <2>1. TakesOwnership(w, e, w, "resume") /\ mgr' = mgr /\ ex[e].pc = "idle"
    BY <1>1 DEF WorkerClaim, FreshId, At
  <2>2. Reset(e, "resume", w) /\ \A x \in Execs : x # e => Calm(x)
    BY <2>1, TakeEffects, TakeCalm
  <2>3. KnownInv'
    BY <2>2, LaunchKnown, IdTypes DEF Reset, Over, Retrying
  <2> QED
    BY <2>1, <2>2, <2>3, CreateKept
<1>2. ASSUME NEW e \in Execs, CrashIsolated(e) PROVE KnownInv' /\ CreateInv'
  BY <1>2, ExecutionCalm, ExecutionManagers, CalmStep
<1>3. ASSUME NEW h \in Hosts, CrashHost(h) PROVE KnownInv' /\ CreateInv'
  BY <1>3, CrashCalm, CalmStep DEF CrashHost
<1>4. ASSUME NEW m \in Managers, CrashManager(m) PROVE KnownInv' /\ CreateInv'
  <2>1. MgrFreed(m) /\ ex' = ex
    BY <1>4, MgrEffects DEF CrashManager
  <2>2. \A n \in Managers : mgr'[n].pc = "create" => mgr'[n] = mgr[n]
    BY <2>1 DEF MgrFreed
  <2> QED
    BY <2>1, <2>2, SameCalm, CalmStep
<1>5. ASSUME TimeStep PROVE KnownInv' /\ CreateInv'
  <2>1. ex' = ex /\ mgr' = mgr
    BY <1>5 DEF TimeStep, LockExpires, HeartbeatAges, StalledClaimExpires
  <2> QED
    BY <2>1, SameCalm, CalmStep
<1> QED
  BY <1>1, <1>2, <1>3, <1>4, <1>5 DEF CrashStep

LEMMA LifeInvStep ==
  ASSUME TypeOK, LifeInv, FenceInv, [Next]_vars
  PROVE  LifeInv'
<1>1. (status # "none" => owner \in WorkerIds)'
  BY LifecycleStep, OwnerKept DEF LifeInv
<1>2. KnownInv /\ CreateInv
  BY DEF LifeInv, KnownInv, CreateInv
<1>3. CASE UNCHANGED vars
  BY <1>3 DEF vars, backendVars, controlVars, LifeInv
<1>4. ASSUME NEW e \in Execs, ExecStep(e) \/ HeartbeatStep(e) PROVE KnownInv' /\ CreateInv'
  BY <1>2, <1>4, ExecutionCalm, ExecutionManagers, CalmStep
<1>5. CASE Next
  <2>1. KnownInv' /\ CreateInv'
    BY <1>4, <1>5, ClientKnown, ManagerKnown, EnvironmentKnown DEF Next, FenceInv
  <2> QED
    BY <1>1, <2>1 DEF LifeInv, KnownInv, CreateInv
<1> QED
  BY <1>3, <1>5

LEMMA LifeInit == Init => LifeInv
BY DEF Init, LifeInv, Unused, MgrIdle, Over, Retrying

LEMMA ControlInvariants == Spec => [](TypeOK /\ FenceInv /\ LifeInv)
<1>1. Init => FenceInv /\ LifeInv
  BY FenceInit, LifeInit
<1>2. TypeOK /\ (FenceInv /\ LifeInv) /\ [Next]_vars => (FenceInv /\ LifeInv)'
  BY FenceStep, LifeInvStep
<1> QED
  BY <1>1, <1>2, TypeCorrect, PTL DEF Spec

(* For any number of processes, and however late they are, every step of   *)
(* the control protocol is a step of the lifecycle that a run promises, or *)
(* invisible in it: only the owner's own execution completes the run, and  *)
(* only an execution of a long-lived worker or manager may do so late.     *)
THEOREM Refinement == Spec => ImplementsLifecycle
<1>1. Init => Lifecycle!Init
  BY DEF Init, Nobody, Lifecycle!Init
<1>2. TypeOK /\ FenceInv /\ LifeInv /\ [Next]_vars => [Lifecycle!Next]_(Lifecycle!vars)
  BY LifecycleStep DEF LifeStep, Lifecycle!vars
<1> QED
  BY <1>1, <1>2, ControlInvariants, PTL DEF Spec, ImplementsLifecycle, Lifecycle!Spec

---------------------------------------------------------------------------
(* Who comes to hold the lock, and who comes to work                       *)

HeldKept(x) ==
  ex'[x].pc \in HeldLabels => ex'[x].token \/ (Held(x) /\ ex'[x].token = ex[x].token)

WorkKept(x) ==
  ex'[x].pc \in WorkLabels => Working(x) /\ ex'[x].ident = ex[x].ident

LEMMA CalmKept ==
  ASSUME NEW x \in Execs, Calm(x), Steady(x)
  PROVE  HeldKept(x) /\ WorkKept(x)
BY DEF Calm, Steady, HeldKept, WorkKept, WorkLabels, Over

(* One execution is launched, the others stay as they are.                 *)
LEMMA LaunchKept ==
  ASSUME NEW e, \A x \in Execs : x # e => Calm(x) /\ Steady(x),
         ex'[e].pc \in {"assigned", "retryCas", "reconcile", "resume", "load"}
  PROVE  \A x \in Execs : HeldKept(x) /\ WorkKept(x)
<1> SUFFICES ASSUME NEW x \in Execs PROVE HeldKept(x) /\ WorkKept(x)
  OBVIOUS
<1>1. CASE x = e
  BY <1>1 DEF HeldKept, WorkKept, HeldLabels, WorkLabels
<1>2. CASE x # e
  BY <1>2, CalmKept
<1> QED
  BY <1>1, <1>2

LEMMA ClientKeeps ==
  ASSUME TypeOK, ClientStep
  PROVE  \A x \in Execs : HeldKept(x) /\ WorkKept(x)
<1>0. ExecTypeOK
  BY DEF TypeOK
<1>1. PICK c \in Clients :
        \/ \E e \in Execs : Start(c, e) \/ ResumeReconciled(c, e) \/ RetryRead(c, e)
        \/ Reject(c) \/ CancelBegin(c) \/ CancelCommit(c) \/ CancelRejected(c)
  BY DEF ClientStep
<1>2. ASSUME NEW e \in Execs, Start(c, e) PROVE \A x \in Execs : HeldKept(x) /\ WorkKept(x)
  <2>1. TakesOwnership(e, e, c, "load")
    BY <1>2 DEF Start
  <2> QED
    BY <1>0, <2>1, TakeEffects, TakeCalm, LaunchKept DEF Reset
<1>3. ASSUME NEW e \in Execs, ResumeReconciled(c, e)
      PROVE  \A x \in Execs : HeldKept(x) /\ WorkKept(x)
  <2>1. Become(e, Launched(c, owner, "resume"))
    BY <1>3 DEF ResumeReconciled
  <2>2. Reset(e, "resume", owner) /\ Others(e)
    BY <1>0, <2>1, LaunchEffects
  <2> QED
    BY <2>2, OthersCalm, LaunchKept DEF Reset
<1>4. ASSUME NEW e \in Execs, RetryRead(c, e) PROVE \A x \in Execs : HeldKept(x) /\ WorkKept(x)
  <2>1. Become(e, [Launched(c, e, "retryCas") EXCEPT !.prev = owner])
    BY <1>4 DEF RetryRead
  <2>2. /\ ex'[e].pc = "retryCas" /\ ex'[e].ident = e /\ ex'[e].prev = owner
        /\ ex'[e].stale = FALSE /\ ex'[e].token = FALSE /\ Others(e)
    BY <1>0, <2>1, RetryReadEffects
  <2> QED
    BY <2>2, OthersCalm, LaunchKept
<1> QED
  BY <1>1, <1>2, <1>3, <1>4, ClientCalm, CalmKept

LEMMA ExecutionKeeps ==
  ASSUME TypeOK, NEW e \in Execs, ExecStep(e) \/ HeartbeatStep(e) \/ CrashIsolated(e)
  PROVE  \A x \in Execs : HeldKept(x) /\ (WorkKept(x) \/ (status' = "running" /\ fresh'))
<1>0. ExecTypeOK
  BY DEF TypeOK
<1>1. ASSUME NEW x \in Execs, Steady(x) PROVE HeldKept(x) /\ WorkKept(x)
  BY <1>1, ExecutionCalm, CalmKept
<1>2. ASSUME Acquire(e) PROVE HeldKept(e) /\ WorkKept(e)
  <2>1. CASE Become(e, [ex[e] EXCEPT !.pc = "admit", !.token = TRUE])
    <3>1. ex'[e].pc = "admit" /\ ex'[e].token = TRUE
      BY <1>0, <2>1, SpecialEffects
    <3> QED
      BY <3>1 DEF HeldKept, WorkKept, WorkLabels
  <2>2. CASE Throw(e)
    BY <1>0, <2>2, Endings DEF Reset, HeldKept, WorkKept, HeldLabels, WorkLabels
  <2> QED
    BY <1>2, <2>1, <2>2 DEF Acquire
<1>3. ASSUME Activate(e) PROVE HeldKept(e) /\ (WorkKept(e) \/ (status' = "running" /\ fresh'))
  <2>1. Held(e)
    BY <1>3 DEF Activate, At, Held, HeldLabels
  <2>2. CASE Goto(e, "catch")
    BY <1>0, <2>2, Effects DEF Moved, HeldKept, WorkKept, HeldLabels, WorkLabels
  <2>3. CASE ~Goto(e, "catch")
    <3>1. Become(e, [ex[e] EXCEPT !.pc = "dag", !.hb = "idle"]) /\ status' = "running" /\ fresh'
      BY <1>3, <2>3 DEF Activate, StoreStatus
    <3> QED
      BY <1>0, <2>1, <3>1, Effects DEF Moved, HeldKept
  <2> QED
    BY <2>2, <2>3
<1> QED
  BY <1>1, <1>2, <1>3, ExecutionCalm

LEMMA ManagerKeeps ==
  ASSUME TypeOK, NEW m \in Managers, ManagerStep(m)
  PROVE  \A x \in Execs : HeldKept(x) /\ WorkKept(x)
<1>0. ExecTypeOK /\ (mgr[m].pc # "idle" => mgr[m].exec \in Execs)
  BY DEF TypeOK, MgrTypeOK
<1> USE DEF MgrAt
<1>1. ASSUME ex' = ex PROVE \A x \in Execs : HeldKept(x) /\ WorkKept(x)
  BY <1>1, SameCalm, CalmKept
<1>2. ASSUME AssignOwner(m), mgr[m].exec \in Execs
      PROVE  \A x \in Execs : HeldKept(x) /\ WorkKept(x)
  <2> DEFINE e == mgr[m].exec
  <2>1. TakesOwnership(e, e, Isolated, "assigned")
    BY <1>2 DEF AssignOwner
  <2>2. Reset(e, "assigned", e)
    BY <1>0, <1>2, <2>1, TakeEffects
  <2>3. \A x \in Execs : x # e => Calm(x) /\ Steady(x)
    BY <1>0, <1>2, <2>1, TakeCalm
  <2> QED
    BY <2>2, <2>3, LaunchKept DEF Reset
<1>3. ASSUME MgrCreate(m) PROVE \A x \in Execs : HeldKept(x) /\ WorkKept(x)
  <2>1. mgr[m].exec \in Execs /\ Goto(mgr[m].exec, "resume")
    BY <1>0, <1>3 DEF MgrCreate
  <2>2. Moved(mgr[m].exec, "resume") /\ Others(mgr[m].exec)
    BY <1>0, <2>1, Effects
  <2>3. \A x \in Execs : x # mgr[m].exec => Calm(x) /\ Steady(x)
    BY <2>1, <2>2, OthersCalm
  <2> QED
    BY <2>2, <2>3, LaunchKept DEF Moved
<1>4. ASSUME MgrClaimStalled(m) PROVE \A x \in Execs : HeldKept(x) /\ WorkKept(x)
  BY <1>1, <1>4, SupersededCalm, CalmKept DEF MgrClaimStalled
<1>5. ASSUME MgrAssign(m) \/ MgrAssignRejected(m)
      PROVE  \A x \in Execs : HeldKept(x) /\ WorkKept(x)
  BY <1>0, <1>1, <1>2, <1>5 DEF MgrAssign, MgrAssignRejected
<1>6. ASSUME \/ MgrPoll(m) \/ MgrAcquire(m) \/ MgrRecheck(m) \/ MgrCreateFails(m) \/ MgrFailOwned(m)
             \/ MgrFailLook(m) \/ MgrFailClaimed(m) \/ MgrRelease(m) \/ MgrSync(m)
      PROVE  \A x \in Execs : HeldKept(x) /\ WorkKept(x)
  BY <1>1, <1>6 DEF MgrPoll, PollWhen, MgrAcquire, MgrRecheck, MgrCreateFails, MgrFailOwned,
                    MgrFailLook, MgrFailClaimed, MgrRelease, MgrSync
<1> QED
  BY <1>3, <1>4, <1>5, <1>6 DEF ManagerStep

LEMMA StepKeeps ==
  ASSUME TypeOK, [Next]_vars
  PROVE  \A x \in Execs : HeldKept(x) /\ (WorkKept(x) \/ (status' = "running" /\ fresh'))
<1>1. ASSUME ex' = ex PROVE \A x \in Execs : HeldKept(x) /\ WorkKept(x)
  BY <1>1, SameCalm, CalmKept
<1>2. CASE UNCHANGED vars
  BY <1>1, <1>2 DEF vars, controlVars
<1>3. ASSUME NEW w \in Workers, NEW e \in Execs, WorkerClaim(w, e)
      PROVE  \A x \in Execs : HeldKept(x) /\ WorkKept(x)
  <2>1. TakesOwnership(w, e, w, "resume") /\ ExecTypeOK
    BY <1>3 DEF WorkerClaim, TypeOK
  <2> QED
    BY <2>1, TakeEffects, TakeCalm, LaunchKept DEF Reset
<1>4. ASSUME NEW h \in Hosts, CrashHost(h) PROVE \A x \in Execs : HeldKept(x) /\ WorkKept(x)
  BY <1>4, CrashCalm, CalmKept
<1>5. ASSUME TimeStep \/ \E m \in Managers : CrashManager(m)
      PROVE  \A x \in Execs : HeldKept(x) /\ WorkKept(x)
  BY <1>1, <1>5 DEF TimeStep, LockExpires, HeartbeatAges, StalledClaimExpires, CrashManager, controlVars
<1>6. CASE Next
  BY <1>3, <1>4, <1>5, <1>6, ClientKeeps, ExecutionKeeps, ManagerKeeps DEF Next, CrashStep
<1> QED
  BY <1>2, <1>6

---------------------------------------------------------------------------
(* The lock                                                                *)

(* Whoever takes a lock that is live held it before.                       *)
LockMoves ==
  lockLive /\ lock' # lock =>
    \/ \E e \in Execs : lock = ExecToken(e) /\ ex[e].token /\ ~ex'[e].token
    \/ \E m \in Managers : lock = ClaimToken(mgr[m].exec) /\ MgrAt(m, "release")

LockGoesOn == (lockLive => lock # NoLock)' /\ LockMoves

LEMMA LockSame ==
  ASSUME lockLive => lock # NoLock, lock' = lock, lockLive' = lockLive
  PROVE  LockGoesOn
BY DEF LockGoesOn, LockMoves

LEMMA LockTaken ==
  ASSUME lockLive => lock # NoLock, NEW t \in Tokens, AcquireLock(t)
  PROVE  LockGoesOn
<1>1. t # NoLock
  BY DEF Tokens, NoLock
<1> QED
  BY <1>1 DEF LockGoesOn, LockMoves, AcquireLock, LockFree

LEMMA LockReleased ==
  ASSUME lockLive => lock # NoLock, NEW e \in Execs, ReleaseLock(ExecToken(e)),
         ex[e].token, ~ex'[e].token
  PROVE  LockGoesOn
BY DEF LockGoesOn, LockMoves, ReleaseLock

LEMMA LockExecutionMoves ==
  ASSUME TypeOK, HeldInv, NEW e \in Execs, ExecStep(e) \/ HeartbeatStep(e) \/ CrashIsolated(e)
  PROVE  LockGoesOn
<1>0. ExecTypeOK /\ (lockLive => lock # NoLock)
  BY DEF TypeOK, HeldInv
<1> USE DEF backendVars, At
<1>1. ASSUME Acquire(e) PROVE LockGoesOn
  BY <1>0, <1>1, LockTaken, LockSame, TokenType DEF Acquire
<1>2. ASSUME Unlock(e) PROVE LockGoesOn
  <2>1. ex[e].token
    BY <1>2 DEF Unlock, HeldInv, Held, HeldLabels
  <2>2. CASE Aborted(e)
    BY <1>0, <1>2, <2>2, LockSame DEF Unlock
  <2>3. CASE ~Aborted(e)
    <3>1. /\ Become(e, [ex[e] EXCEPT !.pc = "recheck", !.hb = "off", !.token = FALSE])
          /\ ReleaseLock(ExecToken(e))
      BY <1>2, <2>3 DEF Unlock
    <3>2. ~ex'[e].token
      BY <1>0, <3>1, SpecialEffects
    <3> QED
      BY <1>0, <2>1, <3>1, <3>2, LockReleased
  <2> QED
    BY <2>2, <2>3
<1>3. ASSUME Finally(e) PROVE LockGoesOn
  <2>1. ~ex'[e].token
    BY <1>0, <1>3, Endings DEF Finally, Reset
  <2> QED
    BY <1>0, <1>3, <2>1, LockReleased, LockSame DEF Finally
<1>4. ASSUME \/ RetryCas(e) \/ RetryReconciled(e) \/ RetryRollback(e) \/ Resume(e) \/ Restore(e)
             \/ Load(e) \/ Admit(e) \/ Activate(e) \/ DagSettles(e) \/ CompleteRead(e)
             \/ CompleteCas(e) \/ PauseRead(e) \/ PauseCas(e)
      PROVE  lock' = lock /\ lockLive' = lockLive
  BY <1>4 DEF RetryCas, RetryReconciled, RetryRollback, Resume, Restore, Load, Admit, Activate,
              DagSettles, CompleteRead, CompleteCas, PauseRead, PauseCas, CommitRead
<1>5. ASSUME \/ Announce(e) \/ Recheck(e) \/ Catch(e) \/ FailRead(e) \/ FailCas(e) \/ FailExec(e)
             \/ HeartbeatStep(e) \/ CrashIsolated(e)
      PROVE  lock' = lock /\ lockLive' = lockLive
  BY <1>5 DEF Announce, Recheck, Catch, FailRead, FailCas, FailExec, HeartbeatStep,
              HeartbeatExtend, HeartbeatWrite, HeartbeatFails, CrashIsolated
<1> QED
  BY <1>0, <1>1, <1>2, <1>3, <1>4, <1>5, LockSame DEF ExecStep

LEMMA LockManagerMoves ==
  ASSUME TypeOK, HeldInv, NEW m \in Managers, ManagerStep(m)
  PROVE  LockGoesOn
<1>0. (lockLive => lock # NoLock) /\ (mgr[m].pc # "idle" => mgr[m].exec \in Execs)
  BY DEF TypeOK, MgrTypeOK, HeldInv
<1> USE DEF backendVars, MgrAt
<1>1. ASSUME MgrAcquire(m) PROVE LockGoesOn
  BY <1>0, <1>1, LockTaken, LockSame, TokenType DEF MgrAcquire
<1>2. ASSUME MgrRelease(m) PROVE LockGoesOn
  <2>1. CASE ReleaseLock(ClaimToken(mgr[m].exec))
    BY <1>0, <1>2, <2>1 DEF MgrRelease, ReleaseLock, LockGoesOn, LockMoves
  <2> QED
    BY <1>0, <1>2, <2>1, LockSame DEF MgrRelease
<1>3. ASSUME \/ MgrPoll(m) \/ MgrRecheck(m) \/ MgrClaimStalled(m) \/ MgrAssign(m)
             \/ MgrAssignRejected(m) \/ MgrCreate(m) \/ MgrCreateFails(m) \/ MgrFailOwned(m)
             \/ MgrFailLook(m) \/ MgrFailClaimed(m) \/ MgrSync(m)
      PROVE  lock' = lock /\ lockLive' = lockLive
  BY <1>3 DEF MgrPoll, PollWhen, MgrRecheck, MgrClaimStalled, ClaimStalledRun, MgrAssign,
              MgrAssignRejected, MgrCreate, MgrCreateFails, MgrFailOwned, MgrFailLook,
              MgrFailClaimed, MgrSync
<1> QED
  BY <1>0, <1>1, <1>2, <1>3, LockSame DEF ManagerStep

LEMMA LockOtherMoves ==
  ASSUME HeldInv,
         \/ ClientStep \/ CrashStep \/ TimeStep
         \/ \E w \in Workers, e \in Execs : WorkerClaim(w, e)
  PROVE  LockGoesOn
<1>0. lockLive => lock # NoLock
  BY DEF HeldInv
<1> USE DEF backendVars, controlVars
<1>1. ASSUME ClientStep PROVE lock' = lock /\ lockLive' = lockLive
  BY <1>1 DEF ClientStep, Start, ResumeReconciled, RetryRead, Reject, CancelBegin, CancelCommit,
              CancelRejected
<1>2. ASSUME CrashStep \/ \E w \in Workers, e \in Execs : WorkerClaim(w, e)
      PROVE  lock' = lock /\ lockLive' = lockLive
  BY <1>2 DEF CrashStep, CrashIsolated, CrashHost, CrashManager, WorkerClaim, ClaimStalledRun
<1>3. ASSUME TimeStep PROVE LockGoesOn
  BY <1>0, <1>3 DEF TimeStep, LockExpires, HeartbeatAges, StalledClaimExpires, LockGoesOn, LockMoves
<1> QED
  BY <1>0, <1>1, <1>2, <1>3, LockSame

LEMMA LockMovesStep ==
  ASSUME TypeOK, HeldInv, [Next]_vars
  PROVE  LockGoesOn
<1>1. CASE UNCHANGED vars
  BY <1>1, LockSame DEF vars, backendVars, HeldInv
<1>2. CASE Next
  BY <1>2, LockExecutionMoves, LockManagerMoves, LockOtherMoves DEF Next
<1> QED
  BY <1>1, <1>2

LEMMA HeldStep ==
  ASSUME TypeOK, HeldInv, [Next]_vars
  PROVE  HeldInv'
<1>1. ASSUME NEW x \in Execs, Held(x)' PROVE ex'[x].token
  BY <1>1, StepKeeps DEF HeldKept, HeldInv, Held
<1>2. (lockLive => lock # NoLock)'
  BY LockMovesStep DEF LockGoesOn
<1> QED
  BY <1>1, <1>2 DEF HeldInv

LEMMA HeldInit == Init => HeldInv
BY DEF Init, HeldInv, Held, HeldLabels, Unused

(* However late processes wake up and whoever crashes: a live lock leaves  *)
(* the store only when the execution or the claim whose token it bears     *)
(* lets it go.                                                             *)
THEOREM LockKeeping == Spec => LockRespectsHolder
<1>1. Init => HeldInv
  BY HeldInit
<1>2. TypeOK /\ HeldInv /\ [Next]_vars => HeldInv'
  BY HeldStep
<1>3. TypeOK /\ HeldInv /\ [Next]_vars =>
        [lockLive /\ lock' # lock =>
           \/ \E e \in Execs : lock = ExecToken(e) /\ ex[e].token /\ ~ex'[e].token
           \/ \E m \in Managers : lock = ClaimToken(mgr[m].exec) /\ MgrAt(m, "release")]_vars
  BY LockMovesStep DEF LockGoesOn, LockMoves
<1> QED
  BY <1>1, <1>2, <1>3, TypeCorrect, PTL DEF Spec, LockRespectsHolder

---------------------------------------------------------------------------
(* The owner                                                               *)

(* What a step does to a run that is at work: it leaves the run alone, it  *)
(* closes or renews it, it opens the run for an id never used before, or   *)
(* the heartbeat grows old.                                                *)
Tame ==
  /\ owner' = owner
  /\ status' \in Active => status \in Active /\ (status' = "pending" => status = "pending")
  /\ fresh => fresh'

Renewed == status' \notin Active \/ (status' # "pending" /\ fresh')

Opened ==
  \E e \in Execs : owner' = e /\ ex[e].pc \in {"idle", "retryCas"} /\ UnspentInv /\ status' = "pending"

LEMMA StoreClient ==
  ASSUME TypeOK, UnspentInv, ClientStep
  PROVE  Tame \/ Renewed \/ Opened
<1> USE DEF backendVars, StoreStatus
<1>1. PICK c \in Clients :
        \/ \E e \in Execs : Start(c, e) \/ ResumeReconciled(c, e) \/ RetryRead(c, e)
        \/ Reject(c) \/ CancelBegin(c) \/ CancelCommit(c) \/ CancelRejected(c)
  BY DEF ClientStep
<1>2. ASSUME NEW e \in Execs, Start(c, e) PROVE Opened
  BY <1>2 DEF Start, FreshId, At, TakesOwnership, Opened
<1>3. ASSUME \/ \E e \in Execs : ResumeReconciled(c, e) \/ RetryRead(c, e)
             \/ CancelBegin(c) \/ CancelRejected(c)
      PROVE  UNCHANGED <<status, owner, fresh>>
  BY <1>3 DEF ResumeReconciled, RetryRead, CancelBegin, CancelRejected
<1>4. ASSUME Reject(c) \/ CancelCommit(c) PROVE Tame \/ Renewed
  BY <1>4 DEF Reject, CancelCommit, Tame, Renewed, Active
<1> QED
  BY <1>1, <1>2, <1>3, <1>4 DEF Tame

LEMMA StoreExecution ==
  ASSUME TypeOK, LifeInv, UnspentInv, NEW e \in Execs, ExecStep(e) \/ HeartbeatStep(e)
  PROVE  Tame \/ Renewed \/ Opened
<1> USE DEF backendVars, At
<1>1. ASSUME RetryCas(e) PROVE Tame \/ Opened
  BY <1>1 DEF RetryCas, StoreStatus, Tame, Opened
<1>2. ASSUME RetryRollback(e) PROVE Tame \/ Renewed
  BY <1>2 DEF RetryRollback, StoreStatus, Tame, Renewed, Active
<1>3. ASSUME Restore(e) PROVE Tame
  <2>1. ex[e].seen \in {"pending", "running"}
    BY <1>3, SeenType DEF Restore, LifeInv, TypeOK
  <2> QED
    BY <1>3, <2>1 DEF Restore, Matches, StoreStatus, Tame, Active
<1>4. ASSUME Activate(e) PROVE Tame \/ Renewed
  BY <1>4 DEF Activate, StoreStatus, Tame, Renewed
<1>5. ASSUME CompleteCas(e) \/ FailCas(e) \/ FailExec(e) PROVE Tame \/ Renewed
  BY <1>5 DEF CompleteCas, FailCas, FailExec, StoreStatus, Tame, Renewed, Active
<1>6. ASSUME PauseCas(e) PROVE Tame
  BY <1>6 DEF PauseCas, Matches, StoreStatus, Tame, Active
<1>7. ASSUME HeartbeatStep(e) PROVE Tame
  BY <1>7 DEF HeartbeatStep, HeartbeatExtend, HeartbeatWrite, HeartbeatFails, Tame
<1>8. ASSUME \/ RetryReconciled(e) \/ Resume(e) \/ Load(e) \/ Acquire(e) \/ Admit(e)
             \/ DagSettles(e) \/ CompleteRead(e) \/ PauseRead(e)
      PROVE  Tame
  BY <1>8 DEF RetryReconciled, Resume, Load, Acquire, Admit, DagSettles, CompleteRead, PauseRead,
              CommitRead, Tame
<1>9. ASSUME \/ Announce(e) \/ Unlock(e) \/ Recheck(e) \/ Catch(e) \/ FailRead(e) \/ Finally(e)
      PROVE  Tame
  BY <1>9 DEF Announce, Unlock, Recheck, Catch, FailRead, Finally, Tame
<1> QED
  BY <1>1, <1>2, <1>3, <1>4, <1>5, <1>6, <1>7, <1>8, <1>9 DEF ExecStep

LEMMA StoreManager ==
  ASSUME NEW m \in Managers, ManagerStep(m)
  PROVE  Tame \/ Renewed
<1> USE DEF backendVars
<1>1. ASSUME MgrClaimStalled(m) PROVE Tame \/ Renewed
  BY <1>1 DEF MgrClaimStalled, ClaimStalledRun, Stalled, Tame, Renewed
<1>2. ASSUME MgrAssign(m) \/ MgrAssignRejected(m) PROVE Tame \/ Renewed
  BY <1>2 DEF MgrAssign, MgrAssignRejected, AssignOwner, StoreStatus, Tame, Renewed
<1>3. ASSUME MgrFailOwned(m) \/ MgrFailClaimed(m) PROVE Tame \/ Renewed
  BY <1>3 DEF MgrFailOwned, MgrFailClaimed, StoreStatus, Tame, Renewed, Active
<1>4. ASSUME \/ MgrPoll(m) \/ MgrAcquire(m) \/ MgrRecheck(m) \/ MgrCreate(m) \/ MgrCreateFails(m)
             \/ MgrFailLook(m) \/ MgrRelease(m) \/ MgrSync(m)
      PROVE  UNCHANGED <<status, owner, fresh>>
  BY <1>4 DEF MgrPoll, PollWhen, MgrAcquire, MgrRecheck, MgrCreate, MgrCreateFails, MgrFailLook,
              MgrRelease, MgrSync
<1> QED
  BY <1>1, <1>2, <1>3, <1>4 DEF ManagerStep, Tame

LEMMA StoreStep ==
  ASSUME TypeOK, LifeInv, UnspentInv, [Next]_vars
  PROVE  Tame \/ Renewed \/ Opened \/ HeartbeatAges
<1> USE DEF backendVars
<1>1. CASE UNCHANGED vars
  BY <1>1 DEF vars, Tame
<1>2. ASSUME \E w \in Workers, e \in Execs : WorkerClaim(w, e) PROVE Renewed
  BY <1>2 DEF WorkerClaim, ClaimStalledRun, Stalled, Renewed
<1>3. ASSUME CrashStep PROVE Tame
  BY <1>3 DEF CrashStep, CrashIsolated, CrashHost, CrashManager, Tame
<1>4. ASSUME TimeStep PROVE Tame \/ HeartbeatAges
  BY <1>4 DEF TimeStep, LockExpires, StalledClaimExpires, Tame
<1>5. CASE Next
  BY <1>2, <1>3, <1>4, <1>5, StoreClient, StoreExecution, StoreManager DEF Next
<1> QED
  BY <1>1, <1>5

LEMMA WorkStep ==
  ASSUME TypeOK, LifeInv, UnspentInv, WorkInv, [Next]_vars
  PROVE  WorkInv'
<1>1. CASE Renewed
  BY <1>1 DEF Renewed, WorkInv
<1>2. CASE status' = "running" /\ fresh'
  BY <1>2 DEF WorkInv
<1>3. CASE \A x \in Execs : WorkKept(x)
  <2>1. \A x \in Execs : Working(x)' => Working(x) /\ ex'[x].ident = ex[x].ident
    BY <1>3 DEF WorkKept, Working, WorkLabels
  <2>2. CASE Tame
    BY <2>1, <2>2 DEF Tame, WorkInv
  <2>3. CASE Opened
    <3>1. PICK e \in Execs : owner' = e /\ ex[e].pc \in {"idle", "retryCas"}
      BY <2>3 DEF Opened
    <3>2. \A x \in Execs : Working(x) => x # e /\ ex[x].ident # e
      BY <3>1 DEF UnspentInv, Working
    <3> QED
      BY <2>1, <3>1, <3>2 DEF WorkInv
  <2>4. CASE HeartbeatAges
    <3>1. CASE Async
      BY <2>4, <3>1 DEF HeartbeatAges, WorkInv
    <3>2. CASE ~Async
      <4>1. ~OwnerAlive /\ ex' = ex /\ owner' = owner
        BY <2>4, <3>2 DEF HeartbeatAges, controlVars
      <4>2. \A x \in Execs : Working(x) => ex[x].ident # owner
        BY <4>1 DEF OwnerAlive, Working, Live
      <4> QED
        BY <2>1, <4>1, <4>2 DEF WorkInv
    <3> QED
      BY <3>1, <3>2
  <2> QED
    BY <1>1, <2>2, <2>3, <2>4, StoreStep
<1> QED
  BY <1>2, <1>3, StepKeeps

LEMMA WorkInit == Init => WorkInv
BY DEF Init, WorkInv, Working, Unused

(* The owner of a run changes only when it is over, pending, stalled, or   *)
(* in a manager's hands.                                                   *)
LEMMA OwnerChanges ==
  ASSUME TypeOK, [Next]_vars, owner' # owner
  PROVE  status \notin Active \/ status = "pending" \/ Stalled \/ owner \in Managers
<1> DEFINE Due == status \notin Active \/ status = "pending" \/ Stalled \/ owner \in Managers
<1> USE DEF backendVars
<1>1. owner' = owner \/ Next
  BY DEF vars
<1>2. ASSUME ClientStep PROVE Due
  BY <1>2 DEF ClientStep, Start, ResumeReconciled, RetryRead, Reject, CancelBegin, CancelCommit,
              CancelRejected, Active
<1>3. ASSUME NEW e \in Execs, ExecStep(e) \/ HeartbeatStep(e) PROVE Due
  <2>1. ASSUME RetryCas(e) \/ RetryRollback(e) PROVE Due
    BY <2>1 DEF RetryCas, RetryRollback, Matches, Active
  <2>2. ASSUME \/ RetryReconciled(e) \/ Resume(e) \/ Restore(e) \/ Load(e) \/ Acquire(e) \/ Admit(e)
               \/ Activate(e) \/ DagSettles(e) \/ CompleteRead(e) \/ CompleteCas(e) \/ PauseRead(e)
        PROVE  owner' = owner
    BY <2>2 DEF RetryReconciled, Resume, Restore, Load, Acquire, Admit, Activate, DagSettles,
                CompleteRead, CompleteCas, PauseRead, CommitRead
  <2>3. ASSUME \/ PauseCas(e) \/ Announce(e) \/ Unlock(e) \/ Recheck(e) \/ Catch(e) \/ FailRead(e)
               \/ FailCas(e) \/ Finally(e) \/ FailExec(e) \/ HeartbeatStep(e)
        PROVE  owner' = owner
    BY <2>3 DEF PauseCas, Announce, Unlock, Recheck, Catch, FailRead, FailCas, Finally, FailExec,
                HeartbeatStep, HeartbeatExtend, HeartbeatWrite, HeartbeatFails
  <2> QED
    BY <1>3, <2>1, <2>2, <2>3 DEF ExecStep
<1>4. ASSUME NEW m \in Managers, ManagerStep(m) PROVE Due
  <2>1. m # None
    BY IdTypes
  <2>2. ASSUME AssignOwner(m) PROVE Due
    BY <2>1, <2>2 DEF AssignOwner, Matches, MgrWorkerId
  <2>3. ASSUME MgrAssign(m) \/ MgrAssignRejected(m) \/ MgrClaimStalled(m) PROVE Due
    BY <2>2, <2>3 DEF MgrAssign, MgrAssignRejected, MgrClaimStalled, ClaimStalledRun
  <2>4. ASSUME \/ MgrPoll(m) \/ MgrAcquire(m) \/ MgrRecheck(m) \/ MgrCreate(m) \/ MgrCreateFails(m)
               \/ MgrFailOwned(m) \/ MgrFailLook(m) \/ MgrFailClaimed(m) \/ MgrRelease(m)
               \/ MgrSync(m)
        PROVE  owner' = owner
    BY <2>4 DEF MgrPoll, PollWhen, MgrAcquire, MgrRecheck, MgrCreate, MgrCreateFails, MgrFailOwned,
                MgrFailLook, MgrFailClaimed, MgrRelease, MgrSync
  <2> QED
    BY <1>4, <2>3, <2>4 DEF ManagerStep
<1>5. ASSUME \E w \in Workers, e \in Execs : WorkerClaim(w, e) PROVE Due
  BY <1>5 DEF WorkerClaim, ClaimStalledRun
<1>6. ASSUME CrashStep \/ TimeStep PROVE owner' = owner
  BY <1>6 DEF CrashStep, CrashIsolated, CrashHost, CrashManager, TimeStep, LockExpires,
              HeartbeatAges, StalledClaimExpires
<1> QED
  BY <1>1, <1>2, <1>3, <1>4, <1>5, <1>6 DEF Next

(* As long as heartbeats come in time, an unfinished run is not taken from *)
(* an owner with an execution at work, by no claim, assignment, retry or   *)
(* rollback, for any number of processes.                                  *)
THEOREM WorkUndisturbed ==
  ASSUME ~Async
  PROVE  Spec => NotDisowned
<1>1. Init => WorkInv
  BY WorkInit
<1>2. TypeOK /\ FenceInv /\ LifeInv /\ WorkInv /\ [Next]_vars => WorkInv'
  BY WorkStep DEF FenceInv
<1>3. TypeOK /\ WorkInv /\ [Next]_vars =>
        [owner' # owner /\ status \in Active /\ owner \notin Managers =>
           ~\E e \in Execs : Working(e) /\ ex[e].ident = owner]_vars
  <2> SUFFICES ASSUME TypeOK, WorkInv, [Next]_vars, owner' # owner, status \in Active,
                      owner \notin Managers, NEW e \in Execs, Working(e), ex[e].ident = owner
               PROVE  FALSE
    OBVIOUS
  <2>1. status = "pending" \/ ~fresh
    BY OwnerChanges DEF Stalled
  <2> QED
    BY <2>1 DEF WorkInv
<1> QED
  BY <1>1, <1>2, <1>3, ControlInvariants, PTL DEF Spec, NotDisowned
===========================================================================
