----------------------- MODULE ExecutorSessionProofs -----------------------
(***************************************************************************)
(* What a hosted executor session promises in every behaviour of           *)
(* ExecutorSession: what it reports of its allocation, what it keeps open, *)
(* what it gives back and when it is quiet.                                *)
(***************************************************************************)
EXTENDS ExecutorSession, TLAPS

\* The inductive invariant, by the part of the session it is about.

\* Cleanup begins with the stop, and nothing is reported before it.
StopInv ==
  /\ stopped <=> cleanup # "none"
  /\ closed # None => stopped
  /\ settled => closed # None

\* A connection is under way only where #attach waits for it, and the
\* channel is opened after it.
AttachInv ==
  /\ "connect" \in tasks => attach = "connecting"
  /\ attach \in {"none", "connecting", "connected", "failed"} => channel = "none"

\* The allocator acts only for a session that has called it, and what the
\* session takes for released is released.
RemoteInv ==
  /\ alloc = "none" => remote = "none" /\ "allocate" \notin tasks
  /\ closed = "not-allocated" => alloc = "none"
  /\ releaseConfirmed => remote = "released"

\* While cleanup runs a known binding is being given back, and cleanup that
\* is over has seen every task end.
CleanupInv ==
  /\ cleanup \in {"running", "over"} /\ binding => releaseAttempted
  /\ cleanup = "over" \/ settled => tasks = {}

Parts ==
  /\ StopInv /\ AttachInv /\ RemoteInv /\ CleanupInv
  /\ ReleaseTruthful /\ StoppedWithdrawn

SessionInv == TypeOK /\ Parts

---------------------------------------------------------------------------
LEMMA SessionInit == Init => SessionInv
BY SessionAssumption
   DEF Init, SessionInv, Parts, TypeOK, Phases, StopInv, AttachInv, RemoteInv, CleanupInv,
       ReleaseTruthful, StoppedWithdrawn

\* #stop, whatever calls it, given what the caller does besides.
LEMMA StopParts ==
  ASSUME SessionInv, ~stopped, NEW ts, ts \subseteq tasks, Stop(ts),
         alloc' \in {alloc, "done"},
         \/ attach' = attach
         \/ attach \in {"connected", "failed", "opening"} /\ attach' = "done",
         UNCHANGED <<remote, binding, releaseConfirmed, closed, settled>>
  PROVE  Parts'
<1> USE SessionAssumption DEF SessionInv, Parts, TypeOK, Phases, Stop
<1>1. StopInv'
  BY DEF StopInv
<1>2. AttachInv'
  BY DEF AttachInv, Closes
<1>3. RemoteInv'
  BY DEF RemoteInv, StopInv
<1>4. CleanupInv'
  BY DEF CleanupInv, StopInv
<1>5. ReleaseTruthful'
  BY DEF ReleaseTruthful, StopInv
<1>6. StoppedWithdrawn'
  BY DEF StoppedWithdrawn, Closes
<1> QED
  BY <1>1, <1>2, <1>3, <1>4, <1>5, <1>6

\* A step of a session that something has already stopped.
LEMMA LateParts ==
  ASSUME SessionInv, stopped, tasks' = tasks,
         alloc' \in {alloc, "done"},
         \/ attach' = attach
         \/ attach \in {"connected", "failed", "opening"} /\ attach' = "done",
         UNCHANGED <<endVars, ownVars, remote, binding, releaseConfirmed, closed, settled>>,
         alloc = "none" => alloc' = "none"
  PROVE  Parts'
BY SessionAssumption
   DEF SessionInv, Parts, TypeOK, Phases, StopInv, AttachInv, RemoteInv, CleanupInv,
       ReleaseTruthful, StoppedWithdrawn, endVars, ownVars

Tasks == {"allocate", "monitor", "connect", "channel", "owned", "release"}

\* The types of what a stop changes, and of the rest.
OwnType ==
  /\ stopped \in BOOLEAN /\ releaseAttempted \in BOOLEAN /\ tasks \in SUBSET Tasks
  /\ grant \in Phases /\ transport \in Phases /\ channel \in Phases
  /\ cleanup \in {"none", "running", "timedOut", "over"}

CallType ==
  /\ binding \in BOOLEAN /\ accepted \in BOOLEAN /\ releaseConfirmed \in BOOLEAN /\ settled \in BOOLEAN
  /\ alloc \in {"none", "calling", "returned", "failed", "done"}
  /\ monitor \in {"idle", "timer", "calling", "returned", "failed"}
  /\ attach \in {"none", "connecting", "connected", "failed", "opening", "ready", "done"}
  /\ remote \in {"none", "held", "released"}
  /\ closed \in {None, "not-allocated", "released", "reaper-required"}
  /\ accepted => attach \in {"ready", "done"}

LEMMA TypeSplit == (TypeOK <=> OwnType /\ CallType) /\ (TypeOK' <=> OwnType' /\ CallType')
BY DEF TypeOK, OwnType, CallType, Tasks

LEMMA StopType ==
  ASSUME OwnType, binding \in BOOLEAN, NEW ts \in SUBSET Tasks, Stop(ts) \/ StopOnce(ts)
  PROVE  OwnType'
<1>1. CASE Stop(ts)
  <2>1. tasks' \in SUBSET Tasks
    BY <1>1 DEF Stop, Tasks
  <2> QED
    BY <1>1, <2>1 DEF OwnType, Stop, Closes, Phases
<1>2. CASE tasks' = ts /\ UNCHANGED <<endVars, ownVars>>
  BY <1>2 DEF OwnType, endVars, ownVars
<1> QED
  BY <1>1, <1>2 DEF StopOnce

LEMMA ViewType ==
  ASSUME OwnType, CallType, NEW view \in Views, ApplyView(view)
  PROVE  /\ OwnType'
         /\ monitor' \in {"timer", "idle"}
         /\ attach' # attach => attach = "none" /\ attach' = "connecting"
<1>0. tasks \in SUBSET Tasks /\ binding \in BOOLEAN
  BY DEF OwnType, CallType
<1>1. CASE view \in {"pending", "ready"} /\ ~stopped
  <2>1. tasks' \in SUBSET Tasks
    BY <1>1 DEF OwnType, ApplyView, Tasks
  <2> QED
    BY <1>1, <2>1 DEF OwnType, ApplyView, endVars, ownVars
<1>2. CASE ~(view \in {"pending", "ready"} /\ ~stopped)
  <2>1. monitor' = "idle" /\ attach' = attach /\ StopOnce(tasks)
    BY <1>2 DEF ApplyView
  <2> QED
    BY <1>0, <2>1, StopType
<1> QED
  BY <1>1, <1>2

LEMMA TypeStep == SessionInv /\ [Next]_vars => TypeOK'
<1> SUFFICES ASSUME SessionInv, [Next]_vars PROVE OwnType' /\ CallType'
  BY TypeSplit
<1>a. OwnType /\ CallType /\ AttachInv
  BY TypeSplit DEF SessionInv, Parts
<1>b. tasks \in SUBSET Tasks /\ {} \in SUBSET Tasks /\ binding \in BOOLEAN
  BY <1>a DEF OwnType, CallType
<1>1. CASE RemoteAllocates
  BY <1>a, <1>1 DEF RemoteAllocates, OwnType, CallType, Tasks, Phases, endVars, ownVars
<1>2. CASE RemoteReleases
  BY <1>a, <1>2 DEF RemoteReleases, OwnType, CallType, Tasks, Phases, endVars, ownVars
<1>3. CASE AllocateTimesOut
  <2>1. OwnType'
    BY <1>a, <1>b, <1>3, StopType DEF AllocateTimesOut
  <2>2. CallType'
    BY <1>a, <1>3 DEF AllocateTimesOut, CallType
  <2> QED
    BY <2>1, <2>2
<1>4. CASE AllocateApplies
  <2>1. PICK view \in Views : ApplyView(view)
    BY <1>4 DEF AllocateApplies
  <2>2. /\ OwnType' /\ monitor' \in {"timer", "idle"}
        /\ attach' # attach => attach = "none" /\ attach' = "connecting"
    BY <1>a, <2>1, ViewType
  <2>3. CallType'
    BY <1>a, <1>4, <2>2 DEF AllocateApplies, CallType
  <2> QED
    BY <2>2, <2>3
<1>5. CASE MonitorFires
  BY <1>a, <1>5 DEF MonitorFires, OwnType, CallType, Tasks, Phases, endVars, ownVars
<1>6. CASE MonitorTimesOut
  <2>1. OwnType'
    BY <1>a, <1>b, <1>6, StopType DEF MonitorTimesOut
  <2>2. CallType'
    BY <1>a, <1>6 DEF MonitorTimesOut, CallType
  <2> QED
    BY <2>1, <2>2
<1>7. CASE MonitorApplies
  <2>1. PICK view \in Views : ApplyView(view)
    BY <1>7 DEF MonitorApplies
  <2>2. /\ OwnType' /\ monitor' \in {"timer", "idle"}
        /\ attach' # attach => attach = "none" /\ attach' = "connecting"
    BY <1>a, <2>1, ViewType
  <2>3. CallType'
    BY <1>a, <1>7, <2>2 DEF MonitorApplies, CallType
  <2> QED
    BY <2>2, <2>3
<1>8. CASE ChannelCloses
  <2>1. OwnType'
    BY <1>a, <1>b, <1>8, StopType DEF ChannelCloses
  <2>2. CallType'
    BY <1>a, <1>8 DEF ChannelCloses, CallType
  <2> QED
    BY <2>1, <2>2
<1>9. CASE Accept
  BY <1>a, <1>9 DEF Accept, OwnType, CallType, Tasks, Phases, endVars, ownVars
<1>10. CASE RunOwned
  BY <1>a, <1>10 DEF RunOwned, OwnType, CallType, Tasks, Phases, endVars, ownVars
<1>11. CASE \E t \in {"owned", "channel"} : WorkEnds(t)
  BY <1>a, <1>11 DEF WorkEnds, OwnType, CallType, Tasks, Phases, endVars, ownVars, Settles
<1>12. CASE \E c \in {"hard", "close", "preparation", "attachment"} : Stops(c)
  <2>1. OwnType'
    BY <1>a, <1>b, <1>12, StopType DEF Stops
  <2>2. CallType'
    BY <1>a, <1>12 DEF Stops, CallType
  <2> QED
    BY <2>1, <2>2
<1>13. CASE CleanupTimesOut
  BY <1>a, <1>13 DEF CleanupTimesOut, OwnType, CallType, Tasks, Phases, endVars, ownVars
<1>14. CASE FinishCleanup
  BY <1>a, <1>14 DEF FinishCleanup, OwnType, CallType, Tasks, Phases, endVars, ownVars
<1>15. CASE \E p \in {"released", "terminating", "failed"} : ReleaseReturns(p)
  BY <1>a, <1>15 DEF ReleaseReturns, OwnType, CallType, Tasks, Phases, endVars, ownVars, Settles
<1>16. ASSUME NEW outcome \in {"granted", "stops", "throws"}, Grants(outcome)
       PROVE  OwnType' /\ CallType'
  <2>1. CallType'
    <3>1. attach' \in {"opening", "done"} /\ (accepted => attach = "ready")
      BY <1>a, <1>16 DEF Grants, CallType
    <3> QED
      BY <1>a, <1>16, <3>1 DEF Grants, CallType
  <2>2. CASE ~stopped /\ attach = "connected" /\ attach' = "opening"
    BY <1>a, <1>16, <2>1, <2>2 DEF Grants, OwnType, Tasks, Phases, endVars
  <2>3. CASE ~stopped /\ attach = "connected" /\ outcome = "stops" /\ attach' = "done"
    <3>1. CASE StopOnce(tasks)
      BY <1>a, <1>b, <2>1, <3>1, StopType
    <3>2. CASE ~StopOnce(tasks)
      <4>1. /\ stopped' = TRUE /\ cleanup' = "running" /\ releaseAttempted' = binding
            /\ transport' = Closes(transport) /\ grant' = "closed" /\ channel' = channel
            /\ tasks' = tasks \cup (IF binding THEN {"release"} ELSE {})
        BY <1>16, <2>3, <3>2 DEF Grants
      <4> QED
        BY <1>a, <1>b, <2>1, <4>1 DEF OwnType, Tasks, Phases, Closes
    <3> QED
      BY <3>1, <3>2
  <2>4. CASE StopOnce(tasks)
    BY <1>a, <1>b, <2>1, <2>4, StopType
  <2> QED
    BY <1>16, <2>1, <2>2, <2>3, <2>4 DEF Grants
<1>17. ASSUME NEW b \in BOOLEAN, Create(b) PROVE OwnType' /\ CallType'
  <2>1. CallType'
    BY <1>a, <1>17 DEF Create, CallType
  <2>2. CASE Stop({})
    BY <1>a, <1>b, <2>1, <2>2, StopType
  <2>3. CASE tasks' = {"allocate"} /\ UNCHANGED <<endVars, ownVars>>
    BY <1>a, <2>1, <2>3 DEF OwnType, Tasks, endVars, ownVars
  <2> QED
    BY <1>17, <2>2, <2>3 DEF Create
<1>18. ASSUME NEW b \in BOOLEAN, AllocateReturns(b) PROVE OwnType' /\ CallType'
  <2>1. OwnType'
    BY <1>a, <1>18 DEF AllocateReturns, OwnType, Tasks, Phases, endVars, ownVars, Releases, Settles
  <2>2. CallType'
    BY <1>a, <1>18 DEF AllocateReturns, CallType, AttachInv, OwnType, Releases, Settles
  <2> QED
    BY <2>1, <2>2
<1>19. ASSUME NEW b \in BOOLEAN, MonitorReturns(b) PROVE OwnType' /\ CallType'
  <2>1. OwnType'
    BY <1>a, <1>19 DEF MonitorReturns, OwnType, Tasks, Phases, endVars, ownVars, Settles
  <2>2. CallType'
    BY <1>a, <1>19 DEF MonitorReturns, CallType, AttachInv, OwnType, Settles
  <2> QED
    BY <2>1, <2>2
<1>20. ASSUME NEW b \in BOOLEAN, ConnectReturns(b) PROVE OwnType' /\ CallType'
  <2>1. OwnType'
    BY <1>a, <1>20 DEF ConnectReturns, OwnType, Tasks, Phases, endVars, ownVars, Settles
  <2>2. CallType'
    BY <1>a, <1>20 DEF ConnectReturns, CallType, AttachInv, OwnType, Settles
  <2> QED
    BY <2>1, <2>2
<1>21. ASSUME NEW b \in BOOLEAN, ChannelReady(b) PROVE OwnType' /\ CallType'
  <2>1. CallType'
    BY <1>a, <1>21 DEF ChannelReady, CallType
  <2>2. OwnType'
    BY <1>a, <1>b, <1>21, StopType DEF ChannelReady, OwnType, endVars, ownVars
  <2> QED
    BY <2>1, <2>2
<1>22. CASE UNCHANGED vars
  BY <1>a, <1>22 DEF vars, OwnType, CallType
<1> QED
  BY <1>1, <1>2, <1>3, <1>4, <1>5, <1>6, <1>7, <1>8, <1>9, <1>10, <1>11, <1>12, <1>13,
     <1>14, <1>15, <1>16, <1>17, <1>18, <1>19, <1>20, <1>21, <1>22 DEF Next, HardDeadline

LEMMA PartsStep == SessionInv /\ [Next]_vars => Parts'
<1> SUFFICES ASSUME SessionInv, [Next]_vars PROVE Parts'
  OBVIOUS
<1> USE SessionAssumption DEF SessionInv, TypeOK, Phases, Parts,
       StopInv, AttachInv, RemoteInv, CleanupInv, ReleaseTruthful, StoppedWithdrawn, ownVars, endVars
<1>1. CASE RemoteAllocates
  BY <1>1 DEF RemoteAllocates
<1>2. CASE RemoteReleases
  BY <1>2 DEF RemoteReleases
<1>3. CASE AllocateTimesOut
  BY <1>3, StopParts DEF AllocateTimesOut, Active
<1>4. CASE AllocateApplies
  <2>1. PICK view \in Views : ApplyView(view)
    BY <1>4 DEF AllocateApplies
  <2>2. CASE view \in {"pending", "ready"} /\ ~stopped
    BY <1>4, <2>1, <2>2 DEF AllocateApplies, ApplyView
  <2>3. CASE ~(view \in {"pending", "ready"} /\ ~stopped)
    BY <1>4, <2>1, <2>3, StopParts, LateParts DEF AllocateApplies, ApplyView, StopOnce
  <2> QED
    BY <2>2, <2>3
<1>5. CASE MonitorFires
  BY <1>5 DEF MonitorFires, Active
<1>6. CASE MonitorTimesOut
  BY <1>6, StopParts DEF MonitorTimesOut, Active
<1>7. CASE MonitorApplies
  <2>1. PICK view \in Views : ApplyView(view)
    BY <1>7 DEF MonitorApplies
  <2>2. CASE view \in {"pending", "ready"} /\ ~stopped
    BY <1>7, <2>1, <2>2 DEF MonitorApplies, ApplyView
  <2>3. CASE ~(view \in {"pending", "ready"} /\ ~stopped)
    BY <1>7, <2>1, <2>3, StopParts, LateParts DEF MonitorApplies, ApplyView, StopOnce
  <2> QED
    BY <2>2, <2>3
<1>8. CASE ChannelCloses
  BY <1>8, StopParts DEF ChannelCloses, Active
<1>9. CASE Accept
  BY <1>9 DEF Accept, Active
<1>10. CASE RunOwned
  BY <1>10 DEF RunOwned, Active
<1>11. CASE \E t \in {"owned", "channel"} : WorkEnds(t)
  BY <1>11 DEF WorkEnds, Settles
<1>12. CASE \E c \in {"hard", "close", "preparation", "attachment"} : Stops(c)
  BY <1>12, StopParts DEF Stops, Active
<1>13. CASE CleanupTimesOut
  BY <1>13 DEF CleanupTimesOut
<1>14. CASE FinishCleanup
  BY <1>14 DEF FinishCleanup
<1>15. CASE \E p \in {"released", "terminating", "failed"} : ReleaseReturns(p)
  BY <1>15 DEF ReleaseReturns, Settles
<1>16. ASSUME NEW outcome \in {"granted", "stops", "throws"}, Grants(outcome) PROVE Parts'
  <2>1. CASE ~stopped /\ attach = "connected" /\ attach' = "opening"
    BY <1>16, <2>1 DEF Grants, StopOnce, Stop, Closes
  <2>2. CASE ~stopped /\ attach = "connected" /\ outcome = "stops" /\ attach' = "done"
    BY <1>16, <2>2 DEF Grants, StopOnce, Stop, Closes
  <2>3. CASE attach' = "done" /\ StopOnce(tasks)
    BY <1>16, <2>3, StopParts, LateParts DEF Grants, StopOnce
  <2> QED
    BY <1>16, <2>1, <2>2, <2>3 DEF Grants
<1>17. ASSUME NEW b \in BOOLEAN, Create(b) PROVE Parts'
  BY <1>17 DEF Create, Stop, Closes
<1>18. ASSUME NEW b \in BOOLEAN, AllocateReturns(b) PROVE Parts'
  BY <1>18 DEF AllocateReturns, Releases, Settles
<1>19. ASSUME NEW b \in BOOLEAN, MonitorReturns(b) PROVE Parts'
  BY <1>19 DEF MonitorReturns, Settles
<1>20. ASSUME NEW b \in BOOLEAN, ConnectReturns(b) PROVE Parts'
  BY <1>20 DEF ConnectReturns, Settles
<1>21. ASSUME NEW b \in BOOLEAN, ChannelReady(b) PROVE Parts'
  BY <1>21, StopParts, LateParts DEF ChannelReady, StopOnce
<1>22. CASE UNCHANGED vars
  BY <1>22 DEF vars
<1> QED
  BY <1>1, <1>2, <1>3, <1>4, <1>5, <1>6, <1>7, <1>8, <1>9, <1>10, <1>11, <1>12, <1>13,
     <1>14, <1>15, <1>16, <1>17, <1>18, <1>19, <1>20, <1>21, <1>22 DEF Next, HardDeadline

LEMMA SessionInvariant == Spec => []SessionInv
<1>1. SessionInv /\ [Next]_vars => SessionInv'
  BY TypeStep, PartsStep DEF SessionInv
<1> QED
  BY SessionInit, <1>1, PTL DEF Spec

---------------------------------------------------------------------------
\* The session's state is well typed in every behaviour: among the rest, a
\* session is accepted only on an attachment whose channel was ready.
THEOREM SessionTypeCorrect == Spec => []TypeOK
<1>1. SessionInv => TypeOK
  BY DEF SessionInv
<1> QED
  BY SessionInvariant, <1>1, PTL

\* What closed reports of the allocation is so: a session that calls it
\* released or never allocated is right for good, however late the calls
\* it made come back.
THEOREM ReleaseReported == Spec => []ReleaseTruthful
<1>1. SessionInv => ReleaseTruthful
  BY DEF SessionInv, Parts
<1> QED
  BY SessionInvariant, <1>1, PTL

\* A session that has stopped holds no grant, channel or transport open,
\* although a connection may settle and a factory may return after the stop.
THEOREM NothingKeptOpen == Spec => []StoppedWithdrawn
<1>1. SessionInv => StoppedWithdrawn
  BY DEF SessionInv, Parts
<1> QED
  BY SessionInvariant, <1>1, PTL

\* Cleanup that ends before its timeout has given back every allocation the
\* session knew, the one that came in late included.
THEOREM BindingGivenBack == Spec => []KnownBindingReleased
<1>1. SessionInv => KnownBindingReleased
  BY DEF SessionInv, Parts, CleanupInv, KnownBindingReleased
<1> QED
  BY SessionInvariant, <1>1, PTL

\* A settled session has no raw call under way and starts none.
THEOREM QuietWhenSettled == Spec => []SettledQuiet
<1>1. SessionInv => SettledQuiet
  BY DEF SessionInv, Parts, CleanupInv, StopInv, SettledQuiet
<1> QED
  BY SessionInvariant, <1>1, PTL
=============================================================================
