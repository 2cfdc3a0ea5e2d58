-------------------------- MODULE ExecutorSession --------------------------
(***************************************************************************)
(* One hosted executor session: Session of agent/hosted/executor-session.ts*)
(* It owns one allocation at a remote allocator and one authenticated      *)
(* attachment to the executor that was allocated.  Any of its timers,      *)
(* signals and callers may stop it at any moment; the calls that are then  *)
(* under way go on, since a client may ignore cancellation, and what they  *)
(* bring back late still has to be given up.                               *)
(*                                                                         *)
(* A call to the outside is a member of tasks from #track to the end of    *)
(* the raw promise; the remote allocator's state changes at some moment of *)
(* an allocate or release call.  The lease's times are abstracted to its   *)
(* timer, which may fire whenever the session is active.                   *)
(***************************************************************************)
EXTENDS Naturals

CONSTANT None

\* Nothing reported is none of the releases a session reports.
ASSUME SessionAssumption == None \notin {"not-allocated", "released", "reaper-required"}

VARIABLES
  stopped,
  tasks,      \* #tasks: allocate, monitor, connect, channel, owned, release
  alloc,      \* #allocate: none, calling, returned, failed, done
  monitor,    \* #monitor: idle, timer, calling, returned, failed
  attach,     \* #attach: none, connecting, connected, opening, done
  remote,     \* the allocation at the allocator: none, held, released
  binding,    \* #binding is known
  grant, transport, channel, \* none, open, closed
  accepted,
  releaseAttempted, releaseConfirmed,
  cleanup,    \* #cleanup: none, running, timedOut, over
  closed,     \* the release reported by closed, or None
  settled

vars == <<stopped, tasks, alloc, monitor, attach, remote, binding, grant, transport,
          channel, accepted, releaseAttempted, releaseConfirmed, cleanup, closed, settled>>
ownVars == <<grant, transport, channel>>
endVars == <<stopped, releaseAttempted, cleanup>>

Init ==
  /\ stopped = FALSE /\ tasks = {}
  /\ alloc = "none" /\ monitor = "idle" /\ attach = "none"
  /\ remote = "none" /\ binding = FALSE
  /\ grant = "none" /\ transport = "none" /\ channel = "none"
  /\ accepted = FALSE
  /\ releaseAttempted = FALSE /\ releaseConfirmed = FALSE
  /\ cleanup = "none" /\ closed = None /\ settled = FALSE

---------------------------------------------------------------------------
Active == ~stopped /\ alloc # "none"
Closes(x) == IF x = "open" THEN "closed" ELSE x

\* #settle, with the tasks that are left.
Settles(left) == settled' = (settled \/ (closed # None /\ left = {}))

\* #releaseOnce, given whether the binding is known and cleanup is running.
Releases(known, running) == ~releaseAttempted /\ known /\ running

\* #stop, when the raw calls left are ts.
Stop(ts) ==
  /\ stopped' = TRUE
  /\ grant' = Closes(grant) /\ channel' = Closes(channel) /\ transport' = Closes(transport)
  /\ cleanup' = "running"
  /\ releaseAttempted' = binding
  /\ tasks' = ts \cup (IF binding THEN {"release"} ELSE {})

\* A step that stops the session, unless something already has.
StopOnce(ts) == IF stopped THEN tasks' = ts /\ UNCHANGED <<endVars, ownVars>> ELSE Stop(ts)

---------------------------------------------------------------------------
(* Allocation                                                              *)

\* The constructor: a signal that is already aborted stops it at once.
Create(canceled) ==
  /\ alloc = "none" /\ ~stopped
  /\ \/ /\ canceled /\ Stop({}) /\ UNCHANGED alloc
     \/ /\ ~canceled /\ alloc' = "calling" /\ tasks' = {"allocate"}
        /\ UNCHANGED <<endVars, ownVars>>
  /\ UNCHANGED <<monitor, attach, remote, binding, accepted, releaseConfirmed, closed, settled>>

\* external: the allocator carries out the call.
RemoteAllocates ==
  /\ "allocate" \in tasks /\ remote = "none"
  /\ remote' = "held"
  /\ UNCHANGED <<endVars, ownVars, tasks, alloc, monitor, attach, binding, accepted,
                 releaseConfirmed, closed, settled>>

\* Seeded fault: an answer that comes after the stop is only noted.
AllocateReturnsUnnoticed(ok) ==
  /\ "allocate" \in tasks
  /\ ok => remote = "held"
  /\ binding' = (binding \/ ok)
  /\ tasks' = tasks \ {"allocate"}
  /\ alloc' = IF alloc # "calling" THEN alloc ELSE IF ok THEN "returned" ELSE "failed"
  /\ Settles(tasks')
  /\ UNCHANGED <<releaseAttempted, stopped, cleanup, ownVars, monitor, attach, remote, accepted,
                 releaseConfirmed, closed>>

\* The raw allocate call settles; its observer captures the binding, and
\* gives the allocation up if the session has been stopped meanwhile.
AllocateReturns(ok) ==
  LET late == ok /\ stopped /\ Releases(TRUE, cleanup = "running")
  IN  /\ "allocate" \in tasks
      /\ ok => remote = "held"
      /\ binding' = (binding \/ ok)
      /\ releaseAttempted' = (releaseAttempted \/ late)
      /\ tasks' = (tasks \ {"allocate"}) \cup (IF late THEN {"release"} ELSE {})
      /\ alloc' = IF alloc # "calling" THEN alloc ELSE IF ok THEN "returned" ELSE "failed"
      /\ Settles(tasks')
      /\ UNCHANGED <<stopped, cleanup, ownVars, monitor, attach, remote, accepted,
                     releaseConfirmed, closed>>

\* #perform gives the call up on its own timeout; the raw call goes on.
AllocateTimesOut ==
  /\ Active /\ alloc = "calling"
  /\ alloc' = "done" /\ Stop(tasks)
  /\ UNCHANGED <<monitor, attach, remote, binding, accepted, releaseConfirmed, closed, settled>>

\* #applyView: the allocation waits, is ready, is gone, or is refused.
ApplyView(view) ==
  LET attaches == view = "ready" /\ attach = "none"
  IN  IF view \in {"pending", "ready"} /\ ~stopped
      THEN /\ monitor' = "timer"
           /\ attach' = IF attaches THEN "connecting" ELSE attach
           /\ tasks' = tasks \cup (IF attaches THEN {"connect"} ELSE {})
           /\ UNCHANGED <<endVars, ownVars>>
      ELSE monitor' = "idle" /\ UNCHANGED attach /\ StopOnce(tasks)

Views == {"pending", "ready", "gone", "invalid"}

AllocateApplies ==
  /\ alloc \in {"returned", "failed"}
  /\ alloc' = "done"
  /\ \E view \in Views : (alloc = "failed" => view = "invalid") /\ ApplyView(view)
  /\ UNCHANGED <<remote, binding, accepted, releaseConfirmed, closed, settled>>

---------------------------------------------------------------------------
(* Observation and renewal                                                 *)

MonitorFires ==
  /\ Active /\ monitor = "timer"
  /\ monitor' = "calling" /\ tasks' = tasks \cup {"monitor"}
  /\ UNCHANGED <<endVars, ownVars, alloc, attach, remote, binding, accepted,
                 releaseConfirmed, closed, settled>>

MonitorReturns(ok) ==
  /\ "monitor" \in tasks
  /\ tasks' = tasks \ {"monitor"}
  /\ monitor' = IF monitor # "calling" THEN monitor ELSE IF ok THEN "returned" ELSE "failed"
  /\ Settles(tasks')
  /\ UNCHANGED <<endVars, ownVars, alloc, attach, remote, binding, accepted,
                 releaseConfirmed, closed>>

MonitorTimesOut ==
  /\ Active /\ monitor = "calling"
  /\ monitor' = "idle" /\ Stop(tasks)
  /\ UNCHANGED <<alloc, attach, remote, binding, accepted, releaseConfirmed, closed, settled>>

MonitorApplies ==
  /\ monitor \in {"returned", "failed"}
  /\ \E view \in Views :
       /\ monitor = "failed" => view = "invalid"
       /\ attach # "none" => view # "pending"   \* a ready endpoint must stay
       /\ ApplyView(view)
  /\ UNCHANGED <<alloc, remote, binding, accepted, releaseConfirmed, closed, settled>>

---------------------------------------------------------------------------
(* Attachment                                                              *)

\* Seeded fault: the connection is adopted although the session has stopped.
ConnectReturnsAdopts(ok) ==
  /\ "connect" \in tasks
  /\ tasks' = tasks \ {"connect"}
  /\ transport' = IF ok THEN "open" ELSE transport
  /\ attach' = IF ok THEN "connected" ELSE "failed"
  /\ Settles(tasks')
  /\ UNCHANGED <<endVars, grant, channel, alloc, monitor, remote, binding, accepted,
                 releaseConfirmed, closed>>

\* The connection settles; a stopped session closes what it brings.
ConnectReturns(ok) ==
  /\ "connect" \in tasks
  /\ tasks' = tasks \ {"connect"}
  /\ transport' = IF ~ok THEN transport ELSE IF stopped THEN "closed" ELSE "open"
  /\ attach' = IF ok THEN "connected" ELSE "failed"
  /\ Settles(tasks')
  /\ UNCHANGED <<endVars, grant, channel, alloc, monitor, remote, binding, accepted,
                 releaseConfirmed, closed>>

\* createOperations and the channel.  The factory may throw, and it may
\* stop the session itself, in which case #stop has not seen its grant.
Grants(outcome) ==
  /\ attach \in {"connected", "failed"}
  /\ \/ /\ ~stopped /\ attach = "connected" /\ outcome = "granted"
        /\ attach' = "opening" /\ grant' = "open" /\ channel' = "open"
        /\ tasks' = tasks \cup {"channel"}
        /\ UNCHANGED <<endVars, transport>>
     \/ /\ ~stopped /\ attach = "connected" /\ outcome = "stops"
        /\ attach' = "done"
        /\ stopped' = TRUE /\ cleanup' = "running" /\ releaseAttempted' = binding
        /\ transport' = Closes(transport) /\ grant' = "closed" /\ UNCHANGED channel
        /\ tasks' = tasks \cup (IF binding THEN {"release"} ELSE {})
     \/ /\ stopped \/ attach = "failed" \/ outcome = "throws"
        /\ attach' = "done" /\ StopOnce(tasks)
  /\ UNCHANGED <<alloc, monitor, remote, binding, accepted, releaseConfirmed, closed, settled>>

\* The channel is ready and observeAttachment has been told, or it failed.
ChannelReady(ok) ==
  /\ attach = "opening"
  /\ \/ ~stopped /\ ok /\ attach' = "ready" /\ UNCHANGED <<tasks, endVars, ownVars>>
     \/ (stopped \/ ~ok) /\ attach' = "done" /\ StopOnce(tasks)
  /\ UNCHANGED <<alloc, monitor, remote, binding, accepted, releaseConfirmed, closed, settled>>

\* The peer closes the channel.
ChannelCloses ==
  /\ channel = "open" /\ ~stopped
  /\ Stop(tasks)
  /\ UNCHANGED <<alloc, monitor, attach, remote, binding, accepted, releaseConfirmed, closed, settled>>

\* Seeded fault: acceptance does not wait for the channel.
AcceptEarly ==
  /\ Active /\ ~accepted
  /\ accepted' = TRUE
  /\ UNCHANGED <<endVars, ownVars, tasks, alloc, monitor, attach, remote, binding,
                 releaseConfirmed, closed, settled>>

Accept ==
  /\ Active /\ attach = "ready" /\ ~accepted
  /\ accepted' = TRUE
  /\ UNCHANGED <<endVars, ownVars, tasks, alloc, monitor, attach, remote, binding,
                 releaseConfirmed, closed, settled>>

RunOwned ==
  /\ Active /\ "owned" \notin tasks
  /\ tasks' = tasks \cup {"owned"}
  /\ UNCHANGED <<endVars, ownVars, alloc, monitor, attach, remote, binding, accepted,
                 releaseConfirmed, closed, settled>>

\* Owned work, or the handlers of a closed channel, end.
WorkEnds(t) ==
  /\ t \in tasks \cap {"owned", "channel"}
  /\ t = "channel" => channel = "closed"
  /\ tasks' = tasks \ {t}
  /\ Settles(tasks')
  /\ UNCHANGED <<endVars, ownVars, alloc, monitor, attach, remote, binding, accepted,
                 releaseConfirmed, closed>>

---------------------------------------------------------------------------
(* The end                                                                 *)

\* close(), a signal, or a timer: the hard deadline and the lease at any
\* time, preparation until acceptance, attachment until the channel is ready.
Stops(cause) ==
  /\ Active
  /\ cause = "preparation" => ~accepted
  /\ cause = "attachment" => attach \in {"connecting", "connected", "opening"}
  /\ Stop(tasks)
  /\ UNCHANGED <<alloc, monitor, attach, remote, binding, accepted, releaseConfirmed, closed, settled>>

\* external: the allocator carries out the release.
RemoteReleases ==
  /\ "release" \in tasks /\ remote = "held"
  /\ remote' = "released"
  /\ UNCHANGED <<endVars, ownVars, tasks, alloc, monitor, attach, binding, accepted,
                 releaseConfirmed, closed, settled>>

\* Seeded fault: any acknowledgement counts as the release.
ReleaseReturnsTrusting(phase) ==
  /\ "release" \in tasks
  /\ phase = "released" => remote = "released"
  /\ releaseConfirmed' = (phase # "failed")
  /\ tasks' = tasks \ {"release"}
  /\ Settles(tasks')
  /\ UNCHANGED <<endVars, ownVars, alloc, monitor, attach, remote, binding, accepted, closed>>

ReleaseReturns(phase) ==
  /\ "release" \in tasks
  /\ phase = "released" => remote = "released"
  /\ releaseConfirmed' = (phase = "released")
  /\ tasks' = tasks \ {"release"}
  /\ Settles(tasks')
  /\ UNCHANGED <<endVars, ownVars, alloc, monitor, attach, remote, binding, accepted, closed>>

CleanupTimesOut ==
  /\ cleanup = "running"
  /\ cleanup' = "timedOut"
  /\ UNCHANGED <<stopped, releaseAttempted, ownVars, tasks, alloc, monitor, attach, remote,
                 binding, accepted, releaseConfirmed, closed, settled>>

\* Seeded fault: cleanup is over as soon as it has begun.
FinishCleanupEarly ==
  /\ cleanup \in {"running", "timedOut"} /\ closed = None
  /\ cleanup' = IF cleanup = "running" THEN "over" ELSE cleanup
  /\ closed' = IF alloc = "none" THEN "not-allocated" ELSE "reaper-required"
  /\ settled' = TRUE
  /\ UNCHANGED <<stopped, releaseAttempted, ownVars, tasks, alloc, monitor, attach, remote,
                 binding, accepted, releaseConfirmed>>

\* Seeded fault: the notification waits for every task.
FinishCleanupWaits ==
  /\ cleanup \in {"running", "timedOut"} /\ closed = None /\ tasks = {}
  /\ cleanup' = IF cleanup = "running" THEN "over" ELSE cleanup
  /\ closed' = IF alloc = "none" THEN "not-allocated"
               ELSE IF releaseConfirmed THEN "released" ELSE "reaper-required"
  /\ settled' = TRUE
  /\ UNCHANGED <<stopped, releaseAttempted, ownVars, tasks, alloc, monitor, attach, remote,
                 binding, accepted, releaseConfirmed>>

\* #finishCleanup: every task has ended, or the cleanup timeout has passed.
FinishCleanup ==
  /\ \/ cleanup = "running" /\ tasks = {}
     \/ cleanup = "timedOut"
  /\ closed = None
  /\ cleanup' = IF cleanup = "running" THEN "over" ELSE cleanup
  /\ closed' = IF alloc = "none" THEN "not-allocated"
               ELSE IF releaseConfirmed THEN "released" ELSE "reaper-required"
  /\ settled' = (tasks = {})
  /\ UNCHANGED <<stopped, releaseAttempted, ownVars, tasks, alloc, monitor, attach, remote,
                 binding, accepted, releaseConfirmed>>

---------------------------------------------------------------------------
HardDeadline == Stops("hard")

Next ==
  \/ RemoteAllocates \/ RemoteReleases
  \/ AllocateTimesOut \/ AllocateApplies
  \/ MonitorFires \/ MonitorTimesOut \/ MonitorApplies
  \/ ChannelCloses \/ Accept \/ RunOwned
  \/ \E t \in {"owned", "channel"} : WorkEnds(t)
  \/ HardDeadline \/ \E cause \in {"close", "preparation", "attachment"} : Stops(cause)
  \/ CleanupTimesOut \/ FinishCleanup
  \/ \E phase \in {"released", "terminating", "failed"} : ReleaseReturns(phase)
  \/ \E outcome \in {"granted", "stops", "throws"} : Grants(outcome)
  \/ \E b \in BOOLEAN :
       Create(b) \/ AllocateReturns(b) \/ MonitorReturns(b) \/ ConnectReturns(b) \/ ChannelReady(b)

Spec == Init /\ [][Next]_vars

\* The session's own timers and reactions; no outside call has to end.
LiveSpec ==
  Spec /\ WF_vars(HardDeadline) /\ WF_vars(CleanupTimesOut) /\ WF_vars(FinishCleanup)

---------------------------------------------------------------------------
Phases == {"none", "open", "closed"}

TypeOK ==
  /\ {stopped, binding, accepted, releaseAttempted, releaseConfirmed, settled} \subseteq BOOLEAN
  /\ tasks \subseteq {"allocate", "monitor", "connect", "channel", "owned", "release"}
  /\ alloc \in {"none", "calling", "returned", "failed", "done"}
  /\ monitor \in {"idle", "timer", "calling", "returned", "failed"}
  /\ attach \in {"none", "connecting", "connected", "failed", "opening", "ready", "done"}
  /\ remote \in {"none", "held", "released"}
  /\ {grant, transport, channel} \subseteq Phases
  /\ cleanup \in {"none", "running", "timedOut", "over"}
  /\ closed \in {None, "not-allocated", "released", "reaper-required"}
  /\ accepted => attach \in {"ready", "done"}

\* What closed reports of the allocation is so, however late the raw calls
\* end: "released" only when the allocator has released it, and
\* "not-allocated" only when nothing can have been allocated.
ReleaseTruthful ==
  /\ closed = "released" => remote = "released"
  /\ closed = "not-allocated" => remote = "none" /\ "allocate" \notin tasks

\* A session that has stopped keeps nothing open: not a connection that
\* comes after the stop, not a grant whose factory stopped the session.
StoppedWithdrawn ==
  stopped => grant # "open" /\ channel # "open" /\ transport # "open"

\* An allocation that becomes known before cleanup has timed out is given
\* back, if only on the way out ("joins a late allocation identity").
KnownBindingReleased ==
  closed # None /\ binding /\ cleanup = "over" => releaseAttempted /\ "release" \notin tasks

\* settled releases the process's admission: no raw work is under way and
\* none starts after it.
SettledQuiet == settled => tasks = {} /\ stopped

\* Every session is closed, although no call to the outside need ever end.
AlwaysCloses == alloc # "none" ~> closed # None
=============================================================================
