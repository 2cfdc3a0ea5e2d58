---------------------------- MODULE EventWaits ----------------------------
(***************************************************************************)
(* EventWaitManager: publishing events to a run, matching them with the    *)
(* run's pending waits, enforcing deadlines, and recovering what a dead    *)
(* process left half done.  The actors are calls of publishEvent and       *)
(* background activities (drains after parking, deadline timers, sweeps,   *)
(* retry timers), each in one of several processes that share the backend. *)
(* An actor's program counter stops at every await of a backend call.      *)
(***************************************************************************)
EXTENDS EventMailbox

CONSTANTS
  Procs,       \* processes, each with one EventWaitManager
  Keepers,     \* background activities that may be under way together
  Async,       \* TRUE: a claim may age while its holder is at work
  Churn,       \* TRUE: the owner of the run may change during a delivery
  Endings,     \* how the run may end apart from its waits: "cancel", "fail"
  MaxFaults,   \* bound on rejected backend calls and failed resumes
  MaxCrashes   \* bound on process deaths

ASSUME WaitsAssumption ==
  /\ Async \in BOOLEAN /\ Churn \in BOOLEAN
  /\ MaxFaults \in Nat /\ MaxCrashes \in Nat
  /\ Keepers \cap Publishers = {}
  /\ IsFiniteSet(Procs) /\ None \notin Procs

VARIABLES
  task,     \* what every actor is doing
  alive,    \* processes that have not died
  timers,   \* committedResumeRetryTimers: process, wait and event
  heard,    \* deliveredEventReceipts: events a drain in the process of
            \* their publisher reported as delivered
  faults, retried

waitVars == <<task, alive, timers, heard, faults, retried>>
vars == <<mailVars, waitVars>>

Tasks == Publishers \cup Keepers

Labels == {"idle", "append", "reread", "drain", "recover", "inspect", "restore",
           "scan", "pass", "deliver", "patch", "resume", "retire", "cancel",
           "finalize", "discard", "rollback", "retry",
           "check", "resolve", "expired", "failRead", "failCas", "finTimed",
           "restTimed",
           "judge", "readNode", "readReceipt", "latest", "remove", "done"}

TaskState ==
  [pc   : Labels,
   home : Procs \cup {None},
   todo : SUBSET (Waits \X (Publishers \cup {None})), \* claims or waits listed
   cur  : Waits \cup {None},         \* the wait in hand
   ev   : Publishers \cup {None},    \* the event claimed for it
   goal : Waits \cup {None},         \* the wait a deadline drain is about
   pass : {"no", "recovering", "passing"}, \* its part in the drain session
   seenFailed : BOOLEAN,             \* publishEvent found the run failed
   out  : {"none", "delivered", "kept", "run-terminal", "rejected", "lost"}]

Resting == [pc |-> "idle", home |-> None, todo |-> {}, cur |-> None,
            ev |-> None, goal |-> None, pass |-> "no", seenFailed |-> FALSE,
            out |-> "none"]

TypeOK ==
  /\ MailboxTypeOK
  /\ task \in [Tasks -> TaskState]
  /\ alive \subseteq Procs
  /\ timers \subseteq Procs \X Waits \X (Publishers \cup {None})
  /\ heard \subseteq Publishers
  /\ faults \in 0..MaxFaults /\ retried \in 0..MaxRetries

Init ==
  /\ MailboxInit
  /\ task = [t \in Tasks |-> Resting]
  /\ alive = Procs
  /\ timers = {} /\ heard = {}
  /\ faults = 0 /\ retried = 0

---------------------------------------------------------------------------
(* Vocabulary                                                              *)

At(t, label) == task[t].pc = label
Cur(t) == task[t].cur
Ev(t)  == task[t].ev
Become(t, state) == task' = [task EXCEPT ![t] = state]
Goto(t, label) == Become(t, [task[t] EXCEPT !.pc = label])
Take(t, label, w, e) ==
  Become(t, [task[t] EXCEPT !.pc = label, !.cur = w, !.ev = e])

Answer(t, outcome) == [Resting EXCEPT !.pc = "done", !.out = outcome]
Ends(t, outcome) == Become(t, Answer(t, outcome))

(* The wait in hand is dealt with: the recovery or the pass of a drain     *)
(* goes on with its next, and any other activity is over.                  *)
NextWait(t) ==
  LET next(label) == [task[t] EXCEPT !.pc = label, !.cur = None, !.ev = None]
  IN  Become(t, CASE task[t].pass = "recovering" -> next("recover")
                  [] task[t].pass = "passing" -> next("pass")
                  [] task[t].pass = "no" -> Resting)

Unfaulted == UNCHANGED <<alive, timers, heard, faults, retried>>
SameStore == UNCHANGED <<rec, mailbox, claim, receipts>>
SameRun   == UNCHANGED <<status, node, got, due, onTime, order>>

SessionOpen(p) == \E t \in Tasks : task[t].home = p /\ task[t].pass # "no"
Fault == faults < MaxFaults /\ faults' = faults + 1

\* the claim of an event was made for a deadline when no event is in hand
IsTimed(t) == Ev(t) = None

(* What a node is when the claim of its wait has taken effect.             *)
CommittedStatus(w, e) ==
  IF e = None /\ NodeOf(w) \notin Delays THEN "failed" ELSE "completed"

---------------------------------------------------------------------------
(* The run around its waits: parking, announcing a parked wait, and the    *)
(* ways it ends.                                                           *)

Park(n) ==
  /\ status = "active" /\ node[n].st = "idle"
  /\ node' = [node EXCEPT ![n].st = "running"]
  /\ UNCHANGED <<status, rec, got, mailbox, order, claim, receipts, due,
                 onTime, waitVars>>

(* createEventWait, also when a resumed execution finds the record missing *)
CreateEventWait(n) ==
  LET w == <<n, node[n].inst>> IN
  /\ status = "active" /\ node[n].st = "running"
  /\ ~LiveRecord(w)
  /\ rec' = [rec EXCEPT ![w] = [NoRecord EXCEPT !.st = "pending"]]
  /\ UNCHANGED <<mailbox, claim, receipts, waitVars>> /\ SameRun

Complete ==
  /\ status = "active" /\ \A n \in Nodes : node[n].st = "completed"
  /\ StoreOver("completed")
  /\ UNCHANGED <<node, got, order, due, onTime, waitVars>>

Cancel ==
  /\ "cancel" \in Endings
  /\ status = "active"
  /\ StoreOver("cancelled")
  /\ UNCHANGED <<node, got, order, due, onTime, waitVars>>

(* A failure that is not about a wait (a step of the graph).               *)
Fail ==
  /\ "fail" \in Endings
  /\ status = "active"
  /\ status' = "failed"
  /\ UNCHANGED <<node, rec, got, mailbox, order, claim, receipts, due, onTime,
                 waitVars>>

(* retry: failed nodes start over, a wait node under a new instance.       *)
Retry ==
  /\ status = "failed" /\ retried < MaxRetries
  /\ status' = "active" /\ retried' = retried + 1
  /\ node' = [n \in Nodes |->
                IF node[n].st = "failed"
                THEN [st |-> "idle", inst |-> node[n].inst + 1] ELSE node[n]]
  /\ UNCHANGED <<rec, got, mailbox, order, claim, receipts, due, onTime, task,
                 alive, timers, heard, faults>>

---------------------------------------------------------------------------
(* publishEvent                                                            *)

Publish(e, p) ==
  /\ At(e, "idle") /\ p \in alive
  /\ IF status \in Over
     THEN Ends(e, "run-terminal") /\ UNCHANGED onTime
     ELSE /\ Become(e, [Resting EXCEPT !.pc = "append", !.home = p,
                                       !.seenFailed = (status = "failed")])
          /\ onTime' = IF due THEN onTime ELSE onTime \cup {e}
  /\ SameStore /\ Unfaulted
  /\ UNCHANGED <<status, node, got, due, order>>

AppendRunEvent(e) ==
  /\ At(e, "append")
  /\ \/ Append1(e) /\ Goto(e, IF task[e].seenFailed THEN "reread" ELSE "drain")
     \/ /\ Len(mailbox) + Cardinality(Claims) >= Capacity
        /\ Ends(e, "rejected") /\ SameStore /\ UNCHANGED order
  /\ UNCHANGED <<status, node, got, due, onTime>> /\ Unfaulted

(* classifyFailedRunAppend                                                 *)
Reread(e) ==
  /\ At(e, "reread")
  /\ \/ status = "failed" /\ Ends(e, "kept")
     \/ status \in Over /\ Goto(e, "remove")
     \/ status = "active" /\ Goto(e, "drain")
  /\ SameStore /\ SameRun /\ Unfaulted

(* A drain of this process reported the event as delivered.                *)
Judge(e) ==
  /\ At(e, "judge") /\ ~SessionOpen(task[e].home)
  /\ IF e \in heard THEN Ends(e, "delivered") ELSE Take(e, "readNode", claim[e], e)
  /\ SameStore /\ SameRun /\ Unfaulted

\* Seeded fault: a claim counts as a delivery.
ReadNodeHasty(e) ==
  /\ At(e, "readNode")
  /\ IF Cur(e) # None THEN Ends(e, "delivered") ELSE Goto(e, "readReceipt")
  /\ SameStore /\ SameRun /\ Unfaulted

(* hasCommittedEventDelivery: the claim was read, now its node ...         *)
ReadNode(e) ==
  /\ At(e, "readNode")
  /\ IF Cur(e) # None /\ node[NodeOf(Cur(e))].st = "completed"
     THEN Ends(e, "delivered") ELSE Goto(e, "readReceipt")
  /\ SameStore /\ SameRun /\ Unfaulted

(* ... and the receipt.                                                    *)
ReadReceipt(e) ==
  /\ At(e, "readReceipt")
  /\ IF e \in receipts THEN Ends(e, "delivered") ELSE Goto(e, "latest")
  /\ SameStore /\ SameRun /\ Unfaulted

Latest(e) ==
  /\ At(e, "latest")
  /\ IF status \in Over THEN Goto(e, "remove") ELSE Ends(e, "kept")
  /\ SameStore /\ SameRun /\ Unfaulted

RemoveRunEvent(e) ==
  /\ At(e, "remove")
  /\ mailbox' = Without(e)
  /\ Ends(e, "run-terminal")
  /\ UNCHANGED <<rec, claim, receipts>> /\ SameRun /\ Unfaulted

---------------------------------------------------------------------------
(* Background activities                                                   *)

Rouse(k, p, state) ==
  /\ At(k, "idle") /\ p \in alive
  /\ Become(k, [state EXCEPT !.home = p])
  /\ SameStore /\ SameRun

(* A drain after a batch of waits was parked, of a sweep or of a retry.    *)
StartDrain(k, p) ==
  /\ \E w \in Waits : rec[w].st = "pending" \/ rec[w].age \in {"due", "lapsed"}
  /\ Rouse(k, p, [Resting EXCEPT !.pc = "drain"]) /\ Unfaulted

(* expire, from a deadline timer or a sweep: shouldDeferEventExpiry first  *)
(* drains the mailbox once more; a delay has no event to wait for.         *)
StartExpiry(k, p, w) ==
  /\ due /\ NodeOf(w) \in Timed /\ rec[w].st = "pending"
  /\ Rouse(k, p, IF NodeOf(w) \in Delays
                 THEN [Resting EXCEPT !.pc = "resolve", !.cur = w]
                 ELSE [Resting EXCEPT !.pc = "drain", !.goal = w])
  /\ Unfaulted

(* sweepPendingWait of a run that is over: cleanUpTerminalWait             *)
CleanUp(w) ==
  /\ status \in Over /\ alive # {} /\ rec[w].st = "pending"
  /\ ResolveRecord(w, "cancelled")
  /\ UNCHANGED <<mailbox, claim, receipts, waitVars>> /\ SameRun

(* The timer of scheduleCommittedResumeRetry: reconcileCommittedResume.    *)
StartRetry(k, p, w, e) ==
  /\ <<p, w, e>> \in timers
  /\ Rouse(k, p, [Resting EXCEPT !.pc = "retry", !.cur = w, !.ev = e])
  /\ timers' = timers \ {<<p, w, e>>}
  /\ UNCHANGED <<alive, heard, faults, retried>>

\* Seeded fault: the claim is finalized without a look at the node.
RetryCommittedBlind(t) ==
  /\ At(t, "retry")
  /\ Goto(t, IF IsTimed(t) THEN "finTimed" ELSE "finalize")
  /\ SameStore /\ SameRun /\ Unfaulted

(* The node must still be settled; otherwise the timer is set again, and   *)
(* after eight attempts it is not.                                         *)
RetryCommitted(t) ==
  /\ At(t, "retry")
  /\ IF node[NodeOf(Cur(t))].st = CommittedStatus(Cur(t), Ev(t))
     THEN /\ Goto(t, IF IsTimed(t) THEN "finTimed" ELSE "finalize")
          /\ UNCHANGED timers
     ELSE /\ Become(t, Resting)
          /\ \/ UNCHANGED timers
             \/ timers' = timers \cup {<<task[t].home, Cur(t), Ev(t)>>}
  /\ SameStore /\ SameRun /\ UNCHANGED <<alive, heard, faults, retried>>

---------------------------------------------------------------------------
(* drain                                                                   *)

\* Seeded faults: claims of the other kind, or all, are not looked for.
AbandonedEventsOnly(p) ==
  {x \in Waits \X Publishers :
     rec[x[1]].age \in {"due", "lapsed"} /\ claim[x[2]] = x[1]}
AbandonedNever(p) == {}

(* Whoever opens the session lists the claims that are old enough to       *)
(* recover; whoever joins it goes on to the pending waits.                 *)
Abandoned(p) ==
  {x \in Waits \X (Publishers \cup {None}) :
     /\ rec[x[1]].age \in {"due", "lapsed"}
     /\ IF x[2] = None
        THEN /\ TimedClaim(x[1])
             /\ \A t \in Tasks : task[t].home = p /\ Cur(t) = x[1] =>
                  task[t].pc \notin {"expired", "failRead", "failCas", "finTimed",
                                 "restTimed"}
        ELSE claim[x[2]] = x[1]}

OpenSession(t) ==
  /\ At(t, "drain")
  /\ Become(t, IF SessionOpen(task[t].home)
               THEN [task[t] EXCEPT !.pc = "scan", !.pass = "passing"]
               ELSE [task[t] EXCEPT !.pc = "recover", !.pass = "recovering",
                                    !.todo = Abandoned(task[t].home)])
  /\ SameStore /\ SameRun /\ Unfaulted

(* reserveAbandonedDeliveryClaim, reserveAbandonedTimedWait                *)
Recover(t) ==
  /\ At(t, "recover")
  /\ IF task[t].todo = {}
     THEN /\ Become(t, [task[t] EXCEPT !.pc = "scan", !.pass = "passing"])
          /\ UNCHANGED rec
     ELSE \E x \in task[t].todo :
       LET rest == [task[t] EXCEPT !.todo = @ \ {x}] IN
       IF Reservable(x[1], x[2])
       THEN /\ rec' = [rec EXCEPT ![x[1]].age = "reserved"]
            /\ Become(t, [rest EXCEPT !.pc = "inspect", !.cur = x[1],
                                      !.ev = x[2]])
       ELSE Become(t, rest) /\ UNCHANGED rec
  /\ UNCHANGED <<mailbox, claim, receipts>> /\ SameRun /\ Unfaulted

\* Seeded fault: recovery always gives back.
InspectRestores(t) ==
  /\ At(t, "inspect")
  /\ Goto(t, IF IsTimed(t) THEN "restTimed" ELSE "restore")
  /\ SameStore /\ SameRun /\ Unfaulted

(* recoverAbandonedDeliveryClaim, recoverAbandonedTimedWait: what the run  *)
(* says about the node decides what becomes of the claim.                  *)
Inspect(t) ==
  LET w == Cur(t)
      st == node[NodeOf(w)].st
      settled == CommittedStatus(w, Ev(t))
      label == IF status \in Over
               THEN IF IsTimed(t) THEN "finTimed"
                    ELSE IF status = "completed" /\ st = "completed"
                         THEN "finalize" ELSE "discard"
               ELSE IF ~CurrentExecution(w) \/ st = settled
                    THEN IF IsTimed(t) THEN "finTimed" ELSE "finalize"
               ELSE IF IsTimed(t) THEN "restTimed" ELSE "restore"
  IN  /\ At(t, "inspect")
      /\ Goto(t, label)
      /\ SameStore /\ SameRun /\ Unfaulted

Restore(t) ==
  /\ At(t, "restore")
  /\ RestoreDelivery(Cur(t), Ev(t))
  /\ NextWait(t) /\ SameRun /\ Unfaulted

(* getPendingEventWaits                                                    *)
Scan(t) ==
  /\ At(t, "scan")
  /\ Become(t, [task[t] EXCEPT !.pc = "pass",
                  !.todo = {<<w, None>> : w \in {v \in Waits :
                                                  rec[v].st = "pending"}}])
  /\ SameStore /\ SameRun /\ Unfaulted

(* The end of a pass: a publisher judges its own event, a deadline goes    *)
(* on to its check.                                                        *)
EndPass(t) ==
  /\ At(t, "pass") /\ task[t].todo = {}
  /\ LET out == [task[t] EXCEPT !.pass = "no", !.goal = None] IN
     Become(t, IF t \in Publishers THEN [out EXCEPT !.pc = "judge"]
               ELSE IF task[t].goal = None THEN Resting
               ELSE [out EXCEPT !.pc = "check", !.cur = task[t].goal])
  /\ SameStore /\ SameRun /\ Unfaulted

(* drainWait: claim an event for the wait; a wait without one whose        *)
(* deadline has passed is expired, unless the pass is itself part of an    *)
(* expiry.                                                                 *)
DrainWait(t) ==
  /\ At(t, "pass")
  /\ \E x \in task[t].todo :
       LET w == x[1]
           rest == [task[t] EXCEPT !.todo = @ \ {x}]
       IN \/ /\ NodeOf(w) \notin Delays /\ ClaimEvent(w)
             /\ Become(t, [rest EXCEPT !.pc = "deliver", !.cur = w,
                                       !.ev = rec'[w].ev])
          \/ /\ \/ NodeOf(w) \in Delays
                \/ rec[w].st # "pending" \/ Takeable(w) = {}
             /\ Become(t, IF NodeOf(w) \in Timed \ Delays /\ due
                             /\ task[t].goal = None
                          THEN [rest EXCEPT !.pc = "resolve", !.cur = w]
                          ELSE rest)
             /\ SameStore
  /\ SameRun /\ Unfaulted

---------------------------------------------------------------------------
(* deliver: reconcileNodeOutcome for an event, or for a delay that is due. *)

(* One attempt begins with a read of the run.  A wait whose node has       *)
(* completed, or is in a later execution, is stale.                        *)
Deliver(t) ==
  LET w == Cur(t) IN
  /\ At(t, "deliver")
  /\ Goto(t, IF status = "failed"
             THEN IF IsTimed(t) THEN "restTimed" ELSE "rollback"
             ELSE IF status \in Over
             THEN IF IsTimed(t) THEN "finTimed" ELSE "discard"
             ELSE IF node[NodeOf(w)].st = "completed" \/ ~CurrentExecution(w)
             THEN "retire" ELSE "patch")
  /\ SameStore /\ SameRun /\ Unfaulted

(* The read fails, or ownership kept changing for all attempts: nothing    *)
(* was committed and the claim is given back.                              *)
DeliverFails(t) ==
  /\ At(t, "deliver")
  /\ Goto(t, IF IsTimed(t) THEN "restTimed" ELSE "rollback")
  /\ Fault
  /\ SameStore /\ SameRun /\ UNCHANGED <<alive, timers, heard, retried>>

SettleNode(w, e) ==
  /\ node' = [node EXCEPT ![NodeOf(w)].st = "completed"]
  /\ got' = [got EXCEPT ![<<NodeOf(w), node[NodeOf(w)].inst>>] = e]

(* patchNodeOutcome: a conditional update on status and owner.             *)
Patch(t) ==
  /\ At(t, "patch")
  /\ \/ status = "active" /\ SettleNode(Cur(t), Ev(t)) /\ Goto(t, "resume")
     \/ (status # "active" \/ Churn) /\ Goto(t, "deliver")
        /\ UNCHANGED <<node, got>>
  /\ SameStore /\ Unfaulted /\ UNCHANGED <<status, due, onTime, order>>

(* The drain reports the event as delivered.                               *)
Hear(t) == IF Ev(t) \in Publishers /\ task[Ev(t)].home = task[t].home
           THEN heard \cup {Ev(t)} ELSE heard

(* handleDrainDeliveryError with an outcome that may be committed: the     *)
(* claim stays, and a timer retries the resume.                            *)
Uncertain(t) ==
  /\ timers' = timers \cup {<<task[t].home, Cur(t), Ev(t)>>}
  /\ heard' = Hear(t)
  /\ NextWait(t)

(* The update is rejected before or after it was applied.                  *)
PatchRejected(t) ==
  /\ At(t, "patch") /\ Fault
  /\ \/ status = "active" /\ SettleNode(Cur(t), Ev(t))
     \/ UNCHANGED <<node, got>>
  /\ Uncertain(t)
  /\ SameStore /\ UNCHANGED <<status, due, onTime, order, alive, retried>>

ResumeRun(t) ==
  /\ At(t, "resume")
  /\ Goto(t, IF IsTimed(t) THEN "finTimed" ELSE "finalize")
  /\ heard' = Hear(t)
  /\ SameStore /\ SameRun /\ UNCHANGED <<alive, timers, faults, retried>>

(* The resume is refused.  When the owner of the run changed meanwhile,    *)
(* the next attempt follows.                                               *)
ResumeRefused(t) ==
  /\ At(t, "resume")
  /\ \/ Fault /\ Uncertain(t)
     \/ Churn /\ status = "active" /\ Goto(t, "deliver")
        /\ UNCHANGED <<timers, heard, faults>>
  /\ SameStore /\ SameRun /\ UNCHANGED <<alive, retried>>

(* retireStaleDelivery, retireStaleTimedWait: first restore ...            *)
Retire(t) ==
  /\ At(t, "retire")
  /\ IF IsTimed(t)
     THEN /\ Goto(t, IF rec[Cur(t)].st \in {"delivered", "expired"}
                     THEN "cancel" ELSE "finTimed")
          /\ RestoreRecord(Cur(t)) /\ UNCHANGED <<mailbox, claim, receipts>>
     ELSE Goto(t, "cancel") /\ RestoreDelivery(Cur(t), Ev(t))
  /\ SameRun /\ Unfaulted

\* Seeded fault: a record state nobody knows.
CancelStaleUnknown(t) ==
  /\ At(t, "cancel")
  /\ ResolveRecord(Cur(t), "stale")
  /\ NextWait(t)
  /\ UNCHANGED <<mailbox, claim, receipts>> /\ SameRun /\ Unfaulted

(* ... then cancel the record if it is still pending.                      *)
CancelStale(t) ==
  /\ At(t, "cancel")
  /\ IF rec[Cur(t)].st = "pending"
     THEN ResolveRecord(Cur(t), "cancelled") ELSE UNCHANGED rec
  /\ NextWait(t)
  /\ UNCHANGED <<mailbox, claim, receipts>> /\ SameRun /\ Unfaulted

Finalize(t) ==
  /\ task[t].pc \in {"finalize", "discard"}
  /\ FinalizeDelivery(Ev(t), At(t, "finalize"))
  /\ NextWait(t) /\ SameRun /\ Unfaulted

RollBack(t) ==
  /\ At(t, "rollback")
  /\ RestoreDelivery(Cur(t), Ev(t))
  /\ NextWait(t) /\ SameRun /\ Unfaulted

---------------------------------------------------------------------------
(* expire                                                                  *)

(* shouldDeferEventExpiry after its drain: the wait is still pending and   *)
(* the oldest event, if any, came too late.                                *)
CheckDeadline(t) ==
  /\ At(t, "check")
  /\ IF rec[Cur(t)].st = "pending"
        /\ (mailbox = <<>> \/ Head(mailbox) \notin onTime)
     THEN Goto(t, "resolve") ELSE Become(t, Resting)
  /\ SameStore /\ SameRun /\ Unfaulted

(* resolvePendingEventWait with unlessBuffered                             *)
ExpiryClaims(w) ==
  rec[w].st = "pending" /\ (NodeOf(w) \in Delays \/ Takeable(w) = {})

ResolveDeadline(t) ==
  LET w == Cur(t) IN
  /\ At(t, "resolve")
  /\ IF ExpiryClaims(w)
     THEN IF NodeOf(w) \in Delays
          THEN ResolveRecord(w, "delivered") /\ Goto(t, "deliver")
          ELSE ResolveRecord(w, "expired") /\ Goto(t, "expired")
     ELSE NextWait(t) /\ UNCHANGED rec
  /\ UNCHANGED <<mailbox, claim, receipts>> /\ SameRun /\ Unfaulted

(* applyClaimedEventExpiry: one more look at the mailbox under the claim.  *)
LookAgain(t) ==
  /\ At(t, "expired")
  /\ Goto(t, IF mailbox # <<>> /\ Head(mailbox) \in onTime
             THEN "restTimed" ELSE "failRead")
  /\ SameStore /\ SameRun /\ Unfaulted

(* failRunForExpiredWait                                                   *)
FailRead(t) ==
  LET w == Cur(t) IN
  /\ At(t, "failRead")
  /\ Goto(t, IF status = "failed" THEN "restTimed"
             ELSE IF status \in Over \/ node[NodeOf(w)].st # "running"
                     \/ ~CurrentExecution(w)
             THEN "finTimed" ELSE "failCas")
  /\ SameStore /\ SameRun /\ Unfaulted

FailCas(t) ==
  /\ At(t, "failCas")
  /\ \/ /\ status = "active"
        /\ status' = "failed"
        /\ node' = [node EXCEPT ![NodeOf(Cur(t))].st = "failed"]
        /\ Goto(t, "finTimed")
     \/ status # "active" /\ Goto(t, "restTimed") /\ UNCHANGED <<status, node>>
  /\ SameStore /\ Unfaulted /\ UNCHANGED <<got, due, onTime, order>>

(* After a deadline claim: back to where it was taken up.                  *)
EndTimed(t) ==
  /\ \/ At(t, "finTimed") /\ FinalizeTimed(Cur(t))
     \/ At(t, "restTimed") /\ RestoreRecord(Cur(t))
  /\ NextWait(t)
  /\ UNCHANGED <<mailbox, claim, receipts>> /\ SameRun /\ Unfaulted

---------------------------------------------------------------------------
(* Time and failures                                                       *)

Deadline ==
  /\ Timed # {} /\ ~due /\ due' = TRUE
  /\ SameStore /\ UNCHANGED <<status, node, got, order, onTime, waitVars>>

(* A live actor is at work on the claim (a publisher only reads it).       *)
Held(w) ==
  \E t \in Tasks : Cur(t) = w /\ task[t].pc \notin {"readNode", "readReceipt",
                                                  "latest", "remove"}

ClaimAges(w) ==
  /\ rec[w].age \in {"new", "reserved"}
  /\ Async \/ ~Held(w)
  /\ rec' = [rec EXCEPT ![w].age = IF @ = "new" THEN "due" ELSE "lapsed"]
  /\ UNCHANGED <<mailbox, claim, receipts, waitVars>> /\ SameRun

Crash(p) ==
  /\ p \in alive /\ Cardinality(Procs \ alive) < MaxCrashes
  /\ alive' = alive \ {p}
  /\ timers' = {x \in timers : x[1] # p}
  /\ task' = [t \in Tasks |->
                IF task[t].home # p THEN task[t]
                ELSE IF t \in Publishers THEN Answer(t, "lost") ELSE Resting]
  /\ SameStore /\ SameRun /\ UNCHANGED <<heard, faults, retried>>

---------------------------------------------------------------------------
RunNext ==
  \/ \E n \in Nodes : Park(n) \/ CreateEventWait(n)
  \/ Complete \/ Cancel \/ Fail \/ Retry

PublishStep(e) ==
  \/ AppendRunEvent(e) \/ Reread(e) \/ Judge(e) \/ ReadNode(e)
  \/ ReadReceipt(e) \/ Latest(e) \/ RemoveRunEvent(e)

RouseNext ==
  \E k \in Keepers, p \in Procs :
    \/ StartDrain(k, p)
    \/ \E w \in Waits : StartExpiry(k, p, w)
    \/ \E w \in Waits, e \in Publishers \cup {None} : StartRetry(k, p, w, e)

Step(t) ==
  \/ OpenSession(t) \/ Recover(t) \/ Inspect(t) \/ Restore(t)
  \/ Scan(t) \/ EndPass(t) \/ DrainWait(t)
  \/ Deliver(t) \/ Patch(t) \/ ResumeRun(t) \/ Retire(t) \/ CancelStale(t)
  \/ Finalize(t) \/ RollBack(t) \/ RetryCommitted(t)
  \/ CheckDeadline(t) \/ ResolveDeadline(t) \/ LookAgain(t)
  \/ FailRead(t) \/ FailCas(t) \/ EndTimed(t)

Disturb(t) == DeliverFails(t) \/ PatchRejected(t) \/ ResumeRefused(t)

Time == Deadline \/ \E w \in Waits : ClaimAges(w)

Next ==
  \/ RunNext \/ RouseNext
  \/ \E e \in Publishers : PublishStep(e) \/ \E p \in Procs : Publish(e, p)
  \/ \E t \in Tasks : Step(t) \/ Disturb(t)
  \/ \E w \in Waits : CleanUp(w)
  \/ Time
  \/ \E p \in Procs : Crash(p)

Spec == Init /\ [][Next]_vars

(* What every process does without being called: parked waits get their    *)
(* record, activities and publications in a live process go on, time       *)
(* passes, and sweeps start again and again.  Their fairness is strong     *)
(* because Keepers bounds the activities under way in the model, while in  *)
(* the code no timer waits for another.                                    *)
Fairness ==
  /\ \A n \in Nodes : WF_vars(Park(n)) /\ WF_vars(CreateEventWait(n))
  /\ \A t \in Tasks : WF_vars(Step(t))
  /\ \A e \in Publishers : WF_vars(PublishStep(e))
  /\ \A w \in Waits : SF_vars(ClaimAges(w))
  /\ SF_vars(\E k \in Keepers, p \in Procs : StartDrain(k, p))
  /\ \A w \in Waits : SF_vars(\E k \in Keepers, p \in Procs : StartExpiry(k, p, w))

LiveSpec == Spec /\ Fairness

---------------------------------------------------------------------------
(* Properties                                                              *)

Accepted(e) == order[e] > 0 /\ task[e].out # "run-terminal"

(* An event that was accepted is not lost while the run can still use it:  *)
(* it is in the mailbox, claimed for a wait, or the output of a wait node, *)
(* whichever process died in between (claimRunEventForWait,                *)
(* restoreRunEventDelivery, finalizeRunEventDelivery).                     *)
MailConserved ==
  status \notin Over =>
    \A e \in Publishers : Accepted(e) =>
      Buffered(e) \/ claim[e] # None \/ \E w \in Waits : got[w] = e

(* An event is the output of at most one wait node, and once it is, it     *)
(* does not go back to the mailbox for another wait.                       *)
DeliveredOnce ==
  \A e \in Publishers :
    LET landed == {w \in Waits : got[w] = e}
    IN  Cardinality(landed) <= 1 /\ (landed # {} => ~Buffered(e))

(* Events wait in the order of their publication, also after claims were   *)
(* given back in another order (restoreRetainedRunEvent).                  *)
MailInOrder ==
  \A i, j \in DOMAIN mailbox : i < j => order[mailbox[i]] < order[mailbox[j]]

(* The outcome of an execution of a wait node is final: a late delivery or *)
(* a late deadline does not replace it.                                    *)
OutcomeStable ==
  [][/\ \A w \in Waits : got[w] # None => got'[w] = got[w]
     /\ \A n \in Nodes :
          node[n].st \in {"completed", "failed"} /\ node'[n].inst = node[n].inst
            => node'[n].st = node[n].st]_vars

(* A publisher that is told "delivered" published the output of a node.    *)
DeliveredTruthfully ==
  \A e \in Publishers : task[e].out = "delivered" => \E w \in Waits : got[w] = e

(* An accepted event reaches a wait, unless the run stops being active or  *)
(* has no event wait left to take it.                                      *)
EventLands ==
  \A e \in Publishers :
    (order[e] > 0 /\ status = "active") ~>
      \/ status # "active"
      \/ \E w \in Waits : got[w] = e
      \/ \A n \in Nodes \ Delays : node[n].st # "running"

(* A wait whose deadline has passed is settled, by the deadline or by an   *)
(* event that was on time, also when the process that parked it is dead.   *)
DeadlineApplies ==
  \A n \in Timed :
    (due /\ status = "active" /\ node[n].st = "running") ~>
      (status # "active" \/ node[n].st # "running")

===========================================================================
