----------------------------- MODULE RenderPool -----------------------------
(***************************************************************************)
(* The pool of render generations and the generations it owns.  The pool   *)
(* admits requests, constructs one owner per identity, and retires owners; *)
(* an owner drains its renders, stops its executor and releases its        *)
(* artifacts, and may fail and be asked again at each of the last two.     *)
(* An action is the code between two awaits.  An entry and its owner are   *)
(* named by the request that created the entry.                            *)
(***************************************************************************)
EXTENDS Naturals, FiniteSets

CONSTANTS
  Requests, Ids,
  MaxGenerations, MaxRenders, \* limits of the pool
  MaxPerGeneration,           \* limit of one owner
  MaxRetires,                 \* bound on calls of retire and on the first close
  MaxFailures,                \* bound on constructors and cleanups that fail
  None

ASSUME RenderPoolAssumption ==
  /\ None \notin Requests \cup Ids
  /\ {MaxGenerations, MaxRenders, MaxPerGeneration} \subseteq Nat \ {0}
  /\ {MaxRetires, MaxFailures} \subseteq Nat

VARIABLES
  scopes,          \* #scopes: the entry of every identity
  generationCount, requestCount, accepting,
  closing,         \* #closing of the pool, and the entries it waits for
  entry, owner, request,
  retires, failures

poolVars == <<scopes, generationCount, requestCount, accepting, closing>>
vars == <<poolVars, entry, owner, request, retires, failures>>

NoEntry == [ready |-> "none", id |-> None, retiring |-> FALSE, closing |-> "none"]
NoOwner == [phase |-> "none", accepting |-> TRUE, active |-> {},
            drained |-> FALSE, stopped |-> FALSE]
NoRequest == [at |-> "new", on |-> None, counted |-> FALSE]

Init ==
  /\ scopes = [i \in Ids |-> None] /\ generationCount = 0 /\ requestCount = 0
  /\ accepting = TRUE /\ closing = [at |-> "none", on |-> {}, failed |-> FALSE]
  /\ entry = [r \in Requests |-> NoEntry] /\ owner = [r \in Requests |-> NoOwner]
  /\ request = [r \in Requests |-> NoRequest]
  /\ retires = 0 /\ failures = 0

Alive(e) == owner[e].phase \notin {"none", "released"}
CanFail == failures < MaxFailures
Fail == failures' = failures + 1

---------------------------------------------------------------------------
(* render()                                                                *)

Done(r) == request' = [request EXCEPT ![r].at = "done", ![r].counted = FALSE]

\* Seeded fault: a request that is given up twice is uncounted twice.
FinishedAgain(rs) == requestCount - Cardinality(rs)

\* finish() of the pool's render: once per request.
Finished(rs) == requestCount - Cardinality({r \in rs : request[r].counted})

Render(r, i) ==
  /\ request[r].at = "new"
  /\ \/ /\ ~accepting \/ requestCount >= MaxRenders \/
             (scopes[i] = None /\ generationCount >= MaxGenerations)
        /\ Done(r) /\ UNCHANGED <<scopes, generationCount, requestCount, entry>>
     \/ /\ accepting /\ requestCount < MaxRenders
        /\ requestCount' = requestCount + 1
        /\ \/ /\ scopes[i] # None
              /\ request' = [request EXCEPT ![r] = [at |-> "ready", on |-> scopes[i], counted |-> TRUE]]
              /\ UNCHANGED <<scopes, generationCount, entry>>
           \/ /\ scopes[i] = None /\ generationCount < MaxGenerations
              /\ request' = [request EXCEPT ![r] = [at |-> "ready", on |-> r, counted |-> TRUE]]
              /\ entry' = [entry EXCEPT ![r] = [NoEntry EXCEPT !.ready = "pending", !.id = i]]
              /\ scopes' = [scopes EXCEPT ![i] = r]
              /\ generationCount' = generationCount + 1
  /\ UNCHANGED <<accepting, closing, owner, retires, failures>>

\* Seeded fault: no check that the identity still belongs to this entry.
RemoveAny(e) ==
  /\ scopes' = [scopes EXCEPT ![entry[e].id] = None]
  /\ generationCount' = generationCount - 1

\* #remove(entry).
Remove(e) ==
  IF scopes[entry[e].id] = e
  THEN /\ scopes' = [scopes EXCEPT ![entry[e].id] = None]
       /\ generationCount' = generationCount - 1
  ELSE UNCHANGED <<scopes, generationCount>>

\* The reaction that calls the factory, and the one that removes the entry
\* when there is no owner.
Construct(e) ==
  /\ entry[e].ready = "pending"
  /\ \/ /\ accepting /\ ~entry[e].retiring
        /\ entry' = [entry EXCEPT ![e].ready = "ready"]
        /\ owner' = [owner EXCEPT ![e].phase = "open"]
        /\ UNCHANGED <<scopes, generationCount, failures>>
     \/ /\ \/ (~accepting \/ entry[e].retiring) /\ UNCHANGED failures
           \/ accepting /\ ~entry[e].retiring /\ CanFail /\ Fail
        /\ entry' = [entry EXCEPT ![e].ready = "failed"]
        /\ Remove(e) /\ UNCHANGED owner
  /\ UNCHANGED <<requestCount, accepting, closing, request, retires>>

\* After the await of entry.ready; the owner's own admission is part of it.
\* The second case is a refusal, or the request's signal.
Enter(r) ==
  LET e == request[r].on
      admitted == /\ entry[e].ready = "ready" /\ accepting /\ ~entry[e].retiring
                  /\ owner[e].accepting
                  /\ Cardinality(owner[e].active) < MaxPerGeneration
  IN  /\ request[r].at = "ready" /\ entry[e].ready \in {"ready", "failed"}
      /\ \/ /\ admitted
            /\ owner' = [owner EXCEPT ![e].active = @ \cup {r}]
            /\ request' = [request EXCEPT ![r].at = "rendering"]
            /\ UNCHANGED requestCount
         \/ /\ requestCount' = Finished({r}) /\ Done(r) /\ UNCHANGED owner
      /\ UNCHANGED <<scopes, generationCount, accepting, closing, entry, retires, failures>>

\* The response was consumed, failed or aborted: finish() of the owner.
Complete(r) ==
  LET e == request[r].on
  IN  /\ request[r].at = "rendering"
      /\ owner' = [owner EXCEPT ![e].active = @ \ {r}]
      /\ requestCount' = Finished({r}) /\ Done(r)
      /\ UNCHANGED <<scopes, generationCount, accepting, closing, entry, retires, failures>>

---------------------------------------------------------------------------
(* retire(), close() and the owner's close()                               *)

\* #closeEntry of every entry of a set.
Closed(es) ==
  [e \in Requests |->
     IF e \in es
     THEN [entry[e] EXCEPT !.retiring = TRUE,
             !.closing = IF @ = "none" THEN "wait" ELSE @]
     ELSE entry[e]]

Retire(i) ==
  /\ retires < MaxRetires /\ retires' = retires + 1
  /\ scopes[i] # None /\ entry' = Closed({scopes[i]})
  /\ UNCHANGED <<poolVars, owner, request, failures>>

Close ==
  /\ IF accepting THEN retires < MaxRetires /\ retires' = retires + 1 ELSE UNCHANGED retires
  /\ closing.at = "none" /\ accepting' = FALSE
  /\ LET all == {scopes[i] : i \in Ids} \ {None}
     IN  /\ entry' = Closed(all)
         /\ closing' = [at |-> "wait", failed |-> FALSE, on |-> all]
  /\ UNCHANGED <<scopes, generationCount, requestCount, owner, request, failures>>

\* The promise of #closeEntry settles, as the pool's close() sees it.
Settled(e, ok) ==
  closing' = IF e \in closing.on
             THEN [closing EXCEPT !.on = @ \ {e}, !.failed = @ \/ ~ok]
             ELSE closing

\* Seeded fault: the entry is dropped before its owner is cleaned up.
StartCloseDrops(e) ==
  /\ entry[e].closing = "wait" /\ entry[e].ready \in {"ready", "failed"}
  /\ owner' = IF entry[e].ready = "ready"
              THEN [owner EXCEPT ![e].accepting = FALSE, ![e].phase = "drain"] ELSE owner
  /\ entry' = [entry EXCEPT ![e].closing = IF entry[e].ready = "ready" THEN "owner" ELSE "done"]
  /\ Remove(e) /\ Settled(e, TRUE)
  /\ UNCHANGED <<requestCount, accepting, request, retires, failures>>

StartClose(e) ==
  /\ entry[e].closing = "wait"
  /\ \/ /\ entry[e].ready = "ready" /\ owner[e].phase # "released"
        /\ owner' = [owner EXCEPT ![e].accepting = FALSE, ![e].phase = "drain"]
        /\ entry' = [entry EXCEPT ![e].closing = "owner"]
        /\ UNCHANGED <<scopes, generationCount, closing>>
     \/ /\ entry[e].ready = "failed"
        /\ Remove(e) /\ Settled(e, TRUE)
        /\ entry' = [entry EXCEPT ![e].closing = "done"] /\ UNCHANGED owner
  /\ UNCHANGED <<requestCount, accepting, request, retires, failures>>

\* Nothing is active any more, or the grace period is over.
Drain(e) ==
  /\ owner[e].phase = "drain"
  /\ owner' = [owner EXCEPT ![e].drained = TRUE,
                 ![e].phase = IF owner[e].stopped THEN "release" ELSE "stop"]
  /\ UNCHANGED <<poolVars, entry, request, retires, failures>>

\* Seeded fault: a failed cleanup stays the entry's cleanup and is never retried.
CloseFailsForGood(e) ==
  /\ CanFail /\ Fail
  /\ owner' = [owner EXCEPT ![e].phase = "failed"]
  /\ Settled(e, FALSE)
  /\ UNCHANGED <<scopes, generationCount, requestCount, accepting, entry, request, retires>>

CloseFails(e) ==
  /\ CanFail /\ Fail
  /\ entry' = [entry EXCEPT ![e].closing = "none"]
  /\ owner' = [owner EXCEPT ![e].phase = "failed"]
  /\ Settled(e, FALSE)
  /\ UNCHANGED <<scopes, generationCount, requestCount, accepting, request, retires>>

\* Seeded fault: the artifacts are next although the executor did not stop.
StopUnconfirmed(e) ==
  /\ owner[e].phase = "stop"
  /\ owner' = [owner EXCEPT ![e].phase = "release"]
  /\ UNCHANGED <<poolVars, entry, request, retires, failures>>

\* The executor has stopped; what still renders is given up.
Stop(e) ==
  /\ owner[e].phase = "stop"
  /\ \/ /\ owner' = [owner EXCEPT ![e].stopped = TRUE, ![e].active = {}, ![e].phase = "release"]
        /\ requestCount' = Finished(owner[e].active)
        /\ request' = [r \in Requests |->
             IF r \in owner[e].active THEN [request[r] EXCEPT !.counted = FALSE] ELSE request[r]]
        /\ UNCHANGED <<scopes, generationCount, accepting, closing, entry, retires, failures>>
     \/ CloseFails(e)

ReleaseArtifacts(e) ==
  /\ owner[e].phase = "release"
  /\ \/ /\ owner' = [owner EXCEPT ![e].phase = "released"]
        /\ entry' = [entry EXCEPT ![e].closing = "done"]
        /\ Remove(e) /\ Settled(e, TRUE)
        /\ UNCHANGED <<requestCount, accepting, request, retires, failures>>
     \/ CloseFails(e)

\* Seeded fault: close() does not wait for its entries.
CloseReturnsEarly ==
  /\ closing.at = "wait" /\ closing' = [closing EXCEPT !.at = "done"]
  /\ UNCHANGED <<scopes, generationCount, requestCount, accepting, entry, owner, request, retires, failures>>

\* The pool's close() has heard from every entry.
CloseReturns ==
  /\ closing.at = "wait" /\ closing.on = {}
  /\ closing' = [closing EXCEPT !.at = IF closing.failed THEN "none" ELSE "done"]
  /\ UNCHANGED <<scopes, generationCount, requestCount, accepting, entry, owner, request, retires, failures>>

---------------------------------------------------------------------------
Step(e) == Construct(e) \/ Enter(e) \/ Complete(e) \/ StartClose(e) \/ Drain(e) \/ Stop(e)
           \/ ReleaseArtifacts(e)

Next ==
  \/ \E r \in Requests : Step(r) \/ \E i \in Ids : Render(r, i)
  \/ \E i \in Ids : Retire(i)
  \/ Close \/ CloseReturns

Spec == Init /\ [][Next]_vars

\* Reactions run, stop() and releaseArtifacts() settle, and whoever closes
\* the pool calls close() again after it failed.
LiveSpec ==
  Spec /\ WF_vars(CloseReturns) /\ WF_vars(~accepting /\ Close)
  /\ \A e \in Requests : WF_vars(Construct(e)) /\ WF_vars(StartClose(e)) /\ WF_vars(Drain(e))
                         /\ WF_vars(Stop(e)) /\ WF_vars(ReleaseArtifacts(e))

---------------------------------------------------------------------------
ClosingState == [at : {"none", "wait", "done"}, on : SUBSET Requests, failed : BOOLEAN]
EntryState ==
  [ready : {"none", "pending", "ready", "failed"}, id : Ids \cup {None},
   retiring : BOOLEAN, closing : {"none", "wait", "owner", "done"}]
OwnerState ==
  [phase : {"none", "open", "drain", "stop", "release", "failed", "released"},
   accepting : BOOLEAN, active : SUBSET Requests, drained : BOOLEAN, stopped : BOOLEAN]
RequestState ==
  [at : {"new", "ready", "rendering", "done"}, on : Requests \cup {None}, counted : BOOLEAN]

TypeOK ==
  /\ scopes \in [Ids -> Requests \cup {None}]
  /\ generationCount \in 0..MaxGenerations /\ requestCount \in 0..MaxRenders
  /\ accepting \in BOOLEAN
  /\ closing \in ClosingState
  /\ entry \in [Requests -> EntryState]
  /\ owner \in [Requests -> OwnerState]
  /\ request \in [Requests -> RequestState]
  /\ retires \in 0..MaxRetires /\ failures \in 0..MaxFailures

\* "Counts constructing, running, and draining owners until cleanup succeeds":
\* an owner whose artifacts are not released is registered, so no more of
\* them live than the pool allows, however often cleanup fails or an
\* identity is admitted again.
OwnersBounded ==
  /\ \A e \in Requests : Alive(e) => scopes[entry[e].id] = e
  /\ Cardinality({e \in Requests : Alive(e)}) <= MaxGenerations

\* The counters say what they count: registered entries, and requests that
\* have not finished, each of them once.
CountsExact ==
  /\ generationCount = Cardinality({i \in Ids : scopes[i] # None})
  /\ requestCount = Cardinality({r \in Requests : request[r].counted})

\* Artifacts are released only after the executor has stopped, and nothing
\* renders on a stopped executor.
ArtifactsOutliveRenders ==
  \A e \in Requests :
    /\ owner[e].phase = "released" => owner[e].stopped
    /\ owner[e].stopped => owner[e].active = {}

\* Once close() has returned, no owner lives and none appears again.
ClosedClean == closing.at = "done" => \A e \in Requests : ~Alive(e) /\ entry[e].ready # "pending"

\* A closed pool gets rid of every owner, if it is asked again as often as
\* cleanup fails.
CloseCleans == ~accepting ~> \A e \in Requests : ~Alive(e)
=============================================================================
