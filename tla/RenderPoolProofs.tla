-------------------------- MODULE RenderPoolProofs --------------------------
(***************************************************************************)
(* What the pool of render generations promises for every number of        *)
(* requests and identities, finite or not, and every limit and bound.      *)
(***************************************************************************)
EXTENDS RenderPool, FiniteSetTheorems, TLAPS

Registered == {i \in Ids : scopes[i] # None}
Counted == {r \in Requests : request[r].counted}

\* The inductive invariant, by the part of the pool it is about.

\* A request that has not called yet owns nothing, and one that waits or
\* renders has an entry.
RequestInv ==
  \A r \in Requests :
    /\ request[r].at = "new" => entry[r].ready = "none" /\ ~request[r].counted
    /\ request[r].at \in {"ready", "rendering"} => request[r].on \in Requests

\* #scopes holds exactly the entries that are being constructed and those
\* whose owner's artifacts are not released, each under its own identity.
EntryInv ==
  /\ \A i \in Ids : scopes[i] # None => entry[scopes[i]].id = i
  /\ \A i \in Ids : scopes[i] # None => entry[scopes[i]].ready \in {"pending", "ready"}
  /\ \A e \in Requests : entry[e].ready # "none" => entry[e].id \in Ids
  /\ \A e \in Requests : entry[e].ready = "ready" <=> owner[e].phase # "none"
  /\ \A e \in Requests : entry[e].ready = "pending" \/ Alive(e) => scopes[entry[e].id] = e

\* An owner that closes admits nothing, and the artifacts come after the stop.
OwnerInv ==
  \A e \in Requests :
    /\ owner[e].phase \in {"drain", "stop", "release"} => ~owner[e].accepting
    /\ owner[e].phase \in {"release", "released"} => owner[e].stopped
    /\ owner[e].stopped => ~owner[e].accepting /\ owner[e].active = {}

CountInv ==
  /\ generationCount \in 0..MaxGenerations /\ requestCount \in 0..MaxRenders
  /\ IsFiniteSet(Registered) /\ IsFiniteSet(Counted)
  /\ generationCount = Cardinality(Registered)
  /\ requestCount = Cardinality(Counted)

\* A close() that nothing has failed for waits for every registered entry.
CloseInv ==
  /\ closing.at # "none" => ~accepting
  /\ closing.at = "wait" /\ ~closing.failed => \A i \in Registered : scopes[i] \in closing.on
  /\ closing.at = "done" => Registered = {}

PoolInv == TypeOK /\ RequestInv /\ EntryInv /\ OwnerInv /\ CountInv /\ CloseInv

---------------------------------------------------------------------------
LEMMA PoolInit == Init => PoolInv
<1> SUFFICES ASSUME Init PROVE PoolInv
  OBVIOUS
<1> USE RenderPoolAssumption DEF Init, NoEntry, NoOwner, NoRequest
<1>1. TypeOK
  BY DEF TypeOK, ClosingState, EntryState, OwnerState, RequestState
<1>2. RequestInv
  BY DEF RequestInv
<1>3. EntryInv
  BY DEF EntryInv, Alive
<1>4. OwnerInv
  BY DEF OwnerInv
<1>5. CountInv
  <2>1. Registered = {} /\ Counted = {}
    BY DEF Registered, Counted
  <2> QED
    BY <2>1, FS_EmptySet, RenderPoolAssumption DEF CountInv
<1>6. CloseInv
  BY DEF CloseInv
<1> QED
  BY <1>1, <1>2, <1>3, <1>4, <1>5, <1>6 DEF PoolInv

---------------------------------------------------------------------------
(* The kinds of step: what each branch of an action does, with #remove as  *)
(* the removal of the entry it is called for.                              *)

Forgotten(e) ==
  /\ scopes' = [i \in Ids |-> IF scopes[i] = e THEN None ELSE scopes[i]]
  /\ generationCount' = IF \E i \in Ids : scopes[i] = e THEN generationCount - 1 ELSE generationCount

LEMMA RemoveForgets ==
  ASSUME TypeOK, EntryInv, NEW e \in Requests, entry[e].ready # "none", Remove(e)
  PROVE  Forgotten(e)
<1>1. entry[e].id \in Ids
  BY DEF EntryInv
<1>2. \A i \in Ids : scopes[i] = e => i = entry[e].id
  BY RenderPoolAssumption DEF EntryInv
<1>3. scopes \in [Ids -> Requests \cup {None}]
  BY DEF TypeOK
<1> QED
  BY <1>1, <1>2, <1>3 DEF Remove, Forgotten

Built(e) ==
  /\ entry[e].ready = "pending"
  /\ entry' = [entry EXCEPT ![e].ready = "ready"]
  /\ owner' = [owner EXCEPT ![e].phase = "open"]
  /\ UNCHANGED <<poolVars, request, retires, failures>>

NotBuilt(e) ==
  /\ entry[e].ready = "pending"
  /\ entry' = [entry EXCEPT ![e].ready = "failed"]
  /\ Forgotten(e)
  /\ UNCHANGED failures \/ (CanFail /\ Fail)
  /\ UNCHANGED <<requestCount, accepting, closing, owner, request, retires>>

Admitted(r) ==
  /\ request[r].at = "ready" /\ owner[request[r].on].accepting
  /\ owner' = [owner EXCEPT ![request[r].on].active = @ \cup {r}]
  /\ request' = [request EXCEPT ![r].at = "rendering"]
  /\ UNCHANGED <<poolVars, entry, retires, failures>>

Over(r) ==
  /\ request[r].at \in {"ready", "rendering"}
  /\ owner' \in {owner, [owner EXCEPT ![request[r].on].active = @ \ {r}]}
  /\ requestCount' = Finished({r}) /\ Done(r)
  /\ UNCHANGED <<scopes, generationCount, accepting, closing, entry, retires, failures>>

OwnerCloses(e) ==
  /\ entry[e].ready = "ready" /\ owner[e].phase # "released"
  /\ owner' = [owner EXCEPT ![e].accepting = FALSE, ![e].phase = "drain"]
  /\ entry' = [entry EXCEPT ![e].closing = "owner"]
  /\ UNCHANGED <<poolVars, request, retires, failures>>

NothingToClose(e) ==
  /\ entry[e].ready = "failed"
  /\ entry' = [entry EXCEPT ![e].closing = "done"]
  /\ Forgotten(e) /\ Settled(e, TRUE)
  /\ UNCHANGED <<requestCount, accepting, owner, request, retires, failures>>

Stopped(e) ==
  /\ owner[e].phase = "stop"
  /\ owner' = [owner EXCEPT ![e].stopped = TRUE, ![e].active = {}, ![e].phase = "release"]
  /\ requestCount' = Finished(owner[e].active)
  /\ request' = [r \in Requests |->
       IF r \in owner[e].active THEN [request[r] EXCEPT !.counted = FALSE] ELSE request[r]]
  /\ UNCHANGED <<scopes, generationCount, accepting, closing, entry, retires, failures>>

Failed(e) == owner[e].phase \in {"stop", "release"} /\ CloseFails(e)

Released(e) ==
  /\ owner[e].phase = "release"
  /\ owner' = [owner EXCEPT ![e].phase = "released"]
  /\ entry' = [entry EXCEPT ![e].closing = "done"]
  /\ Forgotten(e) /\ Settled(e, TRUE)
  /\ UNCHANGED <<requestCount, accepting, request, retires, failures>>

Refused(r) ==
  /\ request[r].at = "new" /\ Done(r)
  /\ UNCHANGED <<poolVars, entry, owner, retires, failures>>

Joined(r, i) ==
  /\ request[r].at = "new" /\ scopes[i] # None /\ requestCount < MaxRenders
  /\ requestCount' = requestCount + 1
  /\ request' = [request EXCEPT ![r] = [at |-> "ready", on |-> scopes[i], counted |-> TRUE]]
  /\ UNCHANGED <<scopes, generationCount, accepting, closing, entry, owner, retires, failures>>

Created(r, i) ==
  /\ request[r].at = "new" /\ scopes[i] = None /\ accepting
  /\ requestCount < MaxRenders /\ generationCount < MaxGenerations
  /\ requestCount' = requestCount + 1 /\ generationCount' = generationCount + 1
  /\ request' = [request EXCEPT ![r] = [at |-> "ready", on |-> r, counted |-> TRUE]]
  /\ entry' = [entry EXCEPT ![r] = [ready |-> "pending", id |-> i, retiring |-> FALSE, closing |-> "none"]]
  /\ scopes' = [scopes EXCEPT ![i] = r]
  /\ UNCHANGED <<accepting, closing, owner, retires, failures>>

Kind ==
  \/ \E e \in Requests : \/ Built(e) \/ NotBuilt(e) \/ Admitted(e) \/ Over(e)
                         \/ OwnerCloses(e) \/ NothingToClose(e) \/ Drain(e)
                         \/ Stopped(e) \/ Failed(e) \/ Released(e) \/ Refused(e)
  \/ \E r \in Requests, i \in Ids : Joined(r, i) \/ Created(r, i)
  \/ \E i \in Ids : Retire(i)
  \/ Close \/ CloseReturns \/ UNCHANGED vars

LEMMA StepKinds == PoolInv /\ [Next]_vars => Kind
<1> SUFFICES ASSUME PoolInv, [Next]_vars PROVE Kind
  OBVIOUS
<1> USE DEF poolVars
<1>1. ASSUME NEW e \in Requests, Construct(e) PROVE Built(e) \/ NotBuilt(e)
  <2>1. CASE entry' = [entry EXCEPT ![e].ready = "ready"] /\ owner' = [owner EXCEPT ![e].phase = "open"]
             /\ UNCHANGED <<scopes, generationCount, failures>>
    BY <1>1, <2>1 DEF Construct, Built
  <2>2. CASE /\ UNCHANGED failures \/ (CanFail /\ Fail)
             /\ entry' = [entry EXCEPT ![e].ready = "failed"] /\ Remove(e) /\ UNCHANGED owner
    <3>1. entry[e].ready = "pending"
      BY <1>1 DEF Construct
    <3>2. Forgotten(e)
      BY <2>2, <3>1, RemoveForgets DEF PoolInv
    <3> QED
      BY <1>1, <2>2, <3>1, <3>2 DEF Construct, NotBuilt
  <2> QED
    BY <1>1, <2>1, <2>2 DEF Construct
<1>2. ASSUME NEW r \in Requests, Enter(r) PROVE Admitted(r) \/ Over(r)
  BY <1>2 DEF Enter, Admitted, Over
<1>3. ASSUME NEW r \in Requests, Complete(r) PROVE Over(r)
  BY <1>3 DEF Complete, Over
<1>4. ASSUME NEW e \in Requests, StartClose(e) PROVE OwnerCloses(e) \/ NothingToClose(e)
  <2>1. CASE entry[e].ready = "failed" /\ Remove(e)
    <3>1. Forgotten(e)
      BY <2>1, RemoveForgets DEF PoolInv
    <3> QED
      BY <1>4, <2>1, <3>1 DEF StartClose, NothingToClose
  <2>2. CASE entry[e].ready # "failed"
    BY <1>4, <2>2 DEF StartClose, OwnerCloses
  <2> QED
    BY <1>4, <2>1, <2>2 DEF StartClose
<1>5. ASSUME NEW e \in Requests, Stop(e) PROVE Stopped(e) \/ Failed(e)
  BY <1>5 DEF Stop, Stopped, Failed
<1>6. ASSUME NEW e \in Requests, ReleaseArtifacts(e) PROVE Released(e) \/ Failed(e)
  <2>1. CASE CloseFails(e)
    BY <1>6, <2>1 DEF ReleaseArtifacts, Failed
  <2>2. CASE ~CloseFails(e)
    <3>1. entry[e].ready = "ready"
      BY <1>6 DEF ReleaseArtifacts, PoolInv, EntryInv
    <3>2. Forgotten(e)
      BY <1>6, <2>2, <3>1, RemoveForgets DEF PoolInv, ReleaseArtifacts
    <3> QED
      BY <1>6, <2>2, <3>2 DEF ReleaseArtifacts, Released
  <2> QED
    BY <2>1, <2>2
<1>7. ASSUME NEW r \in Requests, NEW i \in Ids, Render(r, i)
      PROVE  Refused(r) \/ Joined(r, i) \/ Created(r, i)
  BY <1>7 DEF Render, Refused, Joined, Created, NoEntry
<1> QED
  BY <1>1, <1>2, <1>3, <1>4, <1>5, <1>6, <1>7 DEF Next, Step, Kind

---------------------------------------------------------------------------
(* Counting                                                                *)

\* finish() of a set of requests takes each of them off the count once.
LEMMA FinishedCount ==
  ASSUME CountInv, NEW rs \in SUBSET Requests, Counted' = Counted \ rs, requestCount' = Finished(rs)
  PROVE  /\ IsFiniteSet(Counted') /\ requestCount' = Cardinality(Counted')
         /\ requestCount' \in Nat /\ requestCount' <= requestCount
<1>1. IsFiniteSet(Counted) /\ requestCount = Cardinality(Counted)
  BY DEF CountInv
<1>2. {r \in rs : request[r].counted} = Counted \cap rs
  BY DEF Counted
<1>3. IsFiniteSet(Counted \ rs) /\ IsFiniteSet(Counted \cap rs)
  BY <1>1, FS_Subset
<1>4. /\ Cardinality(Counted) \in Nat /\ Cardinality(Counted \ rs) \in Nat
      /\ Cardinality(Counted \cap rs) \in Nat
  BY <1>1, <1>3, FS_CardinalityType
<1>5. Cardinality(Counted) = Cardinality(Counted \ rs) + Cardinality(Counted \cap rs)
  <2>1. (Counted \ rs) \cup (Counted \cap rs) = Counted /\ (Counted \ rs) \cap (Counted \cap rs) = {}
    OBVIOUS
  <2>2. Cardinality((Counted \ rs) \cup (Counted \cap rs)) =
          Cardinality(Counted \ rs) + Cardinality(Counted \cap rs)
            - Cardinality((Counted \ rs) \cap (Counted \cap rs))
    BY <1>3, FS_Union
  <2>3. Cardinality({}) = 0
    BY FS_EmptySet
  <2>4. Cardinality(Counted) =
          Cardinality(Counted \ rs) + Cardinality(Counted \cap rs) - Cardinality({})
    BY <2>1, <2>2, Zenon
  <2> QED
    BY <1>4, <2>3, <2>4
<1>6. requestCount' = Cardinality(Counted) - Cardinality(Counted \cap rs)
  BY <1>1, <1>2 DEF Finished
<1>7. /\ requestCount' = Cardinality(Counted \ rs)
      /\ Cardinality(Counted \ rs) <= Cardinality(Counted)
  BY <1>4, <1>5, <1>6
<1> QED
  BY <1>1, <1>3, <1>4, <1>7

LEMMA ForgottenCount ==
  ASSUME TypeOK, EntryInv, CountInv, NEW e \in Requests, Forgotten(e)
  PROVE  /\ Registered' = {i \in Registered : scopes[i] # e}
         /\ IsFiniteSet(Registered') /\ generationCount' = Cardinality(Registered')
         /\ generationCount' \in Nat /\ generationCount' <= generationCount
<1>1. Registered' = {i \in Registered : scopes[i] # e}
  BY RenderPoolAssumption DEF Registered, Forgotten
<1>2. IsFiniteSet(Registered) /\ generationCount = Cardinality(Registered) /\ generationCount \in Nat
  BY FS_CardinalityType DEF CountInv
<1>3. CASE \E i \in Ids : scopes[i] = e
  <2>1. PICK i \in Ids : scopes[i] = e
    BY <1>3
  <2>2. i \in Registered
    BY <2>1, RenderPoolAssumption DEF Registered
  <2>3. \A j \in Registered : scopes[j] = e => j = i
    BY <2>1, <2>2 DEF EntryInv, Registered
  <2>4. Registered' = Registered \ {i}
    BY <1>1, <2>1, <2>3
  <2>5. IsFiniteSet(Registered \ {i}) /\ Cardinality(Registered \ {i}) = Cardinality(Registered) - 1
    BY <1>2, <2>2, FS_RemoveElement
  <2>6. Cardinality(Registered \ {i}) \in Nat
    BY <2>5, FS_CardinalityType
  <2>7. generationCount' = generationCount - 1
    BY <1>3 DEF Forgotten
  <2>8. generationCount' = Cardinality(Registered \ {i}) /\ generationCount' <= generationCount
    BY <1>2, <2>5, <2>7
  <2> QED
    BY <1>1, <2>4, <2>5, <2>6, <2>8
<1>4. CASE ~\E i \in Ids : scopes[i] = e
  <2>1. Registered' = Registered
    BY <1>1, <1>4 DEF Registered
  <2> QED
    BY <1>1, <1>2, <1>4, <2>1 DEF Forgotten
<1> QED
  BY <1>3, <1>4

LEMMA AddedCount ==
  ASSUME CountInv, NEW r \in Requests, ~request[r].counted,
         requestCount < MaxRenders, Counted' = Counted \cup {r}, requestCount' = requestCount + 1
  PROVE  /\ IsFiniteSet(Counted') /\ requestCount' = Cardinality(Counted')
         /\ requestCount' \in 0..MaxRenders
<1>1. IsFiniteSet(Counted) /\ requestCount = Cardinality(Counted) /\ r \notin Counted
  BY DEF CountInv, Counted
<1>2. requestCount' \in 0..MaxRenders
  BY RenderPoolAssumption DEF CountInv
<1> QED
  BY <1>1, <1>2, FS_AddElement

LEMMA CountStep == PoolInv /\ Kind => CountInv'
<1> SUFFICES ASSUME PoolInv, Kind PROVE CountInv'
  OBVIOUS
<1> USE RenderPoolAssumption DEF PoolInv
<1>1. ASSUME NEW e \in Requests, Built(e) PROVE CountInv'
  <2>1. Registered' = Registered /\ Counted' = Counted
    BY <1>1 DEF Registered, Counted, TypeOK, poolVars, Built
  <2> QED
    BY <1>1, <2>1 DEF CountInv, poolVars, Built
<1>2. ASSUME NEW e \in Requests, NotBuilt(e) PROVE CountInv'
  <2>1. Counted' = Counted
    BY <1>2 DEF Counted, NotBuilt
  <2> QED
    BY <1>2, <2>1, ForgottenCount DEF CountInv, NotBuilt
<1>3. ASSUME NEW e \in Requests, Admitted(e) PROVE CountInv'
  <2>1. Registered' = Registered /\ Counted' = Counted
    BY <1>3 DEF Registered, Counted, TypeOK, poolVars, Admitted
  <2> QED
    BY <1>3, <2>1 DEF CountInv, poolVars, Admitted
<1>4. ASSUME NEW e \in Requests, Over(e) PROVE CountInv'
  <2>1. Registered' = Registered /\ Counted' = Counted \ {e}
    BY <1>4 DEF Registered, Counted, TypeOK, RequestState, OwnerState, Over, Done
  <2>2. {e} \in SUBSET Requests
    BY DEF TypeOK, OwnerState
  <2>3. requestCount' = Finished({e}) /\ generationCount' = generationCount
    BY <1>4 DEF Over
  <2> QED
    BY <2>1, <2>2, <2>3, FinishedCount DEF CountInv
<1>5. ASSUME NEW e \in Requests, OwnerCloses(e) PROVE CountInv'
  <2>1. Registered' = Registered /\ Counted' = Counted
    BY <1>5 DEF Registered, Counted, TypeOK, poolVars, OwnerCloses
  <2> QED
    BY <1>5, <2>1 DEF CountInv, poolVars, OwnerCloses
<1>6. ASSUME NEW e \in Requests, NothingToClose(e) PROVE CountInv'
  <2>1. Counted' = Counted
    BY <1>6 DEF Counted, NothingToClose
  <2> QED
    BY <1>6, <2>1, ForgottenCount DEF CountInv, NothingToClose
<1>7. ASSUME NEW e \in Requests, Drain(e) PROVE CountInv'
  <2>1. Registered' = Registered /\ Counted' = Counted
    BY <1>7 DEF Registered, Counted, TypeOK, poolVars, Drain
  <2> QED
    BY <1>7, <2>1 DEF CountInv, poolVars, Drain
<1>8. ASSUME NEW e \in Requests, Stopped(e) PROVE CountInv'
  <2>1. Registered' = Registered /\ Counted' = Counted \ owner[e].active
    BY <1>8 DEF Registered, Counted, TypeOK, RequestState, OwnerState, Stopped
  <2>2. owner[e].active \in SUBSET Requests
    BY DEF TypeOK, OwnerState
  <2> QED
    BY <1>8, <2>1, <2>2, FinishedCount DEF CountInv, Stopped
<1>9. ASSUME NEW e \in Requests, Failed(e) PROVE CountInv'
  <2>1. Registered' = Registered /\ Counted' = Counted
    BY <1>9 DEF Registered, Counted, TypeOK, poolVars, Failed, CloseFails, CanFail, Fail, Settled
  <2> QED
    BY <1>9, <2>1 DEF CountInv, poolVars, Failed, CloseFails, CanFail, Fail, Settled
<1>10. ASSUME NEW e \in Requests, Released(e) PROVE CountInv'
  <2>1. Counted' = Counted
    BY <1>10 DEF Counted, Released
  <2> QED
    BY <1>10, <2>1, ForgottenCount DEF CountInv, Released
<1>11. ASSUME NEW e \in Requests, Refused(e) PROVE CountInv'
  <2>1. Registered' = Registered /\ Counted' = Counted
    BY <1>11 DEF Registered, Counted, TypeOK, RequestState, RequestInv, Refused, Done, poolVars
  <2> QED
    BY <1>11, <2>1 DEF CountInv, Refused, poolVars
<1>12. ASSUME NEW r \in Requests, NEW i \in Ids, Joined(r, i) PROVE CountInv'
  <2>1. Registered' = Registered /\ Counted' = Counted \cup {r} /\ ~request[r].counted
    BY <1>12 DEF Registered, Counted, TypeOK, RequestState, RequestInv, Joined
  <2> QED
    BY <1>12, <2>1, AddedCount DEF CountInv, Joined
<1>13. ASSUME NEW r \in Requests, NEW i \in Ids, Created(r, i) PROVE CountInv'
  <2>1. Registered' = Registered \cup {i} /\ i \notin Registered
    BY <1>13, RenderPoolAssumption DEF Registered, TypeOK, Created
  <2>2. Counted' = Counted \cup {r} /\ ~request[r].counted
    BY <1>13 DEF Counted, TypeOK, RequestState, RequestInv, Created
  <2>3. IsFiniteSet(Registered') /\ generationCount' = Cardinality(Registered')
    BY <1>13, <2>1, FS_AddElement DEF CountInv, Created
  <2>4. /\ requestCount < MaxRenders /\ requestCount' = requestCount + 1
        /\ generationCount < MaxGenerations /\ generationCount' = generationCount + 1
    BY <1>13 DEF Created
  <2>5. generationCount' \in 0..MaxGenerations
    BY <2>4, RenderPoolAssumption DEF CountInv
  <2>6. /\ IsFiniteSet(Counted') /\ requestCount' = Cardinality(Counted')
        /\ requestCount' \in 0..MaxRenders
    BY <2>2, <2>4, AddedCount
  <2> QED
    BY <2>3, <2>5, <2>6 DEF CountInv
<1>14. ASSUME NEW i \in Ids, Retire(i) PROVE CountInv'
  <2>1. Registered' = Registered /\ Counted' = Counted
    BY <1>14 DEF Registered, Counted, TypeOK, poolVars, Retire, Closed
  <2> QED
    BY <1>14, <2>1 DEF CountInv, poolVars, Retire
<1>15. CASE Close
  <2>1. Registered' = Registered /\ Counted' = Counted
    BY <1>15 DEF Registered, Counted, TypeOK, poolVars, Close, Closed
  <2> QED
    BY <1>15, <2>1 DEF CountInv, poolVars, Close
<1>16. CASE CloseReturns
  <2>1. Registered' = Registered /\ Counted' = Counted
    BY <1>16 DEF Registered, Counted, TypeOK, poolVars, CloseReturns
  <2> QED
    BY <1>16, <2>1 DEF CountInv, poolVars, CloseReturns
<1>17. CASE UNCHANGED vars
  BY <1>17 DEF CountInv, Registered, Counted, vars, poolVars
<1> QED
  BY <1>1, <1>2, <1>3, <1>4, <1>5, <1>6, <1>7, <1>8, <1>9, <1>10, <1>11, <1>12, <1>13, <1>14, <1>15, <1>16, <1>17 DEF Kind

---------------------------------------------------------------------------
(* The other parts of the invariant                                        *)

LEMMA EntryUpdates ==
  ASSUME NEW x \in EntryState
  PROVE  /\ \A v \in {"ready", "failed"} : [x EXCEPT !.ready = v] \in EntryState
         /\ \A v \in {"none", "owner", "done"} : [x EXCEPT !.closing = v] \in EntryState
         /\ [x EXCEPT !.retiring = TRUE, !.closing = IF @ = "none" THEN "wait" ELSE @] \in EntryState
BY DEF EntryState

LEMMA OwnerUpdates ==
  ASSUME NEW x \in OwnerState, NEW rs \in SUBSET Requests
  PROVE  /\ \A v \in {"open", "failed", "released"} : [x EXCEPT !.phase = v] \in OwnerState
         /\ [x EXCEPT !.active = rs] \in OwnerState
         /\ [x EXCEPT !.accepting = FALSE, !.phase = "drain"] \in OwnerState
         /\ \A v \in {"release", "stop"} : [x EXCEPT !.drained = TRUE, !.phase = v] \in OwnerState
         /\ [x EXCEPT !.stopped = TRUE, !.active = {}, !.phase = "release"] \in OwnerState
BY DEF OwnerState

LEMMA RequestUpdates ==
  ASSUME NEW x \in RequestState
  PROVE  /\ [x EXCEPT !.at = "rendering"] \in RequestState
         /\ [x EXCEPT !.at = "done", !.counted = FALSE] \in RequestState
         /\ [x EXCEPT !.counted = FALSE] \in RequestState
BY DEF RequestState

LEMMA SettledType ==
  ASSUME TypeOK, NEW e \in Requests, NEW ok \in BOOLEAN, Settled(e, ok)
  PROVE  closing' \in ClosingState
BY DEF TypeOK, ClosingState, Settled

\* #closeEntry leaves an entry where it is and under its identity.
LEMMA ClosedEntries ==
  ASSUME TypeOK, NEW es
  PROVE  /\ Closed(es) \in [Requests -> EntryState]
         /\ \A e \in Requests : Closed(es)[e].ready = entry[e].ready /\ Closed(es)[e].id = entry[e].id
<1>1. ASSUME NEW e \in Requests
      PROVE  /\ Closed(es)[e] \in EntryState
             /\ Closed(es)[e].ready = entry[e].ready /\ Closed(es)[e].id = entry[e].id
  <2>1. entry[e] \in EntryState
    BY DEF TypeOK
  <2>2. CASE e \in es
    <3>1. Closed(es)[e] = [entry[e] EXCEPT !.retiring = TRUE,
                             !.closing = IF @ = "none" THEN "wait" ELSE @]
      BY <2>2 DEF Closed
    <3>2. Closed(es)[e] \in EntryState
      BY <2>1, <3>1, EntryUpdates
    <3>3. Closed(es)[e].ready = entry[e].ready /\ Closed(es)[e].id = entry[e].id
      BY <2>1, <3>1 DEF EntryState
    <3> QED
      BY <3>2, <3>3
  <2>3. CASE e \notin es
    BY <2>1, <2>3 DEF Closed
  <2> QED
    BY <2>2, <2>3
<1> QED
  BY <1>1 DEF Closed

LEMMA OverOwner ==
  ASSUME TypeOK, RequestInv, NEW r \in Requests, Over(r)
  PROVE  /\ owner' \in [Requests -> OwnerState]
         /\ \A e \in Requests : /\ owner'[e].phase = owner[e].phase
                                /\ owner'[e].accepting = owner[e].accepting
                                /\ owner'[e].stopped = owner[e].stopped
                                /\ owner'[e].active \subseteq owner[e].active
<1>1. request[r].on \in Requests
  BY DEF Over, RequestInv
<1>2. CASE owner' = owner
  BY <1>2 DEF TypeOK
<1>3. CASE owner' = [owner EXCEPT ![request[r].on].active = @ \ {r}]
  <2> DEFINE o == request[r].on
  <2> DEFINE left == owner[o].active \ {r}
  <2>1. owner \in [Requests -> OwnerState] /\ o \in Requests /\ owner[o] \in OwnerState
    BY <1>1 DEF TypeOK
  <2>2. left \subseteq owner[o].active /\ left \subseteq Requests
    BY <2>1 DEF OwnerState
  <2>3. /\ owner'[o] = [owner[o] EXCEPT !.active = left]
        /\ \A e \in Requests : e # o => owner'[e] = owner[e]
    BY <1>3, <2>1
  <2> HIDE DEF left
  <2>4. [owner[o] EXCEPT !.active = left] \in OwnerState
    BY <2>1, <2>2 DEF OwnerState
  <2>5. owner' \in [Requests -> OwnerState]
    BY <1>3, <2>1, <2>3, <2>4
  <2>6. /\ owner'[o].phase = owner[o].phase /\ owner'[o].accepting = owner[o].accepting
        /\ owner'[o].stopped = owner[o].stopped /\ owner'[o].active = left
    BY <2>1, <2>3 DEF OwnerState
  <2> QED
    BY <2>2, <2>3, <2>5, <2>6
<1> QED
  BY <1>2, <1>3 DEF Over

LEMMA TypeStep == PoolInv /\ Kind => TypeOK'
<1> SUFFICES ASSUME PoolInv, Kind PROVE TypeOK'
  OBVIOUS
<1> CountInv'
  BY CountStep
<1> USE RenderPoolAssumption DEF PoolInv, TypeOK, CountInv, poolVars
<1>1. ASSUME NEW e \in Requests, Built(e) PROVE TypeOK'
  <2>1. entry' \in [Requests -> EntryState]
    BY <1>1, EntryUpdates DEF Built
  <2>2. owner' \in [Requests -> OwnerState]
    BY <1>1, OwnerUpdates DEF Built
  <2> QED
    BY <1>1, <2>1, <2>2 DEF Built
<1>2. ASSUME NEW e \in Requests, NotBuilt(e) PROVE TypeOK'
  <2>1. entry' \in [Requests -> EntryState]
    BY <1>2, EntryUpdates DEF NotBuilt
  <2>2. scopes' \in [Ids -> Requests \cup {None}]
    BY <1>2 DEF NotBuilt, Forgotten
  <2>3. failures' \in 0..MaxFailures
    BY <1>2 DEF NotBuilt, CanFail, Fail
  <2> QED
    BY <1>2, <2>1, <2>2, <2>3 DEF NotBuilt
<1>3. ASSUME NEW e \in Requests, Admitted(e) PROVE TypeOK'
  <2>1. request[e].on \in Requests /\ owner[request[e].on].active \in SUBSET Requests
    BY <1>3 DEF Admitted, RequestInv, OwnerState
  <2>2. owner' \in [Requests -> OwnerState]
    BY <1>3, <2>1, OwnerUpdates DEF Admitted
  <2>3. request' \in [Requests -> RequestState]
    BY <1>3, RequestUpdates DEF Admitted
  <2> QED
    BY <1>3, <2>1, <2>2, <2>3 DEF Admitted
<1>4. ASSUME NEW e \in Requests, Over(e) PROVE TypeOK'
  <2>1. owner' \in [Requests -> OwnerState]
    BY <1>4, OverOwner
  <2>2. request' \in [Requests -> RequestState]
    BY <1>4, RequestUpdates DEF Over, Done
  <2> QED
    BY <1>4, <2>1, <2>2 DEF Over
<1>5. ASSUME NEW e \in Requests, OwnerCloses(e) PROVE TypeOK'
  <2>1. entry' \in [Requests -> EntryState]
    BY <1>5, EntryUpdates DEF OwnerCloses
  <2>2. owner' \in [Requests -> OwnerState]
    BY <1>5, OwnerUpdates DEF OwnerCloses
  <2> QED
    BY <1>5, <2>1, <2>2 DEF OwnerCloses
<1>6. ASSUME NEW e \in Requests, NothingToClose(e) PROVE TypeOK'
  <2>1. entry' \in [Requests -> EntryState]
    BY <1>6, EntryUpdates DEF NothingToClose
  <2>2. scopes' \in [Ids -> Requests \cup {None}]
    BY <1>6 DEF NothingToClose, Forgotten
  <2>3. closing' \in ClosingState
    BY <1>6, SettledType DEF NothingToClose
  <2> QED
    BY <1>6, <2>1, <2>2, <2>3 DEF NothingToClose
<1>7. ASSUME NEW e \in Requests, Drain(e) PROVE TypeOK'
  <2>1. owner' \in [Requests -> OwnerState]
    BY <1>7, OwnerUpdates DEF Drain
  <2> QED
    BY <1>7, <2>1 DEF Drain
<1>8. ASSUME NEW e \in Requests, Stopped(e) PROVE TypeOK'
  <2>1. owner' \in [Requests -> OwnerState]
    BY <1>8, OwnerUpdates DEF Stopped
  <2>2. request' \in [Requests -> RequestState]
    BY <1>8, RequestUpdates DEF Stopped
  <2> QED
    BY <1>8, <2>1, <2>2 DEF Stopped
<1>9. ASSUME NEW e \in Requests, Failed(e) PROVE TypeOK'
  <2>1. entry' \in [Requests -> EntryState]
    BY <1>9, EntryUpdates DEF Failed, CloseFails
  <2>2. failures' \in 0..MaxFailures
    BY <1>9 DEF Failed, CloseFails, CanFail, Fail
  <2>3. closing' \in ClosingState
    BY <1>9, SettledType DEF Failed, CloseFails
  <2>4. owner' \in [Requests -> OwnerState]
    BY <1>9, OwnerUpdates DEF Failed, CloseFails
  <2> QED
    BY <1>9, <2>1, <2>2, <2>3, <2>4 DEF Failed, CloseFails
<1>10. ASSUME NEW e \in Requests, Released(e) PROVE TypeOK'
  <2>1. entry' \in [Requests -> EntryState]
    BY <1>10, EntryUpdates DEF Released
  <2>2. scopes' \in [Ids -> Requests \cup {None}]
    BY <1>10 DEF Released, Forgotten
  <2>3. closing' \in ClosingState
    BY <1>10, SettledType DEF Released
  <2>4. owner' \in [Requests -> OwnerState]
    BY <1>10, OwnerUpdates DEF Released
  <2> QED
    BY <1>10, <2>1, <2>2, <2>3, <2>4 DEF Released
<1>11. ASSUME NEW e \in Requests, Refused(e) PROVE TypeOK'
  <2>1. request' \in [Requests -> RequestState]
    BY <1>11, RequestUpdates DEF Refused, Done
  <2> QED
    BY <1>11, <2>1 DEF Refused
<1>12. ASSUME NEW r \in Requests, NEW i \in Ids, Joined(r, i) PROVE TypeOK'
  <2>1. request' \in [Requests -> RequestState]
    BY <1>12 DEF Joined, RequestState
  <2> QED
    BY <1>12, <2>1 DEF Joined
<1>13. ASSUME NEW r \in Requests, NEW i \in Ids, Created(r, i) PROVE TypeOK'
  <2>1. request' \in [Requests -> RequestState] /\ entry' \in [Requests -> EntryState]
    BY <1>13 DEF Created, RequestState, EntryState
  <2> QED
    BY <1>13, <2>1 DEF Created
<1>14. ASSUME NEW i \in Ids, Retire(i) PROVE TypeOK'
  BY <1>14, ClosedEntries DEF Retire
<1>15. CASE Close
  <2>1. closing' \in ClosingState /\ accepting' \in BOOLEAN
    <3> DEFINE all == {scopes[j] : j \in Ids} \ {None}
    <3>1. all \in SUBSET Requests
      OBVIOUS
    <3>2. closing' = [at |-> "wait", failed |-> FALSE, on |-> all] /\ accepting' = FALSE
      BY <1>15 DEF Close
    <3> HIDE DEF all
    <3> QED
      BY <3>1, <3>2 DEF ClosingState
  <2>2. entry' \in [Requests -> EntryState]
    BY <1>15, ClosedEntries DEF Close
  <2>3. retires' \in 0..MaxRetires
    BY <1>15 DEF Close
  <2> QED
    BY <1>15, <2>1, <2>2, <2>3 DEF Close
<1>16. CASE CloseReturns
  BY <1>16 DEF CloseReturns, ClosingState
<1>17. CASE UNCHANGED vars
  BY <1>17 DEF vars
<1> QED
  BY <1>1, <1>2, <1>3, <1>4, <1>5, <1>6, <1>7, <1>8, <1>9, <1>10, <1>11, <1>12, <1>13, <1>14, <1>15, <1>16, <1>17 DEF Kind

LEMMA RequestStep == PoolInv /\ Kind => RequestInv'
<1> SUFFICES ASSUME PoolInv, Kind PROVE RequestInv'
  OBVIOUS
<1> USE RenderPoolAssumption DEF PoolInv, TypeOK, EntryState, OwnerState, RequestState, RequestInv,
       EntryInv, poolVars
<1>1. ASSUME NEW e \in Requests, Built(e) PROVE RequestInv'
  BY <1>1 DEF Built
<1>2. ASSUME NEW e \in Requests, NotBuilt(e) PROVE RequestInv'
  BY <1>2 DEF NotBuilt, CanFail, Fail
<1>3. ASSUME NEW e \in Requests, Admitted(e) PROVE RequestInv'
  BY <1>3 DEF Admitted
<1>4. ASSUME NEW e \in Requests, Over(e) PROVE RequestInv'
  BY <1>4 DEF Over, Done
<1>5. ASSUME NEW e \in Requests, OwnerCloses(e) PROVE RequestInv'
  BY <1>5 DEF OwnerCloses
<1>6. ASSUME NEW e \in Requests, NothingToClose(e) PROVE RequestInv'
  BY <1>6 DEF NothingToClose, Settled
<1>7. ASSUME NEW e \in Requests, Drain(e) PROVE RequestInv'
  BY <1>7 DEF Drain
<1>8. ASSUME NEW e \in Requests, Stopped(e) PROVE RequestInv'
  BY <1>8 DEF Stopped
<1>9. ASSUME NEW e \in Requests, Failed(e) PROVE RequestInv'
  BY <1>9 DEF Failed, CloseFails, CanFail, Fail, Settled
<1>10. ASSUME NEW e \in Requests, Released(e) PROVE RequestInv'
  BY <1>10 DEF Released, Settled
<1>11. ASSUME NEW e \in Requests, Refused(e) PROVE RequestInv'
  BY <1>11 DEF Refused, Done
<1>12. ASSUME NEW r \in Requests, NEW i \in Ids, Joined(r, i) PROVE RequestInv'
  BY <1>12 DEF Joined
<1>13. ASSUME NEW r \in Requests, NEW i \in Ids, Created(r, i) PROVE RequestInv'
  BY <1>13 DEF Created
<1>14. ASSUME NEW i \in Ids, Retire(i) PROVE RequestInv'
  BY <1>14, ClosedEntries DEF Retire
<1>15. CASE Close
  BY <1>15, ClosedEntries DEF Close
<1>16. CASE CloseReturns
  BY <1>16 DEF CloseReturns
<1>17. CASE UNCHANGED vars
  BY <1>17 DEF vars
<1> QED
  BY <1>1, <1>2, <1>3, <1>4, <1>5, <1>6, <1>7, <1>8, <1>9, <1>10, <1>11, <1>12, <1>13, <1>14, <1>15, <1>16, <1>17 DEF Kind

LEMMA EntryStep == PoolInv /\ Kind => EntryInv'
<1> SUFFICES ASSUME PoolInv, Kind PROVE EntryInv'
  OBVIOUS
<1> USE RenderPoolAssumption DEF PoolInv, TypeOK, EntryState, OwnerState, EntryInv, Alive,
       RequestInv, poolVars, Forgotten
<1>1. ASSUME NEW e \in Requests, Built(e) PROVE EntryInv'
  BY <1>1 DEF Built
<1>2. ASSUME NEW e \in Requests, NotBuilt(e) PROVE EntryInv'
  BY <1>2 DEF NotBuilt, CanFail, Fail
<1>3. ASSUME NEW e \in Requests, Admitted(e) PROVE EntryInv'
  BY <1>3 DEF Admitted
<1>4. ASSUME NEW e \in Requests, Over(e) PROVE EntryInv'
  <2>1. \A o \in Requests : owner'[o].phase = owner[o].phase
    BY <1>4, OverOwner
  <2>2. UNCHANGED <<scopes, entry>>
    BY <1>4 DEF Over
  <2> QED
    BY <2>1, <2>2
<1>5. ASSUME NEW e \in Requests, OwnerCloses(e) PROVE EntryInv'
  BY <1>5 DEF OwnerCloses
<1>6. ASSUME NEW e \in Requests, NothingToClose(e) PROVE EntryInv'
  BY <1>6 DEF NothingToClose, Settled
<1>7. ASSUME NEW e \in Requests, Drain(e) PROVE EntryInv'
  BY <1>7 DEF Drain
<1>8. ASSUME NEW e \in Requests, Stopped(e) PROVE EntryInv'
  BY <1>8 DEF Stopped
<1>9. ASSUME NEW e \in Requests, Failed(e) PROVE EntryInv'
  BY <1>9 DEF Failed, CloseFails, CanFail, Fail, Settled
<1>10. ASSUME NEW e \in Requests, Released(e) PROVE EntryInv'
  BY <1>10 DEF Released, Settled
<1>11. ASSUME NEW e \in Requests, Refused(e) PROVE EntryInv'
  BY <1>11 DEF Refused, Done
<1>12. ASSUME NEW r \in Requests, NEW i \in Ids, Joined(r, i) PROVE EntryInv'
  BY <1>12 DEF Joined
<1>13. ASSUME NEW r \in Requests, NEW i \in Ids, Created(r, i) PROVE EntryInv'
  BY <1>13 DEF Created
<1>14. ASSUME NEW i \in Ids, Retire(i) PROVE EntryInv'
  BY <1>14, ClosedEntries DEF Retire
<1>15. CASE Close
  BY <1>15, ClosedEntries DEF Close
<1>16. CASE CloseReturns
  BY <1>16 DEF CloseReturns
<1>17. CASE UNCHANGED vars
  BY <1>17 DEF vars
<1> QED
  BY <1>1, <1>2, <1>3, <1>4, <1>5, <1>6, <1>7, <1>8, <1>9, <1>10, <1>11, <1>12, <1>13, <1>14, <1>15, <1>16, <1>17 DEF Kind

LEMMA OwnerStep == PoolInv /\ Kind => OwnerInv'
<1> SUFFICES ASSUME PoolInv, Kind PROVE OwnerInv'
  OBVIOUS
<1> USE DEF PoolInv, TypeOK, OwnerState, OwnerInv, poolVars
<1>1. ASSUME NEW e \in Requests, Built(e) PROVE OwnerInv'
  BY <1>1 DEF Built
<1>2. ASSUME NEW e \in Requests, NotBuilt(e) PROVE OwnerInv'
  BY <1>2 DEF NotBuilt, CanFail, Fail
<1>3. ASSUME NEW e \in Requests, Admitted(e) PROVE OwnerInv'
  BY <1>3 DEF Admitted
<1>4. ASSUME NEW e \in Requests, Over(e) PROVE OwnerInv'
  BY <1>4, OverOwner
<1>5. ASSUME NEW e \in Requests, OwnerCloses(e) PROVE OwnerInv'
  BY <1>5 DEF OwnerCloses
<1>6. ASSUME NEW e \in Requests, NothingToClose(e) PROVE OwnerInv'
  BY <1>6 DEF NothingToClose, Settled
<1>7. ASSUME NEW e \in Requests, Drain(e) PROVE OwnerInv'
  BY <1>7 DEF Drain
<1>8. ASSUME NEW e \in Requests, Stopped(e) PROVE OwnerInv'
  BY <1>8 DEF Stopped
<1>9. ASSUME NEW e \in Requests, Failed(e) PROVE OwnerInv'
  BY <1>9 DEF Failed, CloseFails, CanFail, Fail, Settled
<1>10. ASSUME NEW e \in Requests, Released(e) PROVE OwnerInv'
  BY <1>10 DEF Released, Settled
<1>11. ASSUME NEW e \in Requests, Refused(e) PROVE OwnerInv'
  BY <1>11 DEF Refused, Done
<1>12. ASSUME NEW r \in Requests, NEW i \in Ids, Joined(r, i) PROVE OwnerInv'
  BY <1>12 DEF Joined
<1>13. ASSUME NEW r \in Requests, NEW i \in Ids, Created(r, i) PROVE OwnerInv'
  BY <1>13 DEF Created
<1>14. ASSUME NEW i \in Ids, Retire(i) PROVE OwnerInv'
  BY <1>14 DEF Retire, Closed
<1>15. CASE Close
  BY <1>15 DEF Close, Closed
<1>16. CASE CloseReturns
  BY <1>16 DEF CloseReturns
<1>17. CASE UNCHANGED vars
  BY <1>17 DEF vars
<1> QED
  BY <1>1, <1>2, <1>3, <1>4, <1>5, <1>6, <1>7, <1>8, <1>9, <1>10, <1>11, <1>12, <1>13, <1>14, <1>15, <1>16, <1>17 DEF Kind

LEMMA CloseStep == PoolInv /\ Kind => CloseInv'
<1> SUFFICES ASSUME PoolInv, Kind PROVE CloseInv'
  OBVIOUS
<1> USE RenderPoolAssumption DEF PoolInv, TypeOK, ClosingState, EntryInv, CloseInv, Registered, poolVars,
       Forgotten
<1>1. ASSUME NEW e \in Requests, Built(e) PROVE CloseInv'
  BY <1>1 DEF Built
<1>2. ASSUME NEW e \in Requests, NotBuilt(e) PROVE CloseInv'
  BY <1>2 DEF NotBuilt, CanFail, Fail
<1>3. ASSUME NEW e \in Requests, Admitted(e) PROVE CloseInv'
  BY <1>3 DEF Admitted
<1>4. ASSUME NEW e \in Requests, Over(e) PROVE CloseInv'
  BY <1>4 DEF Over, Done
<1>5. ASSUME NEW e \in Requests, OwnerCloses(e) PROVE CloseInv'
  BY <1>5 DEF OwnerCloses
<1>6. ASSUME NEW e \in Requests, NothingToClose(e) PROVE CloseInv'
  BY <1>6 DEF NothingToClose, Settled
<1>7. ASSUME NEW e \in Requests, Drain(e) PROVE CloseInv'
  BY <1>7 DEF Drain
<1>8. ASSUME NEW e \in Requests, Stopped(e) PROVE CloseInv'
  BY <1>8 DEF Stopped
<1>9. ASSUME NEW e \in Requests, Failed(e) PROVE CloseInv'
  BY <1>9 DEF Failed, CloseFails, CanFail, Fail, Settled
<1>10. ASSUME NEW e \in Requests, Released(e) PROVE CloseInv'
  BY <1>10 DEF Released, Settled
<1>11. ASSUME NEW e \in Requests, Refused(e) PROVE CloseInv'
  BY <1>11 DEF Refused, Done
<1>12. ASSUME NEW r \in Requests, NEW i \in Ids, Joined(r, i) PROVE CloseInv'
  BY <1>12 DEF Joined
<1>13. ASSUME NEW r \in Requests, NEW i \in Ids, Created(r, i) PROVE CloseInv'
  BY <1>13 DEF Created
<1>14. ASSUME NEW i \in Ids, Retire(i) PROVE CloseInv'
  BY <1>14 DEF Retire
<1>15. CASE Close
  BY <1>15 DEF Close
<1>16. CASE CloseReturns
  BY <1>16 DEF CloseReturns
<1>17. CASE UNCHANGED vars
  BY <1>17 DEF vars
<1> QED
  BY <1>1, <1>2, <1>3, <1>4, <1>5, <1>6, <1>7, <1>8, <1>9, <1>10, <1>11, <1>12, <1>13, <1>14, <1>15, <1>16, <1>17 DEF Kind

---------------------------------------------------------------------------
LEMMA PoolInvariant == Spec => []PoolInv
<1>1. PoolInv /\ [Next]_vars => PoolInv'
  <2> SUFFICES ASSUME PoolInv, [Next]_vars PROVE PoolInv'
    OBVIOUS
  <2>1. Kind
    BY StepKinds
  <2> QED
    BY <2>1, TypeStep, RequestStep, EntryStep, OwnerStep, CountStep, CloseStep DEF PoolInv
<1> QED
  BY PoolInit, <1>1, PTL DEF Spec

\* The pool's state is well typed, and neither counter leaves the range the
\* pool's options allow.
THEOREM PoolTypeCorrect == Spec => []TypeOK
<1>1. PoolInv => TypeOK
  BY DEF PoolInv
<1> QED
  BY PoolInvariant, <1>1, PTL

\* The two counters that admission is decided by are exact: they neither
\* leak when a request is given up twice or a constructor fails, nor drop
\* what is still there.
THEOREM ExactCounts == Spec => []CountsExact
<1>1. PoolInv => CountsExact
  BY DEF PoolInv, CountInv, CountsExact, Registered, Counted
<1> QED
  BY PoolInvariant, <1>1, PTL

\* Owners whose artifacts are not released map one to one to registered
\* identities, of which there are as many as generationCount says: so they
\* are at most MaxGenerations, however often cleanup fails.
THEOREM BoundedOwners == Spec => []OwnersBounded
<1>1. PoolInv => OwnersBounded
  <2> SUFFICES ASSUME PoolInv PROVE OwnersBounded
    OBVIOUS
  <2> DEFINE Living == {e \in Requests : Alive(e)}
             identity == [e \in Living |-> entry[e].id]
  <2>1. \A e \in Living : entry[e].id \in Ids /\ scopes[entry[e].id] = e
    BY DEF PoolInv, EntryInv, Alive
  <2>2. identity \in Injection(Living, Registered)
    <3>1. identity \in [Living -> Registered]
      BY <2>1, RenderPoolAssumption DEF Registered
    <3>2. \A d, e \in Living : identity[d] = identity[e] => d = e
      BY <2>1
    <3> QED
      BY <3>1, <3>2 DEF Injection, IsInjective
  <2>3. IsFiniteSet(Registered) /\ Cardinality(Registered) <= MaxGenerations
    BY DEF PoolInv, CountInv
  <2> HIDE DEF identity
  <2>4. IsFiniteSet(Living) /\ Cardinality(Living) <= Cardinality(Registered)
    BY <2>2, <2>3, FS_Injection
  <2>5. Cardinality(Living) \in Nat /\ Cardinality(Registered) \in Nat
    BY <2>3, <2>4, FS_CardinalityType
  <2>6. Cardinality(Living) <= MaxGenerations
    BY <2>3, <2>4, <2>5, RenderPoolAssumption
  <2> QED
    BY <2>1, <2>6 DEF OwnersBounded
<1> QED
  BY PoolInvariant, <1>1, PTL

\* No artifact is released before its executor has stopped, and nothing is
\* rendering on an executor that has.
THEOREM ArtifactsLast == Spec => []ArtifactsOutliveRenders
<1>1. PoolInv => ArtifactsOutliveRenders
  BY DEF PoolInv, OwnerInv, ArtifactsOutliveRenders
<1> QED
  BY PoolInvariant, <1>1, PTL

\* A close() that has returned leaves no owner and no owner under
\* construction, whatever raced with it.
THEOREM CloseIsFinal == Spec => []ClosedClean
<1>1. PoolInv => ClosedClean
  BY RenderPoolAssumption DEF PoolInv, CloseInv, EntryInv, ClosedClean, Registered, Alive
<1> QED
  BY PoolInvariant, <1>1, PTL
=============================================================================
