-------------------------- MODULE ApprovalsProofs --------------------------
(***************************************************************************)
(* Proofs about approvals, for any number of managers, rounds, crashes and *)
(* retries.  First KeepInv: types, and that no approval is given up        *)
(* without effect, with recovery overtaking managers at work or not.  Then *)
(* RoundInv, for a run that nobody retries and managers nobody overtakes:  *)
(* each round goes on with its own decision, and a rejection stops it.     *)
(***************************************************************************)
EXTENDS Approvals, FiniteSetTheorems, TLAPS

Final == {"completed", "cancelled"}
Taken(i) == approval[i].status # "none"

(* The wait that approval i is about is over, or the loop is past it.      *)
Past(i) == round > approval[i].inst \/ node.done

(* The wait node lags behind the loop only with an outcome, approvals are  *)
(* numbered as they come, and none is about a round that has not begun.    *)
RecordInv ==
  /\ node.inst <= round /\ (node.inst = round \/ node.done)
  /\ \E k \in 0..MaxApprovals : \A i \in Ids : Taken(i) <=> i <= k
  /\ \A i \in Ids : Taken(i) => approval[i].inst <= round

(* What a manager is about to do to an approval has a reason.              *)
Listing == {"idle", "retryList", "retryNext", "retryFinalize", "retryRun"}

ActOK(m) ==
  /\ act[m].at \notin Listing => act[m].id \in Ids /\ Taken(act[m].id)
  /\ \A i \in act[m].todo : Taken(i)
  /\ \A i \in act[m].done : Taken(i) /\ Past(i)
  /\ act[m].at \in {"resume", "resumeOnly", "executing"} => Past(act[m].id)
  /\ act[m].at = "update" /\ act[m].how = "expire" => ~act[m].approved
  /\ act[m].at = "patch" => act[m].inst \in 1..round
  /\ act[m].at = "failRun" => approval[act[m].id].status = "rejected"
  /\ act[m].at = "finalize" =>
       Past(act[m].id) \/ status \in Final \/ approval[act[m].id].status = "rejected"

ActInv == \A m \in Managers : ActOK(m)

KeepInv == TypeOK /\ RecordInv /\ ActInv /\ DecisionKept

(* Without retries, and while nobody overtakes a manager at work: there is *)
(* one approval for each round, one manager applies its decision, and the  *)
(* loop moves only on that decision.                                       *)
Holds(m) == act[m].at \notin {"idle", "update"}
Going == status \notin {"failed", "cancelled"}

HolderOK(m) ==
  /\ act[m].at \notin Listing \ {"idle"} /\ (act[m].at # "idle" => act[m].how # "retry")
  /\ Holds(m) => /\ approval[act[m].id].status \in {"approved", "rejected"}
                 /\ act[m].approved = (approval[act[m].id].status = "approved")

HolderInv ==
  /\ \A m \in Managers : HolderOK(m)
  /\ \A m, n \in Managers : m # n /\ Holds(m) /\ Holds(n) => act[m].id # act[n].id

LoopInv ==
  /\ status # "pending"
  /\ \A i \in Ids : Taken(i) => approval[i].inst = i
  /\ \A r \in 1..Rounds : decided[r] # 0 => decided[r] = r /\ Taken(r)
  /\ Going =>
       /\ node.inst = round
       /\ \A i \in 1..(round - 1) : approval[i].status = "approved"
       /\ node.done => node.by = round /\ approval[round].status = "approved"
       /\ status \in {"running", "completed"} => node.done
       /\ exec.at = "running" => status = "running"
       /\ exec.at = "parked" => ~Taken(round) /\ ~node.done

ApplyOK(m) ==
  /\ act[m].at \in {"read", "patch"} => act[m].id = round /\ ~node.done
  /\ act[m].at = "patch" => act[m].inst = round /\ act[m].owner = owner
  /\ act[m].at \in {"resume", "resumeOnly"} =>
       act[m].id = round /\ node.done /\ status = "waiting" /\ act[m].owner = owner

ApplyInv == Going => \A m \in Managers : ApplyOK(m)

RoundState == HolderInv /\ LoopInv /\ ApplyInv
RoundInv == retries = 0 => RoundState

---------------------------------------------------------------------------
(* What a step does to a manager and to the records                        *)

OthersAct(m) == \A n \in Managers : n # m => act'[n] = act[n]

Moved(m, l) ==
  /\ act'[m].at = l
  /\ act'[m].how = act[m].how /\ act'[m].id = act[m].id /\ act'[m].approved = act[m].approved
  /\ act'[m].todo = act[m].todo /\ act'[m].done = act[m].done
  /\ act' \in [Managers -> ActState] /\ OthersAct(m)

Stopped(m) == act'[m] = Idle /\ act' \in [Managers -> ActState] /\ OthersAct(m)

LEMMA Bounds ==
  /\ Rounds \in Nat /\ MaxApprovals \in Nat /\ MaxCrashes \in Nat /\ MaxRetries \in Nat
  /\ Rounds > 0 /\ MaxApprovals >= Rounds
  /\ 1..Rounds \subseteq 0..Rounds
BY ApprovalsAssumption

LEMMA IdleType == Idle \in ActState /\ NoApproval \in ApprovalState
BY Bounds DEF Idle, ActState, Labels, Ids, NoApproval, ApprovalState

LEMMA ActSet ==
  ASSUME TypeOK, NEW m \in Managers, NEW a \in ActState, act' = [act EXCEPT ![m] = a]
  PROVE  act' \in [Managers -> ActState] /\ act'[m] = a /\ OthersAct(m)
BY DEF TypeOK, OthersAct

LEMMA Moves ==
  ASSUME TypeOK, NEW m \in Managers, NEW l \in Labels
  PROVE  /\ Goto(m, l) => Moved(m, l) /\ act'[m].owner = act[m].owner /\ act'[m].inst = act[m].inst
         /\ Stop(m) => Stopped(m)
         /\ \A o \in Nat : act' = [act EXCEPT ![m].at = l, ![m].owner = o] =>
              Moved(m, l) /\ act'[m].owner = o
<1>1. act[m] \in ActState /\ act \in [Managers -> ActState]
  BY DEF TypeOK
<1>2. ASSUME Goto(m, l)
      PROVE  Moved(m, l) /\ act'[m].owner = act[m].owner /\ act'[m].inst = act[m].inst
  <2>1. [act[m] EXCEPT !.at = l] \in ActState
    BY <1>1 DEF ActState
  <2>2. act' = [act EXCEPT ![m] = [act[m] EXCEPT !.at = l]]
    BY <1>2 DEF Goto
  <2> QED
    BY <1>1, <2>1, <2>2, ActSet DEF Moved, ActState
<1>3. ASSUME Stop(m) PROVE Stopped(m)
  BY <1>3, ActSet, IdleType DEF Stop, Stopped
<1>4. ASSUME NEW o \in Nat, act' = [act EXCEPT ![m].at = l, ![m].owner = o]
      PROVE  Moved(m, l) /\ act'[m].owner = o
  <2>1. [act[m] EXCEPT !.at = l, !.owner = o] \in ActState
    BY <1>1 DEF ActState
  <2>2. act' = [act EXCEPT ![m] = [act[m] EXCEPT !.at = l, !.owner = o]]
    BY <1>1, <1>4
  <2> QED
    BY <1>1, <2>1, <2>2, ActSet DEF Moved, ActState
<1> QED
  BY <1>2, <1>3, <1>4

(* The records keep their wait and their status.                           *)
SameRecords ==
  \A i \in Ids : approval'[i].inst = approval[i].inst /\ approval'[i].status = approval[i].status

(* The set of records is typed, and a claim goes only from one whose wait  *)
(* is over.                                                                *)
RecordType ==
  /\ approval' \in [Ids -> ApprovalState]
  /\ \A i \in Ids :
       /\ approval'[i].lease # None => approval'[i].claim
       /\ approval'[i].claim => approval'[i].status \in {"approved", "rejected"}

LEMMA RecordSet ==
  ASSUME TypeOK, NEW i \in Ids, NEW c \in BOOLEAN, NEW l \in Managers \cup {None},
         c => approval[i].claim, l # None => c,
         approval' = [approval EXCEPT ![i].claim = c, ![i].lease = l]
  PROVE  RecordType /\ SameRecords /\ \A j \in Ids : j # i => approval'[j] = approval[j]
<1>1. approval[i] \in ApprovalState /\ approval \in [Ids -> ApprovalState]
  BY DEF TypeOK
<1>2. /\ approval'[i] = [approval[i] EXCEPT !.claim = c, !.lease = l]
      /\ \A j \in Ids : j # i => approval'[j] = approval[j]
  BY <1>1
<1>3. /\ [approval[i] EXCEPT !.claim = c, !.lease = l] \in ApprovalState
      /\ approval'[i].claim = c /\ approval'[i].lease = l
      /\ approval'[i].inst = approval[i].inst /\ approval'[i].status = approval[i].status
  BY <1>1, <1>2 DEF ApprovalState
<1>4. approval' \in [Ids -> ApprovalState]
  BY <1>1, <1>2, <1>3
<1> QED
  BY <1>2, <1>3, <1>4 DEF RecordType, SameRecords, TypeOK

LEMMA ReadSet ==
  ASSUME TypeOK, NEW m \in Managers, NEW o \in Nat, NEW k \in 1..Rounds,
         act' = [act EXCEPT ![m].at = "patch", ![m].owner = o, ![m].inst = k]
  PROVE  Moved(m, "patch") /\ act'[m].owner = o /\ act'[m].inst = k
<1>1. act[m] \in ActState /\ act \in [Managers -> ActState]
  BY DEF TypeOK
<1>2. [act[m] EXCEPT !.at = "patch", !.owner = o, !.inst = k] \in ActState
  <2>1. k \in 0..Rounds
    BY Bounds
  <2> QED
    BY <1>1, <2>1 DEF ActState, Labels
<1>3. act' = [act EXCEPT ![m] = [act[m] EXCEPT !.at = "patch", !.owner = o, !.inst = k]]
  BY <1>1
<1>4. /\ act' \in [Managers -> ActState] /\ OthersAct(m)
      /\ act'[m] = [act[m] EXCEPT !.at = "patch", !.owner = o, !.inst = k]
  BY <1>2, <1>3, ActSet
<1> QED
  BY <1>1, <1>4 DEF Moved, ActState
(* What nobody takes back: an approval that was made, a wait that is over, *)
(* a rejection, the end of the run.                                        *)
Stable ==
  /\ \A i \in Ids : Taken(i) =>
       /\ Taken(i)' /\ (Past(i) => Past(i)')
       /\ approval[i].status = "rejected" => approval'[i].status = "rejected"
  /\ status \in Final => status' \in Final
  /\ round' \in 1..Rounds /\ round' >= round

RestType ==
  /\ status' \in Active \cup {"completed", "failed", "cancelled"}
  /\ owner' \in Nat
  /\ decided' \in [1..Rounds -> {0} \cup Ids]
  /\ exec' \in [at : {"none", "running", "parked"}, by : Managers \cup {None}]
  /\ crashes' \in 0..MaxCrashes /\ retries' \in 0..MaxRetries

(* A claim goes only from an approval whose wait is over or whose run has  *)
(* ended, or from a rejection.                                             *)
ClaimsKept ==
  \A i \in Ids : approval[i].claim /\ ~approval'[i].claim =>
    Past(i) \/ status \in Final \/ approval[i].status = "rejected"

LEMMA ActFrame ==
  ASSUME TypeOK, NEW m \in Managers, ActOK(m), act'[m] = act[m], Stable
  PROVE  ActOK(m)'
<1>1. act[m].todo \subseteq Ids /\ act[m].done \subseteq Ids /\ act[m].inst \in 0..Rounds
  BY DEF TypeOK, ActState
<1>2. act[m].at \notin Listing => act[m].id \in Ids /\ Taken(act[m].id) /\ Taken(act[m].id)'
  BY DEF ActOK, Stable
<1>3. act[m].at = "patch" => act[m].inst \in 1..round'
  BY Bounds DEF ActOK, Stable, TypeOK
<1> QED
  BY <1>1, <1>2, <1>3 DEF ActOK, Stable, Listing

LEMMA ActStopped ==
  ASSUME NEW m \in Managers, act'[m] = Idle
  PROVE  ActOK(m)'
BY DEF Idle, ActOK, Listing

LEMMA OneActs ==
  ASSUME TypeOK, ActInv, Stable, NEW m \in Managers, OthersAct(m), ActOK(m)'
  PROVE  ActInv'
BY ActFrame DEF ActInv, OthersAct

LEMMA StableSame ==
  ASSUME TypeOK, SameRecords, UNCHANGED <<round, node>>, status \in Final => status' \in Final
  PROVE  Stable
BY DEF SameRecords, Stable, Taken, Past, TypeOK

LEMMA KeepSame ==
  ASSUME KeepInv, SameRecords, RecordType, ClaimsKept, RestType, UNCHANGED <<round, node>>,
         status \in Final => status' \in Final,
         act' \in [Managers -> ActState], ActInv'
  PROVE  KeepInv'
<1>1. TypeOK'
  BY DEF KeepInv, TypeOK, RecordType, RestType
<1>2. RecordInv'
  BY DEF KeepInv, RecordInv, SameRecords, Taken
<1>3. ASSUME NEW i \in Ids, approval'[i].status = "approved", ~approval'[i].claim,
             status' \notin {"completed", "cancelled"}
      PROVE  round' > approval'[i].inst \/ node'.done
  <2>1. approval[i].status = "approved" /\ status \notin Final
    BY <1>3 DEF SameRecords, Final
  <2>2. CASE approval[i].claim
    BY <1>3, <2>1, <2>2 DEF ClaimsKept, Past, SameRecords
  <2>3. CASE ~approval[i].claim
    BY <2>1, <2>3 DEF KeepInv, DecisionKept, SameRecords, Final
  <2> QED
    BY <2>2, <2>3
<1> QED
  BY <1>1, <1>2, <1>3 DEF KeepInv, DecisionKept

(* Steps that leave the records and the node as they are.                  *)
LEMMA SameStay ==
  ASSUME TypeOK, approval' = approval
  PROVE  SameRecords /\ RecordType /\ ClaimsKept
BY DEF TypeOK, SameRecords, RecordType, ClaimsKept

LEMMA KeepActs ==
  ASSUME KeepInv, SameRecords, RecordType, ClaimsKept, RestType, UNCHANGED <<round, node>>,
         status \in Final => status' \in Final, NEW m \in Managers,
         act' \in [Managers -> ActState], OthersAct(m), ActOK(m)'
  PROVE  KeepInv'
BY KeepSame, StableSame, OneActs DEF KeepInv

LEMMA KeepRun ==
  ASSUME KeepInv, RestType, UNCHANGED <<round, node, approval, act>>,
         status \in Final => status' \in Final
  PROVE  KeepInv'
<1>1. SameRecords /\ RecordType /\ ClaimsKept /\ Stable
  BY SameStay, StableSame DEF KeepInv
<1>2. act' \in [Managers -> ActState] /\ ActInv'
  BY <1>1, ActFrame DEF KeepInv, TypeOK, ActInv
<1> QED
  BY <1>1, <1>2, KeepSame

LEMMA KeepStopped ==
  ASSUME KeepInv, NEW m \in Managers, Stopped(m), SameRecords, RecordType, ClaimsKept, RestType,
         UNCHANGED <<round, node>>, status \in Final => status' \in Final
  PROVE  KeepInv'
BY KeepActs, ActStopped DEF Stopped

(* The manager goes on to label l.                                         *)
LEMMA KeepMoved ==
  ASSUME KeepInv, NEW m \in Managers, NEW l, Moved(m, l), SameRecords, RecordType, ClaimsKept,
         RestType, UNCHANGED <<round, node>>, status \in Final => status' \in Final,
         l \notin Listing => act[m].at \notin Listing,
         l \in {"resume", "resumeOnly", "executing"} => Past(act[m].id),
         l # "update", l = "patch" => act'[m].inst \in 1..round,
         l = "failRun" => approval[act[m].id].status = "rejected",
         l = "finalize" => \/ Past(act[m].id) \/ status \in Final
                           \/ approval[act[m].id].status = "rejected"
  PROVE  KeepInv'
<1>1. ActOK(m) /\ TypeOK /\ Stable
  BY StableSame DEF KeepInv, ActInv
<1>2. act[m].todo \subseteq Ids /\ act[m].done \subseteq Ids
  BY <1>1 DEF TypeOK, ActState
<1>3. l \notin Listing => act[m].id \in Ids /\ Taken(act[m].id)
  BY <1>1 DEF ActOK
<1>4. l \notin Listing => Taken(act[m].id)' /\ (Past(act[m].id) => Past(act[m].id)')
  BY <1>1, <1>3 DEF Stable, Moved, Taken, Past
<1>5. ActOK(m)'
  BY <1>1, <1>2, <1>3, <1>4 DEF ActOK, Moved, Stable, Listing
<1> QED
  BY <1>5, KeepActs DEF Moved

---------------------------------------------------------------------------
(* Every step keeps KeepInv                                                *)

LEMMA ExecuteKeeps == ASSUME KeepInv, Execute PROVE KeepInv'
<1>1. TypeOK /\ RecordInv /\ ActInv
  BY DEF KeepInv
<1>2. /\ round \in 1..Rounds /\ Rounds \in Nat
      /\ node \in [inst : 1..Rounds, done : BOOLEAN, by : {0} \cup Ids]
      /\ approval \in [Ids -> ApprovalState]
  BY <1>1, Bounds DEF TypeOK
<1>3. /\ round' \in 1..Rounds /\ round' >= round /\ node'.inst <= round'
      /\ node' \in [inst : 1..Rounds, done : BOOLEAN, by : {0} \cup Ids]
      /\ node'.inst = round' \/ node'.done
  <2>1. CASE UNCHANGED <<round, node>>
    BY <1>1, <1>2, <2>1 DEF RecordInv
  <2>2. CASE ~UNCHANGED <<round, node>>
    <3>1. round # Rounds /\ round' = round + 1 /\ node' = [inst |-> round + 1, done |-> FALSE, by |-> 0]
      BY <2>2 DEF Execute
    <3> QED
      BY <1>2, <3>1
  <2> QED
    BY <2>1, <2>2
<1>4. RestType
  <2>1. decided' \in [1..Rounds -> {0} \cup Ids]
    <3>1. decided \in [1..Rounds -> {0} \cup Ids] /\ node.by \in {0} \cup Ids
      BY <1>1 DEF TypeOK
    <3>2. CASE decided' = decided
      BY <3>1, <3>2
    <3>3. CASE decided' = [decided EXCEPT ![round] = node.by]
      BY <1>2, <3>1, <3>3
    <3> QED
      BY <3>2, <3>3 DEF Execute
  <2>2. exec' \in [at : {"none", "running", "parked"}, by : Managers \cup {None}]
    <3>1. exec' = NoExec \/ exec' = [exec EXCEPT !.at = "parked"]
      BY DEF Execute
    <3> QED
      BY <1>1, <3>1 DEF TypeOK, NoExec
  <2>3. status' \in {"completed", "waiting"} /\ UNCHANGED <<owner, limits>>
    BY DEF Execute
  <2> QED
    BY <1>1, <2>1, <2>2, <2>3 DEF RestType, TypeOK, Active, limits
<1>5. UNCHANGED <<approval, act>> /\ status = "running"
  BY DEF Execute
<1>6. \A i \in Ids : Taken(i) /\ Past(i) => Past(i)'
  <2>1. SUFFICES ASSUME NEW i \in Ids, Taken(i), Past(i) PROVE Past(i)'
    OBVIOUS
  <2>2. approval[i].inst \in Nat /\ approval[i].inst <= round
    BY <1>1, <1>2, <2>1 DEF RecordInv, ApprovalState
  <2>3. CASE round' = round /\ node' = node
    BY <1>5, <2>1, <2>3 DEF Past
  <2>4. CASE round' = round + 1
    BY <1>2, <1>5, <2>2, <2>4 DEF Past
  <2> QED
    BY <2>3, <2>4 DEF Execute
<1>7. Stable
  BY <1>3, <1>5, <1>6 DEF Stable, Taken, Final
<1>8. TypeOK'
  BY <1>1, <1>3, <1>4, <1>5 DEF TypeOK, RestType
<1>9. RecordInv'
  <2>1. \A i \in Ids : Taken(i) => approval[i].inst <= round'
    <3>1. \A i \in Ids : approval[i].inst \in Nat
      BY <1>2, Bounds DEF ApprovalState
    <3> QED
      BY <1>1, <1>2, <1>3, <3>1 DEF RecordInv
  <2> QED
    BY <1>1, <1>3, <1>5, <2>1 DEF RecordInv, Taken
<1>10. ActInv'
  BY <1>1, <1>5, <1>7, ActFrame DEF ActInv
<1>11. DecisionKept'
  <2>1. ASSUME NEW i \in Ids, approval'[i].status = "approved", ~approval'[i].claim
        PROVE  Past(i)'
    <3>1. Past(i) /\ Taken(i)
      BY <1>5, <2>1 DEF KeepInv, DecisionKept, Past, Taken
    <3> QED
      BY <1>6, <3>1
  <2> QED
    BY <2>1 DEF DecisionKept, Past
<1> QED
  BY <1>8, <1>9, <1>10, <1>11 DEF KeepInv

(* The new approval has an id of its own.                                  *)
LEMMA NextId ==
  ASSUME TypeOK, RecordInv, NEW S, S = {i \in Ids : approval[i].status # "none"},
         Cardinality(S) + 1 \in Ids
  PROVE  /\ ~Taken(Cardinality(S) + 1)
         /\ \A i \in Ids : Taken(i) <=> i <= Cardinality(S)
<1>1. PICK k \in 0..MaxApprovals : \A i \in Ids : Taken(i) <=> i <= k
  BY DEF RecordInv
<1>2. S = 1..k
  BY <1>1, Bounds DEF Taken, Ids
<1>3. k \in Nat /\ k + 1 # k /\ ~(k + 1 <= k)
  BY <1>1, Bounds
<1>4. Cardinality(1..k) = IF 1 > k THEN 0 ELSE k - 1 + 1
  BY <1>3, FS_Interval
<1>5. Cardinality(S) = k
  <2>1. (IF 1 > k THEN 0 ELSE k - 1 + 1) = k
    BY <1>3
  <2>2. Cardinality(1..k) = k
    BY <1>4, <2>1
  <2> QED
    BY <1>2, <2>2
<1>6. k + 1 \in Ids
  BY <1>5
<1> QED
  BY <1>1, <1>3, <1>5, <1>6

LEMMA CreateKeeps == ASSUME KeepInv, CreateApproval PROVE KeepInv'
<1>1. /\ TypeOK /\ RecordInv /\ ActInv
      /\ UNCHANGED <<status, owner, round, node, decided, act, crashes, retries>>
  BY DEF KeepInv, CreateApproval, runVars, limits
<1>2. RestType
  BY <1>1 DEF CreateApproval, RestType, TypeOK, NoExec
<1>3. CASE approval' = approval
  BY <1>1, <1>2, <1>3, KeepRun
<1>4. CASE approval' # approval
  <2> DEFINE id == Cardinality({i \in Ids : approval[i].status # "none"}) + 1
  <2> DEFINE new == [NoApproval EXCEPT !.inst = node.inst, !.status = "pending"]
  <2>1. approval' = [approval EXCEPT ![id] = new] /\ id \in Ids
    BY <1>4 DEF CreateApproval
  <2>2. ~Taken(id) /\ \A i \in Ids : Taken(i) <=> i <= id - 1
    <3> HIDE DEF new
    <3>1. Cardinality({i \in Ids : approval[i].status # "none"}) + 1 \in Ids
      BY <2>1
    <3>2. /\ ~Taken(id)
          /\ \A i \in Ids : Taken(i) <=> i <= Cardinality({j \in Ids : approval[j].status # "none"})
      BY <1>1, <3>1, NextId
    <3>3. id \in Nat /\ Cardinality({i \in Ids : approval[i].status # "none"}) = id - 1
      <4>1. IsFiniteSet(1..MaxApprovals)
        BY Bounds, FS_Interval
      <4>2. {i \in Ids : approval[i].status # "none"} \subseteq 1..MaxApprovals
        BY DEF Ids
      <4>3. Cardinality({i \in Ids : approval[i].status # "none"}) \in Nat
        BY <4>1, <4>2, FS_Subset, FS_CardinalityType
      <4> QED
        BY <4>3
    <3> QED
      BY <3>2, <3>3
  <2> HIDE DEF id
  <2>3. /\ new \in ApprovalState /\ new.inst = node.inst /\ new.status = "pending"
        /\ new.claim = FALSE /\ new.lease = None
    <3>1. node.inst \in 0..Rounds
      BY <1>1, Bounds DEF TypeOK
    <3>2. NoApproval \in ApprovalState
      BY IdleType
    <3> QED
      BY <3>1, <3>2 DEF NoApproval, ApprovalState
  <2> HIDE DEF new
  <2>4. approval'[id] = new /\ \A i \in Ids : i # id => approval'[i] = approval[i]
    BY <1>1, <2>1 DEF TypeOK
  <2>5. TypeOK'
    <3>1. RecordType
      BY <1>1, <2>1, <2>3, <2>4 DEF RecordType, TypeOK
    <3> QED
      BY <1>1, <1>2, <3>1 DEF TypeOK, RecordType, RestType
  <2>6. Stable
    BY <1>1, <2>2, <2>4 DEF Stable, Taken, Past, TypeOK
  <2>7. RecordInv'
    <3>1. id \in 0..MaxApprovals /\ \A i \in Ids : Taken(i)' <=> i <= id
      BY <2>1, <2>2, <2>3, <2>4, Bounds DEF Taken, Ids
    <3>2. \A i \in Ids : Taken(i)' => approval'[i].inst <= round
      BY <1>1, <2>2, <2>3, <2>4 DEF RecordInv, Taken
    <3> QED
      BY <1>1, <3>1, <3>2 DEF RecordInv
  <2>8. ActInv'
    BY <1>1, <2>6, ActFrame DEF ActInv
  <2>9. DecisionKept'
    BY <1>1, <2>3, <2>4 DEF KeepInv, DecisionKept
  <2> QED
    BY <2>5, <2>7, <2>8, <2>9 DEF KeepInv
<1> QED
  BY <1>3, <1>4

LEMMA RunKeeps ==
  ASSUME KeepInv, ExecutionEnds \/ WorkerClaim \/ Fails \/ Cancel
  PROVE  KeepInv'
<1>1. TypeOK
  BY DEF KeepInv
<1> USE DEF runVars, limits
<1>2. ASSUME ExecutionEnds PROVE RestType /\ UNCHANGED <<round, node, approval, act, status>>
  BY <1>1, <1>2 DEF ExecutionEnds, RestType, TypeOK, NoExec
<1>3. ASSUME WorkerClaim PROVE RestType /\ UNCHANGED <<round, node, approval, act>> /\ status \notin Final
  BY <1>1, <1>3 DEF WorkerClaim, RestType, TypeOK, Active, Final
<1>4. ASSUME Fails \/ Cancel
      PROVE  RestType /\ UNCHANGED <<round, node, approval, act>> /\ status \notin Final
  BY <1>1, <1>4 DEF Fails, Cancel, RestType, TypeOK, Active, Final
<1> QED
  BY <1>2, <1>3, <1>4, KeepRun

LEMMA LeaseSet ==
  ASSUME TypeOK, NEW i \in Ids, NEW l \in Managers \cup {None}, l # None => approval[i].claim,
         approval' = [approval EXCEPT ![i].lease = l]
  PROVE  /\ RecordType /\ SameRecords /\ ClaimsKept
         /\ \A j \in Ids : approval'[j].claim = approval[j].claim
<1>1. approval[i] \in ApprovalState /\ approval \in [Ids -> ApprovalState]
  BY DEF TypeOK
<1>2. /\ approval'[i] = [approval[i] EXCEPT !.lease = l]
      /\ \A j \in Ids : j # i => approval'[j] = approval[j]
  BY <1>1
<1>3. /\ [approval[i] EXCEPT !.lease = l] \in ApprovalState
      /\ approval'[i].claim = approval[i].claim /\ approval'[i].lease = l
      /\ approval'[i].inst = approval[i].inst /\ approval'[i].status = approval[i].status
  BY <1>1, <1>2 DEF ApprovalState
<1>4. approval' \in [Ids -> ApprovalState]
  BY <1>1, <1>2, <1>3
<1>5. \A j \in Ids : approval'[j].claim = approval[j].claim
  BY <1>2, <1>3
<1> QED
  BY <1>2, <1>3, <1>4, <1>5 DEF RecordType, SameRecords, TypeOK, ClaimsKept

LEMMA ClaimDropped ==
  ASSUME TypeOK, NEW i \in Ids, approval[i].lease = None,
         approval' = [approval EXCEPT ![i].claim = FALSE]
  PROVE  RecordType /\ SameRecords /\ \A j \in Ids : j # i => approval'[j] = approval[j]
<1>1. approval[i] \in ApprovalState /\ approval \in [Ids -> ApprovalState]
  BY DEF TypeOK
<1>2. /\ approval'[i] = [approval[i] EXCEPT !.claim = FALSE]
      /\ \A j \in Ids : j # i => approval'[j] = approval[j]
  BY <1>1
<1>3. /\ [approval[i] EXCEPT !.claim = FALSE] \in ApprovalState
      /\ approval'[i].claim = FALSE /\ approval'[i].lease = None
      /\ approval'[i].inst = approval[i].inst /\ approval'[i].status = approval[i].status
  BY <1>1, <1>2 DEF ApprovalState
<1>4. approval' \in [Ids -> ApprovalState]
  BY <1>1, <1>2, <1>3
<1> QED
  BY <1>2, <1>3, <1>4 DEF RecordType, SameRecords, TypeOK

(* A manager takes up a new task.                                          *)
LEMMA TaskKeeps ==
  ASSUME KeepInv, NEW m \in Managers, NEW a \in ActState, act' = [act EXCEPT ![m] = a],
         a.todo = {}, a.done = {}, a.at \in {"update", "check", "retryList"},
         a.at # "retryList" => a.id \in Ids /\ Taken(a.id),
         a.at = "update" /\ a.how = "expire" => ~a.approved,
         SameRecords, RecordType, ClaimsKept, RestType, UNCHANGED <<round, node>>,
         status \in Final => status' \in Final
  PROVE  KeepInv'
<1>1. act' \in [Managers -> ActState] /\ act'[m] = a /\ OthersAct(m)
  BY ActSet DEF KeepInv
<1>2. ActOK(m)'
  BY <1>1 DEF ActOK, Listing, Taken, SameRecords
<1> QED
  BY <1>1, <1>2, KeepActs

LEMMA StartKeeps ==
  ASSUME KeepInv, NEW m \in Managers,
         \/ Retry(m)
         \/ \E i \in Ids : Expire(m, i) \/ Reserve(m, i) \/ \E ok \in BOOLEAN : Decide(m, i, ok)
  PROVE  KeepInv'
<1>1. TypeOK
  BY DEF KeepInv
<1> USE DEF runVars, limits
<1>2. ASSUME NEW i \in Ids, NEW ok \in BOOLEAN, Decide(m, i, ok) PROVE KeepInv'
  <2> DEFINE a == [Idle EXCEPT !.at = "update", !.how = "decide", !.id = i, !.approved = ok]
  <2>1. a \in ActState
    BY IdleType DEF Idle, ActState, Labels
  <2>2. a.todo = {} /\ a.done = {} /\ a.at = "update" /\ a.id = i /\ a.how = "decide"
    BY DEF Idle
  <2>3. act' = [act EXCEPT ![m] = a] /\ Taken(i)
    BY <1>2 DEF Decide, Taken
  <2>4. UNCHANGED <<status, owner, round, node, decided, exec, approval, crashes, retries>>
    BY <1>2 DEF Decide
  <2>5. RestType
    BY <1>1, <2>4 DEF RestType, TypeOK
  <2> HIDE DEF a
  <2> QED
    BY <1>1, <2>1, <2>2, <2>3, <2>4, <2>5, SameStay, TaskKeeps
<1>3. ASSUME NEW i \in Ids, Expire(m, i) PROVE KeepInv'
  <2> DEFINE a == [Idle EXCEPT !.at = "update", !.how = "expire", !.id = i]
  <2>1. a \in ActState
    BY IdleType DEF Idle, ActState, Labels
  <2>2. a.todo = {} /\ a.done = {} /\ a.at = "update" /\ a.id = i /\ a.approved = FALSE
    BY DEF Idle
  <2>3. act' = [act EXCEPT ![m] = a] /\ Taken(i)
    BY <1>3 DEF Expire, Taken
  <2>4. UNCHANGED <<status, owner, round, node, decided, exec, approval, crashes, retries>>
    BY <1>3 DEF Expire
  <2>5. RestType
    BY <1>1, <2>4 DEF RestType, TypeOK
  <2> HIDE DEF a
  <2> QED
    BY <1>1, <2>1, <2>2, <2>3, <2>4, <2>5, SameStay, TaskKeeps
<1>4. ASSUME NEW i \in Ids, Reserve(m, i) PROVE KeepInv'
  <2> DEFINE ok == (approval[i].status = "approved")
  <2> DEFINE a == [Idle EXCEPT !.at = "check", !.how = "recover", !.id = i, !.approved = ok]
  <2>1. a \in ActState
    <3>1. ok \in BOOLEAN
      OBVIOUS
    <3> HIDE DEF ok
    <3> QED
      BY <3>1, IdleType DEF Idle, ActState, Labels
  <2>2. a.todo = {} /\ a.done = {} /\ a.at = "check" /\ a.id = i
    BY DEF Idle
  <2>3. act' = [act EXCEPT ![m] = a] /\ Taken(i)
    BY <1>1, <1>4 DEF Reserve, Taken, TypeOK
  <2>4. RecordType /\ SameRecords /\ ClaimsKept
    BY <1>1, <1>4, LeaseSet DEF Reserve
  <2>5. UNCHANGED <<status, owner, round, node, decided, exec, crashes, retries>>
    BY <1>4 DEF Reserve
  <2>6. RestType
    BY <1>1, <2>5 DEF RestType, TypeOK
  <2> HIDE DEF a
  <2> QED
    BY <2>1, <2>2, <2>3, <2>4, <2>5, <2>6, TaskKeeps
<1>5. ASSUME Retry(m) PROVE KeepInv'
  <2> DEFINE a == [Idle EXCEPT !.at = "retryList", !.how = "retry", !.mine = owner + 1]
  <2>1. a \in ActState
    <3>1. owner + 1 \in Nat
      BY <1>1 DEF TypeOK
    <3> QED
      BY <3>1, IdleType DEF Idle, ActState, Labels
  <2>2. a.todo = {} /\ a.done = {} /\ a.at = "retryList"
    BY DEF Idle
  <2>3. act' = [act EXCEPT ![m] = a] /\ UNCHANGED <<round, node, approval>> /\ status = "failed"
    BY <1>5 DEF Retry
  <2>4. RestType
    <3>1. owner' \in Nat /\ retries' \in 0..MaxRetries /\ status' = "pending"
      BY <1>1, <1>5, Bounds DEF Retry, TypeOK
    <3> QED
      BY <1>1, <1>5, <3>1 DEF Retry, RestType, TypeOK, Active
  <2> HIDE DEF a
  <2> QED
    BY <1>1, <2>1, <2>2, <2>3, <2>4, SameStay, TaskKeeps DEF Final
<1> QED
  BY <1>2, <1>3, <1>4, <1>5

(* The two steps that record something: a decision, and an outcome.        *)
LEMMA UpdateKeeps == ASSUME KeepInv, NEW m \in Managers, UpdateApproval(m) PROVE KeepInv'
<1> DEFINE i == act[m].id
<1>1. /\ TypeOK /\ RecordInv /\ ActInv /\ ActOK(m) /\ i \in Ids /\ Taken(i)
      /\ UNCHANGED <<status, owner, round, node, decided, exec, crashes, retries>>
  BY DEF KeepInv, ActInv, ActOK, UpdateApproval, At, Listing, runVars, limits
<1>2. RestType
  BY <1>1 DEF RestType, TypeOK
<1>3. CASE approval[i].status # "pending"
  <2>1. Stop(m) /\ approval' = approval
    BY <1>3 DEF UpdateApproval
  <2>2. Stopped(m)
    BY <1>1, <2>1, Moves DEF Labels
  <2> QED
    BY <1>1, <1>2, <2>1, <2>2, SameStay, KeepStopped
<1>4. CASE approval[i].status = "pending"
  <2> DEFINE s == IF act[m].approved THEN "approved" ELSE "rejected"
  <2> DEFINE l == IF act[m].how = "expire" THEN "failRun" ELSE "read"
  <2>1. approval' = [approval EXCEPT ![i].claim = TRUE, ![i].status = s] /\ Goto(m, l) /\ l \in Labels
    BY <1>4 DEF UpdateApproval, Labels
  <2>2. Moved(m, l)
    BY <1>1, <2>1, Moves
  <2>3. l = "failRun" => s = "rejected"
    BY <1>1 DEF ActOK, UpdateApproval, At
  <2>4. s \in {"approved", "rejected"}
    OBVIOUS
  <2>5. l \in {"failRun", "read"}
    OBVIOUS
  <2> HIDE DEF s, l
  <2>6. approval[i] \in ApprovalState /\ approval \in [Ids -> ApprovalState]
    BY <1>1 DEF TypeOK
  <2>7. /\ approval'[i] = [approval[i] EXCEPT !.claim = TRUE, !.status = s]
        /\ \A j \in Ids : j # i => approval'[j] = approval[j]
    BY <1>1, <2>1, <2>6
  <2>8. /\ approval'[i] \in ApprovalState /\ approval'[i].claim = TRUE /\ approval'[i].status = s
        /\ approval'[i].inst = approval[i].inst
    BY <2>4, <2>6, <2>7 DEF ApprovalState
  <2>9. RecordType
    <3>1. approval' \in [Ids -> ApprovalState]
      BY <1>1, <2>1, <2>6, <2>8
    <3> QED
      BY <1>1, <2>4, <2>7, <2>8, <3>1 DEF RecordType, TypeOK
  <2>10. TypeOK'
    BY <1>1, <1>2, <2>2, <2>9 DEF TypeOK, RestType, RecordType, Moved
  <2>11. \A j \in Ids : (Taken(j)' <=> Taken(j)) /\ approval'[j].inst = approval[j].inst
    BY <1>1, <2>4, <2>7, <2>8 DEF Taken
  <2>12. RecordInv'
    BY <1>1, <2>11 DEF RecordInv
  <2>13. Stable
    BY <1>1, <1>4, <2>7, <2>11 DEF Stable, Past, TypeOK
  <2>14. ActOK(m)'
    <3>1. act'[m].id = i
      BY <2>2 DEF Moved
    <3>5. Taken(act[m].id)'
      BY <1>1, <2>11, <3>1 DEF Taken
    <3>2. \A j \in act'[m].todo : Taken(j)'
      BY <1>1, <2>2, <2>11 DEF Moved, ActOK, TypeOK, ActState
    <3>3. \A j \in act'[m].done : Taken(j)' /\ Past(j)'
      BY <1>1, <2>2, <2>11 DEF Moved, ActOK, Past, TypeOK, ActState
    <3>4. l = "failRun" => approval'[act'[m].id].status = "rejected"
      BY <2>2, <2>3, <2>8 DEF Moved
    <3> QED
      BY <1>1, <2>2, <2>5, <3>1, <3>5, <3>2, <3>3, <3>4 DEF Moved, ActOK, Listing
  <2>15. ActInv'
    BY <1>1, <2>2, <2>13, <2>14, OneActs DEF Moved
  <2>16. DecisionKept'
    BY <1>1, <2>7, <2>8 DEF KeepInv, DecisionKept
  <2> QED
    BY <2>10, <2>12, <2>15, <2>16 DEF KeepInv
<1> QED
  BY <1>3, <1>4


(* A decision that finds the run over.                                     *)
LEMMA TerminalKeeps ==
  ASSUME KeepInv, NEW m \in Managers, act[m].at \in {"read", "patch"}, status \notin Active,
         Terminal(m), UNCHANGED <<status, owner, round, node, decided, exec, crashes, retries>>
  PROVE  KeepInv'
<1>1. TypeOK /\ ActOK(m) /\ RestType
  BY DEF KeepInv, ActInv, TypeOK, RestType
<1>2. act[m].id \in Ids
  BY <1>1 DEF ActOK, Listing
<1>3. CASE act[m].how = "retry"
  <2>1. Moved(m, "retryNext") /\ approval' = approval
    BY <1>1, <1>3, Moves DEF Terminal, Labels
  <2> QED
    BY <1>1, <2>1, SameStay, KeepMoved DEF Listing
<1>4. CASE act[m].how # "retry" /\ status # "failed"
  <2>1. Moved(m, "finalize") /\ approval' = approval /\ status \in Final
    BY <1>1, <1>4, Moves DEF Terminal, Labels, TypeOK, Final
  <2> QED
    BY <1>1, <2>1, SameStay, KeepMoved DEF Listing
<1>5. CASE act[m].how # "retry" /\ status = "failed"
  <2> DEFINE l == IF approval[act[m].id].lease = m THEN None ELSE approval[act[m].id].lease
  <2>1. Stopped(m)
    BY <1>1, <1>5, Moves DEF Terminal, Labels
  <2>2. approval' = [approval EXCEPT ![act[m].id].lease = l]
    BY <1>1, <1>2, <1>5 DEF Terminal, TypeOK
  <2>3. l \in Managers \cup {None} /\ (l # None => approval[act[m].id].claim)
    BY <1>1, <1>2 DEF TypeOK, ApprovalState
  <2> HIDE DEF l
  <2>4. RecordType /\ SameRecords /\ ClaimsKept
    BY <1>1, <1>2, <2>2, <2>3, LeaseSet
  <2> QED
    BY <1>1, <2>1, <2>4, KeepStopped
<1> QED
  BY <1>3, <1>4, <1>5

(* The outcome is on the node: every wait is over.                         *)
LEMMA LandedKeeps ==
  ASSUME KeepInv, NEW m \in Managers, PatchNode(m), status \in Active, owner = act[m].owner
  PROVE  KeepInv'
<1> DEFINE i == act[m].id
<1>1. /\ TypeOK /\ RecordInv /\ ActInv /\ ActOK(m) /\ i \in Ids /\ Taken(i)
      /\ act[m].inst \in 1..round
      /\ UNCHANGED <<owner, round, decided, exec, crashes, retries, approval>>
  BY DEF KeepInv, ActInv, ActOK, PatchNode, At, Listing, limits
<1>2. /\ node' = [inst |-> act[m].inst, done |-> TRUE, by |-> i]
      /\ status' = IF act[m].approved THEN status ELSE "failed"
  BY DEF PatchNode
<1>3. RestType /\ RecordType /\ SameRecords
  BY <1>1, <1>2, SameStay DEF RestType, TypeOK, Active
<1>4. /\ round \in 1..Rounds /\ act[m].inst \in 1..Rounds /\ act[m].inst <= round
      /\ node' \in [inst : 1..Rounds, done : BOOLEAN, by : {0} \cup Ids]
      /\ node'.done /\ node'.inst <= round
  <2>1. round \in 1..Rounds
    BY <1>1 DEF TypeOK
  <2>2. act[m].inst \in 1..Rounds /\ act[m].inst <= round
    BY <1>1, <2>1, Bounds
  <2> QED
    BY <1>1, <1>2, <2>1, <2>2
<1>5. \A j \in Ids : Past(j)' /\ (Taken(j)' <=> Taken(j))
  BY <1>1, <1>4 DEF Past, Taken
<1>6. Stable
  BY <1>1, <1>4, <1>5 DEF Stable, Final, Active
<1>7. act' \in [Managers -> ActState] /\ OthersAct(m) /\ ActOK(m)'
  <2>1. CASE act[m].how = "retry"
    <3> DEFINE a == [act[m] EXCEPT !.at = "retryNext", !.done = @ \cup {i}]
    <3>1. act[m] \in ActState
      BY <1>1 DEF TypeOK
    <3>2. a \in ActState /\ a.at = "retryNext" /\ a.done = act[m].done \cup {i} /\ a.todo = act[m].todo
      BY <1>1, <3>1 DEF ActState, Labels
    <3>3. act' = [act EXCEPT ![m] = a]
      BY <1>1, <2>1 DEF PatchNode, TypeOK
    <3> HIDE DEF a
    <3>4. act' \in [Managers -> ActState] /\ act'[m] = a /\ OthersAct(m)
      BY <1>1, <3>2, <3>3, ActSet
    <3>5. act[m].todo \subseteq Ids /\ act[m].done \subseteq Ids
      BY <3>1 DEF ActState
    <3> QED
      BY <1>1, <1>5, <3>2, <3>4, <3>5 DEF ActOK, Listing
  <2>2. CASE act[m].how # "retry"
    <3> DEFINE l == IF act[m].approved THEN "resume" ELSE "finalize"
    <3>1. Goto(m, l) /\ l \in Labels
      BY <2>2 DEF PatchNode, Labels
    <3>2. l \in {"resume", "finalize"}
      OBVIOUS
    <3> HIDE DEF l
    <3>3. Moved(m, l)
      BY <1>1, <3>1, Moves
    <3>4. act[m].todo \subseteq Ids /\ act[m].done \subseteq Ids
      BY <1>1 DEF TypeOK, ActState
    <3>5. act'[m].id = i /\ Taken(act[m].id)' /\ Past(act[m].id)'
      <4>1. act'[m].id = i
        BY <3>3 DEF Moved
      <4> QED
        BY <1>1, <1>4, <4>1 DEF Taken, Past
    <3> QED
      BY <1>1, <1>5, <3>2, <3>3, <3>4, <3>5 DEF ActOK, Listing, Moved
  <2> QED
    BY <2>1, <2>2
<1>8. TypeOK'
  BY <1>1, <1>3, <1>4, <1>7 DEF TypeOK, RestType, RecordType
<1>9. RecordInv'
  BY <1>1, <1>4, <1>5 DEF RecordInv
<1>10. ActInv'
  BY <1>1, <1>6, <1>7, OneActs
<1>11. DecisionKept'
  BY <1>4 DEF DecisionKept
<1> QED
  BY <1>8, <1>9, <1>10, <1>11 DEF KeepInv

LEMMA PatchKeeps == ASSUME KeepInv, NEW m \in Managers, PatchNode(m) PROVE KeepInv'
<1>1. CASE status \in Active /\ owner = act[m].owner
  BY <1>1, LandedKeeps
<1>2. CASE ~(status \in Active /\ owner = act[m].owner)
  <2>1. UNCHANGED <<status, owner, round, node, decided, exec, crashes, retries>> /\ At(m, "patch")
    BY <1>2 DEF PatchNode, limits
  <2>2. CASE status \in Active
    <3>1. TypeOK /\ RestType
      BY <2>1 DEF KeepInv, TypeOK, RestType
    <3>2. Moved(m, "read") /\ approval' = approval
      BY <1>2, <2>2, <3>1, Moves DEF PatchNode, Labels
    <3> QED
      BY <2>1, <3>1, <3>2, SameStay, KeepMoved DEF At, Listing
  <2>3. CASE status \notin Active
    BY <1>2, <2>1, <2>3, TerminalKeeps DEF PatchNode, At
  <2> QED
    BY <2>2, <2>3
<1> QED
  BY <1>1, <1>2

(* The steps that move a manager on.                                       *)
LEMMA ReadKeeps == ASSUME KeepInv, NEW m \in Managers, ReadRun(m) PROVE KeepInv'
<1>1. TypeOK /\ RecordInv /\ UNCHANGED <<status, owner, round, node, decided, exec, crashes, retries>>
      /\ act[m].at = "read"
  BY DEF KeepInv, ReadRun, At, runVars, limits
<1>2. RestType
  BY <1>1 DEF TypeOK, RestType
<1>3. CASE status \notin Active
  BY <1>1, <1>3, TerminalKeeps DEF ReadRun
<1>4. CASE status \in Active
  <2>1. /\ act' = [act EXCEPT ![m].at = "patch", ![m].owner = owner, ![m].inst = node.inst]
        /\ approval' = approval
    BY <1>4 DEF ReadRun
  <2>2. owner \in Nat /\ node.inst \in 1..Rounds /\ node.inst \in 1..round
    BY <1>1, Bounds DEF TypeOK, RecordInv
  <2>3. Moved(m, "patch") /\ act'[m].inst = node.inst
    BY <1>1, <2>1, <2>2, ReadSet
  <2> QED
    BY <1>1, <1>2, <2>1, <2>2, <2>3, SameStay, KeepMoved DEF Listing
<1> QED
  BY <1>3, <1>4

LEMMA FailKeeps == ASSUME KeepInv, NEW m \in Managers, FailRun(m) PROVE KeepInv'
<1>1. TypeOK /\ ActOK(m) /\ act[m].at = "failRun" /\ approval[act[m].id].status = "rejected"
      /\ UNCHANGED <<owner, round, node, decided, exec, approval, crashes, retries>>
  BY DEF KeepInv, ActInv, ActOK, FailRun, At, limits
<1>2. RestType /\ (status \in Final => status' \in Final)
  BY <1>1 DEF FailRun, TypeOK, RestType, Active, Final
<1>3. CASE status = "failed"
  <2>1. Stopped(m)
    BY <1>1, <1>3, Moves DEF FailRun, Labels
  <2> QED
    BY <1>1, <1>2, <2>1, SameStay, KeepStopped
<1>4. CASE status # "failed"
  <2>1. Moved(m, "finalize")
    BY <1>1, <1>4, Moves DEF FailRun, Labels
  <2> QED
    BY <1>1, <1>2, <2>1, SameStay, KeepMoved DEF Listing
<1> QED
  BY <1>3, <1>4

LEMMA ResumeKeeps ==
  ASSUME KeepInv, NEW m \in Managers, Resume(m) \/ ResumeOnly(m)
  PROVE  KeepInv'
<1>1. TypeOK /\ ActOK(m) /\ act[m].at \in {"resume", "resumeOnly"} /\ Past(act[m].id)
      /\ UNCHANGED <<owner, round, node, decided, approval, crashes, retries>>
  BY DEF KeepInv, ActInv, ActOK, Resume, ResumeOnly, At, limits
<1>2. CASE exec' = [at |-> "running", by |-> m] /\ status' = "running" /\ status \in Active
           /\ Goto(m, "executing")
  <2>1. RestType /\ status \notin Final
    BY <1>1, <1>2 DEF TypeOK, RestType, Active, Final
  <2>2. Moved(m, "executing")
    BY <1>1, <1>2, Moves DEF Labels
  <2> QED
    BY <1>1, <2>1, <2>2, SameStay, KeepMoved DEF Listing
<1>3. CASE UNCHANGED <<exec, status>> /\ (Goto(m, "read") \/ Stop(m))
  <2>1. RestType
    BY <1>1, <1>3 DEF TypeOK, RestType
  <2>2. Moved(m, "read") \/ Stopped(m)
    BY <1>1, <1>3, Moves DEF Labels
  <2> QED
    BY <1>1, <1>3, <2>1, <2>2, SameStay, KeepMoved, KeepStopped DEF Listing
<1> QED
  BY <1>2, <1>3 DEF Resume, ResumeOnly

LEMMA CheckKeeps ==
  ASSUME KeepInv, NEW m \in Managers, CheckClaim(m) \/ Executed(m)
  PROVE  KeepInv'
<1> DEFINE i == act[m].id
<1>1. /\ TypeOK /\ RecordInv /\ ActOK(m) /\ act[m].at \in {"check", "executing"}
      /\ i \in Ids /\ Taken(i)
      /\ UNCHANGED <<status, owner, round, node, decided, exec, approval, crashes, retries>>
  BY DEF KeepInv, ActInv, ActOK, CheckClaim, Executed, At, runVars, limits, Listing
<1>2. RestType /\ SameRecords /\ RecordType /\ ClaimsKept
  BY <1>1, SameStay DEF TypeOK, RestType
<1>3. (~SameWait(i) \/ node.done) => Past(i)
  <2>1. node.inst \in Nat /\ round \in Nat /\ approval[i].inst \in Nat
    BY <1>1, Bounds DEF TypeOK, ApprovalState
  <2> QED
    BY <1>1, <2>1 DEF SameWait, Past, RecordInv
<1>4. CASE Goto(m, "finalize") /\ Past(i)
  <2>1. Moved(m, "finalize")
    BY <1>1, <1>4, Moves DEF Labels
  <2> QED
    BY <1>1, <1>2, <1>4, <2>1, KeepMoved DEF Listing
<1>5. CASE Goto(m, "read")
  <2>1. Moved(m, "read")
    BY <1>1, <1>5, Moves DEF Labels
  <2> QED
    BY <1>1, <1>2, <2>1, KeepMoved DEF Listing
<1>6. CASE act' = [act EXCEPT ![m].at = "resumeOnly", ![m].owner = owner] /\ Past(i)
  <2>1. owner \in Nat
    BY <1>1 DEF TypeOK
  <2>2. Moved(m, "resumeOnly")
    BY <1>1, <1>6, <2>1, Moves DEF Labels
  <2> QED
    BY <1>1, <1>2, <1>6, <2>2, KeepMoved DEF Listing
<1>7. CASE Executed(m)
  BY <1>1, <1>4, <1>7 DEF Executed, At, ActOK
<1>8. CASE CheckClaim(m)
  BY <1>3, <1>4, <1>5, <1>6, <1>8 DEF CheckClaim
<1> QED
  BY <1>7, <1>8

LEMMA FinalizeKeeps == ASSUME KeepInv, NEW m \in Managers, Finalize(m) PROVE KeepInv'
<1> DEFINE i == act[m].id
<1>1. /\ TypeOK /\ ActOK(m) /\ act[m].at = "finalize" /\ i \in Ids
      /\ Past(i) \/ status \in Final \/ approval[i].status = "rejected"
      /\ UNCHANGED <<status, owner, round, node, decided, exec, crashes, retries>>
  BY DEF KeepInv, ActInv, ActOK, Finalize, At, runVars, limits, Listing
<1>2. RestType
  BY <1>1 DEF TypeOK, RestType
<1>3. Stopped(m)
  BY <1>1, Moves DEF Finalize, Labels
<1>4. CASE approval' = approval
  BY <1>1, <1>2, <1>3, <1>4, SameStay, KeepStopped
<1>5. CASE approval' = [approval EXCEPT ![i].claim = FALSE, ![i].lease = None]
  <2>1. RecordType /\ SameRecords /\ \A j \in Ids : j # i => approval'[j] = approval[j]
    BY <1>1, <1>5, RecordSet
  <2>2. ClaimsKept
    BY <1>1, <2>1 DEF ClaimsKept
  <2> QED
    BY <1>1, <1>2, <1>3, <2>1, <2>2, KeepStopped
<1> QED
  BY <1>4, <1>5 DEF Finalize

(* A retry goes through the claims it found.                               *)
LEMMA RetryNextKeeps == ASSUME KeepInv, NEW m \in Managers, RetryNext(m) PROVE KeepInv'
<1>1. /\ TypeOK /\ RecordInv /\ ActOK(m) /\ act[m].at = "retryNext" /\ act[m] \in ActState
      /\ UNCHANGED <<status, owner, round, node, decided, exec, approval, crashes, retries>>
  BY DEF KeepInv, ActInv, RetryNext, At, runVars, limits, TypeOK
<1>2. RestType /\ SameRecords /\ RecordType /\ ClaimsKept
  BY <1>1, SameStay DEF TypeOK, RestType
<1>3. act[m].todo \subseteq Ids /\ act[m].done \subseteq Ids
  BY <1>1 DEF ActState
<1>4. ASSUME NEW i \in act[m].todo,
             act' = [act EXCEPT ![m].todo = @ \ {i}, ![m].id = i,
                       ![m].approved = (approval[i].status = "approved"),
                       ![m].at = IF SameWait(i) /\ ~node.done THEN "read" ELSE "retryNext",
                       ![m].done = IF SameWait(i) /\ ~node.done THEN @ ELSE @ \cup {i}]
      PROVE  KeepInv'
  <2> DEFINE open == SameWait(i) /\ ~node.done
  <2> DEFINE ok == (approval[i].status = "approved")
  <2> DEFINE l == IF open THEN "read" ELSE "retryNext"
  <2> DEFINE d == IF open THEN act[m].done ELSE act[m].done \cup {i}
  <2> DEFINE t == act[m].todo \ {i}
  <2> DEFINE a == [act[m] EXCEPT !.todo = t, !.id = i, !.approved = ok, !.at = l, !.done = d]
  <2>1. i \in Ids /\ Taken(i)
    BY <1>1, <1>3 DEF ActOK
  <2>2. ok \in BOOLEAN /\ l \in {"read", "retryNext"} /\ d \subseteq Ids /\ t \subseteq Ids
    BY <1>3, <2>1
  <2>3. \A j \in d : Taken(j) /\ Past(j)
    <3>1. ~open => Past(i)
      <4>1. node.inst \in Nat /\ round \in Nat /\ approval[i].inst \in Nat
        BY <1>1, <2>1, Bounds DEF TypeOK, ApprovalState
      <4> QED
        BY <1>1, <2>1, <4>1 DEF SameWait, Past, RecordInv
    <3> QED
      BY <1>1, <2>1, <3>1 DEF ActOK
  <2>4. \A j \in t : Taken(j)
    BY <1>1 DEF ActOK
  <2>5. act' = [act EXCEPT ![m] = a]
    <3>1. act \in [Managers -> ActState]
      BY <1>1 DEF TypeOK
    <3> QED
      BY <1>4, <3>1
  <2> HIDE DEF ok, l, d, t
  <2>6. /\ a \in ActState /\ a.at = l /\ a.id = i /\ a.todo = t /\ a.done = d
    BY <1>1, <2>1, <2>2 DEF ActState, Labels
  <2> HIDE DEF a
  <2>7. act' \in [Managers -> ActState] /\ act'[m] = a /\ OthersAct(m)
    BY <1>1, <2>5, <2>6, ActSet
  <2>8. \A j \in Ids : (Taken(j)' <=> Taken(j)) /\ (Past(j)' <=> Past(j))
    BY <1>1 DEF Taken, Past
  <2>9. ActOK(m)'
    <3>1. act'[m].at = l /\ act'[m].id = i /\ act'[m].todo = t /\ act'[m].done = d
      BY <2>6, <2>7
    <3>2. Taken(act[m].id)'
      BY <1>1, <2>1, <3>1 DEF Taken
    <3> QED
      BY <2>1, <2>2, <2>3, <2>4, <2>8, <3>1, <3>2 DEF ActOK, Listing
  <2> QED
    BY <1>1, <1>2, <2>7, <2>9, KeepActs
<1>5. CASE Goto(m, "retryFinalize")
  <2>1. Moved(m, "retryFinalize")
    BY <1>1, <1>5, Moves DEF Labels
  <2> QED
    BY <1>1, <1>2, <2>1, KeepMoved DEF Listing
<1> QED
  BY <1>4, <1>5 DEF RetryNext

LEMMA RetryListKeeps == ASSUME KeepInv, NEW m \in Managers, RetryList(m) PROVE KeepInv'
<1> DEFINE t == {i \in Ids : approval[i].claim}
<1> DEFINE a == [act[m] EXCEPT !.at = "retryNext", !.todo = t]
<1>1. /\ TypeOK /\ ActOK(m) /\ act[m] \in ActState
      /\ UNCHANGED <<status, owner, round, node, decided, exec, approval, crashes, retries>>
  BY DEF KeepInv, ActInv, RetryList, runVars, limits, TypeOK
<1>2. RestType /\ SameRecords /\ RecordType /\ ClaimsKept
  BY <1>1, SameStay DEF TypeOK, RestType
<1>3. act' = [act EXCEPT ![m] = a]
  BY <1>1 DEF RetryList, TypeOK
<1>4. t \subseteq Ids /\ \A i \in t : Taken(i)
  BY <1>1 DEF TypeOK, Taken
<1> HIDE DEF t
<1>5. a \in ActState /\ a.at = "retryNext" /\ a.todo = t /\ a.done = act[m].done
  BY <1>1, <1>4 DEF ActState, Labels
<1> HIDE DEF a
<1>6. act' \in [Managers -> ActState] /\ act'[m] = a /\ OthersAct(m)
  BY <1>1, <1>3, <1>5, ActSet
<1>7. act[m].done \subseteq Ids
  BY <1>1 DEF ActState
<1>8. ActOK(m)'
  BY <1>1, <1>4, <1>5, <1>6, <1>7 DEF ActOK, Taken, Past, Listing
<1> QED
  BY <1>1, <1>2, <1>6, <1>8, KeepActs

LEMMA RetryFinalizeKeeps == ASSUME KeepInv, NEW m \in Managers, RetryFinalize(m) PROVE KeepInv'
<1>1. /\ TypeOK /\ ActOK(m) /\ act[m] \in ActState /\ act[m].at = "retryFinalize"
      /\ UNCHANGED <<status, owner, round, node, decided, exec, crashes, retries>>
  BY DEF KeepInv, ActInv, RetryFinalize, At, runVars, limits, TypeOK
<1>2. RestType
  BY <1>1 DEF TypeOK, RestType
<1>3. act[m].todo \subseteq Ids /\ act[m].done \subseteq Ids
  BY <1>1 DEF ActState
<1>4. ASSUME NEW i \in act[m].done, act' = [act EXCEPT ![m].done = @ \ {i}],
             approval' = IF approval[i].lease # None THEN approval
                         ELSE [approval EXCEPT ![i].claim = FALSE]
      PROVE  KeepInv'
  <2> DEFINE d == act[m].done \ {i}
  <2> DEFINE a == [act[m] EXCEPT !.done = d]
  <2>1. i \in Ids /\ Past(i)
    BY <1>1, <1>3 DEF ActOK
  <2>2. RecordType /\ SameRecords /\ ClaimsKept
    <3>1. CASE approval' = approval
      BY <1>1, <3>1, SameStay
    <3>2. CASE approval' # approval
      <4>1. RecordType /\ SameRecords /\ \A j \in Ids : j # i => approval'[j] = approval[j]
        BY <1>1, <1>4, <2>1, <3>2, ClaimDropped
      <4> QED
        BY <2>1, <4>1 DEF ClaimsKept
    <3> QED
      BY <3>1, <3>2
  <2>3. act' = [act EXCEPT ![m] = a]
    BY <1>1, <1>4 DEF TypeOK
  <2>4. d \subseteq Ids /\ d \subseteq act[m].done
    BY <1>3
  <2> HIDE DEF d
  <2>5. a \in ActState /\ a.at = "retryFinalize" /\ a.todo = act[m].todo /\ a.done = d
    BY <1>1, <2>4 DEF ActState
  <2> HIDE DEF a
  <2>6. act' \in [Managers -> ActState] /\ act'[m] = a /\ OthersAct(m)
    BY <1>1, <2>3, <2>5, ActSet
  <2>7. ActOK(m)'
    BY <1>1, <1>3, <2>2, <2>4, <2>5, <2>6 DEF ActOK, Taken, Past, Listing, SameRecords
  <2> QED
    BY <1>1, <1>2, <2>2, <2>6, <2>7, KeepActs
<1>5. CASE Goto(m, "retryRun") /\ approval' = approval
  <2>1. Moved(m, "retryRun")
    BY <1>1, <1>5, Moves DEF Labels
  <2> QED
    BY <1>1, <1>2, <1>5, <2>1, SameStay, KeepMoved DEF Listing
<1> QED
  BY <1>4, <1>5 DEF RetryFinalize

LEMMA EndKeeps == ASSUME KeepInv, NEW m \in Managers, RetryRun(m) \/ Crash(m) PROVE KeepInv'
<1>1. TypeOK /\ UNCHANGED <<owner, round, node, decided, approval, retries>> /\ Stop(m)
  BY DEF KeepInv, RetryRun, Crash, runVars, limits
<1>2. RestType /\ (status \in Final => status' \in Final)
  <2>1. CASE RetryRun(m)
    BY <1>1, <2>1 DEF RetryRun, TypeOK, RestType, Active, Final, limits
  <2>2. CASE Crash(m)
    <3>1. crashes' \in 0..MaxCrashes
      BY <1>1, <2>2, Bounds DEF Crash, TypeOK
    <3> QED
      BY <1>1, <2>2, <3>1 DEF Crash, TypeOK, RestType, NoExec, runVars
  <2> QED
    BY <2>1, <2>2
<1>3. Stopped(m)
  BY <1>1, Moves DEF Labels
<1> QED
  BY <1>1, <1>2, <1>3, SameStay, KeepStopped

LEMMA KeepStep == KeepInv /\ [Next]_vars => KeepInv'
<1>1. SUFFICES ASSUME KeepInv, [Next]_vars PROVE KeepInv'
  OBVIOUS
<1>2. CASE UNCHANGED vars
  <2>1. RestType /\ UNCHANGED <<status, round, node, approval, act>>
    BY <1>1, <1>2 DEF vars, KeepInv, TypeOK, RestType
  <2> QED
    BY <1>1, <2>1, KeepRun
<1>3. CASE RunsOn \/ Fails \/ Cancel
  BY <1>1, <1>3, ExecuteKeeps, CreateKeeps, RunKeeps DEF RunsOn
<1>4. ASSUME NEW m \in Managers, Manage(m) PROVE KeepInv'
  BY <1>1, <1>4, UpdateKeeps, FailKeeps, ReadKeeps, PatchKeeps, ResumeKeeps, CheckKeeps,
     FinalizeKeeps, RetryListKeeps, RetryNextKeeps, RetryFinalizeKeeps, EndKeeps DEF Manage
<1>5. ASSUME NEW m \in Managers,
             \/ Retry(m)
             \/ \E i \in Ids : Expire(m, i) \/ Reserve(m, i) \/ \E ok \in BOOLEAN : Decide(m, i, ok)
      PROVE  KeepInv'
  BY <1>1, <1>5, StartKeeps
<1>6. ASSUME NEW m \in Managers, Crash(m) PROVE KeepInv'
  BY <1>1, <1>6, EndKeeps
<1> QED
  BY <1>1, <1>2, <1>3, <1>4, <1>5, <1>6 DEF Next

LEMMA KeepInit == Init => KeepInv
<1>1. SUFFICES ASSUME Init PROVE KeepInv
  OBVIOUS
<1> DEFINE first == [NoApproval EXCEPT !.inst = 1, !.status = "pending"]
<1>2. 1 \in 1..Rounds /\ 1 \in Ids /\ 1 \in 0..MaxApprovals
  BY Bounds DEF Ids
<1>3. /\ first \in ApprovalState /\ first.inst = 1 /\ first.status = "pending"
      /\ ~first.claim /\ first.lease = None
  <2>1. NoApproval \in ApprovalState /\ 1 \in 0..Rounds
    BY IdleType, Bounds
  <2> QED
    BY <2>1 DEF NoApproval, ApprovalState
<1>4. /\ NoApproval.status = "none" /\ ~NoApproval.claim /\ NoApproval.lease = None
      /\ NoApproval \in ApprovalState /\ Idle \in ActState
  BY IdleType DEF NoApproval
<1> HIDE DEF first
<1>5. approval = [i \in Ids |-> IF i = 1 THEN first ELSE NoApproval]
  BY <1>1 DEF Init, first
<1>6. TypeOK
  <2>1. 0 \in 0..MaxCrashes /\ 0 \in 0..MaxRetries
    BY Bounds
  <2>2. exec \in [at : {"none", "running", "parked"}, by : Managers \cup {None}]
    BY <1>1 DEF Init, NoExec
  <2> QED
    BY <1>1, <1>2, <1>3, <1>4, <1>5, <2>1, <2>2 DEF Init, TypeOK, Active
<1>7. RecordInv
  <2>1. \A i \in Ids : Taken(i) <=> i <= 1
    BY <1>3, <1>4, <1>5 DEF Taken, Ids
  <2>2. \A i \in Ids : Taken(i) => approval[i].inst <= 1
    BY <1>3, <1>4, <1>5 DEF Taken
  <2> QED
    BY <1>1, <1>2, <2>1, <2>2 DEF Init, RecordInv
<1>8. ActInv
  BY <1>1 DEF Init, ActInv, ActOK, Idle, Listing
<1>9. DecisionKept
  BY <1>3, <1>4, <1>5 DEF DecisionKept
<1> QED
  BY <1>6, <1>7, <1>8, <1>9 DEF KeepInv

LEMMA AlwaysKept == Spec => []KeepInv
BY KeepInit, KeepStep, PTL DEF Spec

(* The state of the run, its approvals and its managers stays typed: no    *)
(* lease without a claim, no claim without a decision, and the loop never  *)
(* leaves its rounds.                                                      *)
THEOREM ApprovalsTypeCorrect == Spec => []TypeOK
<1>1. KeepInv => TypeOK
  BY DEF KeepInv
<1> QED
  BY <1>1, AlwaysKept, PTL

(* No approval is consumed without effect: whoever gives up the claim of   *)
(* an approved decision (the deciding manager, recovery or a retry), the   *)
(* wait is over, the loop is past it or the run has ended for good.        *)
THEOREM ApprovalTakesEffect == Spec => []DecisionKept
<1>1. KeepInv => DecisionKept
  BY DEF KeepInv
<1> QED
  BY <1>1, AlwaysKept, PTL

---------------------------------------------------------------------------
(* The rounds of a run that nobody retries                                 *)

(* The step leaves the loop alone, and the run too unless it fails it.     *)
RunQuiet ==
  /\ UNCHANGED <<round, node, decided>> /\ status' # "pending"
  /\ Going' => status' = status /\ owner' = owner /\ exec'.at \in {exec.at, "none"}

LEMMA RoundIds ==
  ASSUME TypeOK
  PROVE  /\ round \in Nat /\ round \in Ids /\ 1..(round - 1) \subseteq Ids /\ 1..Rounds \subseteq Ids
         /\ round - 1 \in Nat
BY Bounds DEF TypeOK, Ids

LEMMA QuietLoop ==
  ASSUME TypeOK, LoopInv, RunQuiet, SameRecords
  PROVE  LoopInv'
<1>1. /\ round \in Ids /\ 1..(round - 1) \subseteq Ids /\ 1..Rounds \subseteq Ids
      /\ \A i \in Ids : Taken(i)' <=> Taken(i)
      /\ UNCHANGED <<round, node, decided>>
  BY RoundIds DEF SameRecords, Taken, RunQuiet
<1>2. \A i \in Ids : Taken(i)' => approval'[i].inst = i
  BY <1>1 DEF LoopInv, SameRecords
<1>3. \A r \in 1..Rounds : decided'[r] # 0 => decided'[r] = r /\ Taken(r)'
  BY <1>1 DEF LoopInv
<1>4. ASSUME Going'
      PROVE  /\ node.inst = round
             /\ \A i \in 1..(round - 1) : approval'[i].status = "approved"
             /\ node.done => node.by = round /\ approval'[round].status = "approved"
             /\ status' \in {"running", "completed"} => node.done
             /\ exec'.at = "running" => status' = "running"
             /\ exec'.at = "parked" => ~Taken(round)' /\ ~node.done
  <2>1. Going /\ status' = status /\ exec'.at \in {exec.at, "none"}
    BY <1>4 DEF RunQuiet, Going
  <2>2. approval'[round].status = approval[round].status /\ (Taken(round)' <=> Taken(round))
    BY <1>1 DEF SameRecords, Taken
  <2>3. \A i \in 1..(round - 1) : approval'[i].status = "approved"
    BY <1>1, <2>1 DEF LoopInv, SameRecords
  <2> QED
    BY <2>1, <2>2, <2>3 DEF LoopInv
<1> QED
  BY <1>1, <1>2, <1>3, <1>4 DEF LoopInv, RunQuiet

LEMMA ApplyFrame ==
  ASSUME ApplyInv, RunQuiet, Going', NEW n \in Managers, act'[n] = act[n]
  PROVE  ApplyOK(n)'
<1>1. Going
  BY DEF RunQuiet, Going
<1> QED
  BY <1>1 DEF ApplyInv, ApplyOK, RunQuiet

LEMMA HolderIds ==
  ASSUME KeepInv, HolderInv, NEW n \in Managers, Holds(n)
  PROVE  /\ act[n].id \in Ids /\ Taken(act[n].id) /\ approval[act[n].id].status \in {"approved", "rejected"}
         /\ act[n].approved = (approval[act[n].id].status = "approved") /\ act[n].how # "retry"
BY DEF KeepInv, ActInv, ActOK, HolderInv, HolderOK, Holds, Listing

LEMMA HolderStep ==
  ASSUME HolderInv, NEW m \in Managers, OthersAct(m), HolderOK(m)',
         \A n \in Managers : n # m /\ Holds(n) =>
           /\ approval'[act[n].id].status = approval[act[n].id].status
           /\ Holds(m)' => act[n].id # act'[m].id
  PROVE  HolderInv'
<1>1. \A n \in Managers : n # m => act'[n] = act[n]
  BY DEF OthersAct
<1>2. \A n \in Managers : n # m => (Holds(n)' <=> Holds(n))
  BY <1>1 DEF Holds
<1>3. ASSUME NEW n \in Managers PROVE HolderOK(n)'
  <2>1. CASE n = m
    BY <2>1
  <2>2. CASE n # m
    BY <1>1, <1>2, <2>2 DEF HolderInv, HolderOK
  <2> QED
    BY <2>1, <2>2
<1>4. ASSUME NEW n \in Managers, NEW k \in Managers, n # k, Holds(n)', Holds(k)'
      PROVE  act'[n].id # act'[k].id
  <2>1. CASE n = m
    BY <1>1, <1>2, <1>4, <2>1
  <2>2. CASE k = m
    BY <1>1, <1>2, <1>4, <2>2
  <2>3. CASE n # m /\ k # m
    BY <1>1, <1>2, <1>4, <2>3 DEF HolderInv
  <2> QED
    BY <2>1, <2>2, <2>3
<1> QED
  BY <1>3, <1>4 DEF HolderInv

(* Steps that keep every record's decision, by what the manager does.      *)
LEMMA QuietActs ==
  ASSUME KeepInv, RoundState, RunQuiet, SameRecords, NEW m \in Managers, OthersAct(m),
         HolderOK(m)', \A n \in Managers : n # m /\ Holds(n) /\ Holds(m)' => act[n].id # act'[m].id,
         Going' => ApplyOK(m)'
  PROVE  RoundState'
<1>1. LoopInv'
  BY QuietLoop DEF KeepInv, RoundState
<1>2. HolderInv'
  <2>1. \A n \in Managers : Holds(n) => approval'[act[n].id].status = approval[act[n].id].status
    BY HolderIds DEF RoundState, SameRecords
  <2> QED
    BY <2>1, HolderStep DEF RoundState
<1>3. ApplyInv'
  <2>1. SUFFICES ASSUME Going', NEW n \in Managers PROVE ApplyOK(n)'
    BY DEF ApplyInv
  <2>2. CASE n = m
    BY <2>1, <2>2
  <2>3. CASE n # m
    BY <2>1, <2>3, ApplyFrame DEF RoundState, OthersAct
  <2> QED
    BY <2>2, <2>3
<1> QED
  BY <1>1, <1>2, <1>3 DEF RoundState

LEMMA QuietStopped ==
  ASSUME KeepInv, RoundState, RunQuiet, SameRecords, NEW m \in Managers, Stopped(m)
  PROVE  RoundState'
<1>1. OthersAct(m) /\ HolderOK(m)' /\ ~Holds(m)' /\ ApplyOK(m)'
  <2>1. act'[m].at = "idle" /\ OthersAct(m)
    BY DEF Stopped, Idle
  <2> QED
    BY <2>1 DEF HolderOK, Holds, ApplyOK, Listing
<1> QED
  BY <1>1, QuietActs

LEMMA QuietMoved ==
  ASSUME KeepInv, RoundState, RunQuiet, SameRecords, NEW m \in Managers, NEW l, Moved(m, l),
         Holds(m), l \notin Listing, l # "update", Going' => ApplyOK(m)'
  PROVE  RoundState'
<1>1. /\ act[m].id \in Ids /\ approval[act[m].id].status \in {"approved", "rejected"}
      /\ act[m].approved = (approval[act[m].id].status = "approved") /\ act[m].how # "retry"
  BY HolderIds DEF RoundState
<1>2. act'[m].at = l /\ act'[m].id = act[m].id /\ act'[m].how = act[m].how
      /\ act'[m].approved = act[m].approved /\ OthersAct(m)
  BY DEF Moved
<1>3. HolderOK(m)'
  <2>1. approval'[act'[m].id].status = approval[act[m].id].status
    BY <1>1, <1>2 DEF SameRecords
  <2> QED
    BY <1>1, <1>2, <2>1 DEF HolderOK, Holds, Listing
<1>4. \A n \in Managers : n # m /\ Holds(n) => act[n].id # act'[m].id
  BY <1>2 DEF RoundState, HolderInv
<1> QED
  BY <1>2, <1>3, <1>4, QuietActs

LEMMA QuietRun ==
  ASSUME KeepInv, RoundState, RunQuiet, UNCHANGED <<approval, act>>
  PROVE  RoundState'
<1>1. SameRecords
  BY SameStay DEF KeepInv
<1>2. LoopInv'
  BY <1>1, QuietLoop DEF KeepInv, RoundState
<1>3. HolderInv'
  BY DEF RoundState, HolderInv, HolderOK, Holds
<1>4. ApplyInv'
  <2>1. SUFFICES ASSUME Going', NEW n \in Managers PROVE ApplyOK(n)'
    BY DEF ApplyInv
  <2> QED
    BY <2>1, ApplyFrame DEF RoundState
<1> QED
  BY <1>2, <1>3, <1>4 DEF RoundState

(* Rounds are decided in order: what is undecided is about this round.     *)
LEMMA ThisRound ==
  ASSUME KeepInv, LoopInv, NEW i \in Ids, Taken(i)
  PROVE  /\ i <= round /\ approval[i].inst = i
         /\ Going /\ approval[i].status # "approved" => i = round
<1>1. approval[i].inst = i /\ i <= round
  BY DEF LoopInv, KeepInv, RecordInv
<1>2. ASSUME Going, i # round PROVE approval[i].status = "approved"
  <2>1. i \in 1..(round - 1)
    BY <1>1, <1>2, RoundIds DEF Ids, KeepInv
  <2> QED
    BY <1>2, <2>1 DEF LoopInv
<1> QED
  BY <1>1, <1>2

LEMMA ExecuteRound == ASSUME KeepInv, RoundState, Execute PROVE RoundState'
<1>1. /\ TypeOK /\ status = "running" /\ exec.at = "running" /\ UNCHANGED <<owner, approval, act>>
      /\ HolderInv /\ LoopInv /\ ApplyInv
  BY DEF KeepInv, RoundState, Execute
<1>2. Going
  BY <1>1 DEF Going
<1>3. /\ node.done /\ node.inst = round /\ node.by = round /\ approval[round].status = "approved"
      /\ \A i \in 1..(round - 1) : approval[i].status = "approved"
  BY <1>1, <1>2 DEF LoopInv
<1>4. round \in Ids /\ round \in Nat /\ round \in 1..Rounds /\ decided \in [1..Rounds -> {0} \cup Ids]
      /\ 1..Rounds \subseteq Ids /\ 1..(round - 1) \subseteq Ids /\ round - 1 \in Nat
  BY <1>1, RoundIds DEF TypeOK
<1>5. decided' = [decided EXCEPT ![round] = round]
  BY <1>3 DEF Execute
<1>6. \A r \in 1..Rounds : decided'[r] # 0 => decided'[r] = r /\ Taken(r)'
  <2>1. Taken(round)
    BY <1>3 DEF Taken
  <2> QED
    BY <1>1, <1>4, <1>5, <2>1 DEF LoopInv, Taken
<1>7. \A n \in Managers : act[n].at \notin {"read", "patch", "resume", "resumeOnly"}
  BY <1>1, <1>2, <1>3 DEF ApplyInv, ApplyOK
<1>8. HolderInv' /\ ApplyInv'
  BY <1>1, <1>7 DEF HolderInv, HolderOK, Holds, ApplyInv, ApplyOK
<1>9. \A i \in Ids : Taken(i)' => approval'[i].inst = i
  BY <1>1 DEF LoopInv, Taken
<1>10. LoopInv'
  <2>1. CASE round = Rounds
    <3>1. status' = "completed" /\ exec' = NoExec /\ UNCHANGED <<round, node>>
      BY <1>3, <2>1 DEF Execute
    <3>2. exec'.at = "none"
      BY <3>1 DEF NoExec
    <3> QED
      BY <1>1, <1>3, <1>6, <1>9, <3>1, <3>2 DEF LoopInv
  <2>2. CASE round # Rounds
    <3>1. /\ round' = round + 1 /\ node' = [inst |-> round + 1, done |-> FALSE, by |-> 0]
          /\ status' = "waiting" /\ exec' = [exec EXCEPT !.at = "parked"]
      BY <1>3, <2>2 DEF Execute
    <3>2. exec'.at = "parked" /\ node'.inst = round' /\ ~node'.done
      BY <1>1, <3>1 DEF TypeOK
    <3>3. \A i \in 1..(round' - 1) : approval'[i].status = "approved"
      <4>1. SUFFICES ASSUME NEW i \in 1..round PROVE approval[i].status = "approved"
        BY <1>1, <1>4, <3>1
      <4>2. i = round \/ i \in 1..(round - 1)
        BY <1>4
      <4> QED
        BY <1>3, <4>2
    <3>4. ~Taken(round)'
      <4>1. round + 1 \in Ids
        BY <1>4, <2>2, Bounds
      <4>2. ~Taken(round + 1)
        BY <1>1, <1>4, <4>1, ThisRound
      <4> QED
        BY <1>1, <3>1, <4>2 DEF Taken
    <3> QED
      BY <1>6, <1>9, <3>1, <3>2, <3>3, <3>4 DEF LoopInv
  <2> QED
    BY <2>1, <2>2
<1> QED
  BY <1>8, <1>10 DEF RoundState

(* The parked execution announces the approval of its round.               *)
LEMMA CreateRound == ASSUME KeepInv, RoundState, CreateApproval PROVE RoundState'
<1>1. /\ TypeOK /\ RecordInv /\ UNCHANGED <<status, owner, round, node, decided, act>>
      /\ HolderInv /\ LoopInv /\ ApplyInv /\ exec.at = "parked" /\ exec'.at = "none"
  BY DEF KeepInv, RoundState, CreateApproval, runVars, NoExec
<1>2. CASE approval' = approval
  <2>1. RunQuiet
    BY <1>1 DEF RunQuiet, LoopInv
  <2> QED
    BY <1>1, <1>2, <2>1, QuietRun
<1>3. CASE approval' # approval
  <2> DEFINE S == {i \in Ids : approval[i].status # "none"}
  <2> DEFINE new == [NoApproval EXCEPT !.inst = node.inst, !.status = "pending"]
  <2>1. approval' = [approval EXCEPT ![Cardinality(S) + 1] = new] /\ Cardinality(S) + 1 \in Ids
        /\ status = "waiting"
    BY <1>3 DEF CreateApproval
  <2>2. new.inst = node.inst /\ new.status = "pending"
    BY DEF NoApproval
  <2> HIDE DEF new
  <2>3. Going /\ ~Taken(round) /\ ~node.done /\ node.inst = round
        /\ \A i \in 1..(round - 1) : approval[i].status = "approved"
    BY <1>1, <2>1 DEF Going, LoopInv
  <2>4. /\ round \in Ids /\ round \in Nat /\ round - 1 \in Nat
        /\ 1..Rounds \subseteq Ids /\ 1..(round - 1) \subseteq Ids
    BY <1>1, RoundIds
  <2>5. Cardinality(S) + 1 = round
    <3>1. S = 1..(round - 1)
      <4>1. \A i \in Ids : Taken(i) => i \in 1..(round - 1)
        <5>1. SUFFICES ASSUME NEW i \in Ids, Taken(i) PROVE i \in 1..(round - 1)
          OBVIOUS
        <5>2. i <= round /\ i # round
          BY <1>1, <2>3, <5>1, ThisRound
        <5> QED
          BY <2>4, <5>1, <5>2 DEF Ids
      <4>2. \A i \in 1..(round - 1) : i \in Ids /\ Taken(i)
        BY <2>3, <2>4 DEF Taken
      <4> QED
        BY <4>1, <4>2 DEF Taken
    <3>2. Cardinality(1..(round - 1)) = IF 1 > round - 1 THEN 0 ELSE (round - 1) - 1 + 1
      BY <2>4, FS_Interval
    <3>3. (IF 1 > round - 1 THEN 0 ELSE (round - 1) - 1 + 1) = round - 1
      BY <2>4
    <3>4. Cardinality(S) = round - 1
      BY <3>1, <3>2, <3>3
    <3> QED
      BY <2>4, <3>4
  <2>6. approval'[round] = new /\ \A i \in Ids : i # round => approval'[i] = approval[i]
    BY <1>1, <2>1, <2>4, <2>5 DEF TypeOK
  <2>7. \A n \in Managers : Holds(n) => act[n].id \in Ids /\ act[n].id # round
    BY <1>1, <2>3, HolderIds
  <2>8. HolderInv'
    BY <1>1, <2>6, <2>7 DEF HolderInv, HolderOK, Holds
  <2>9. LoopInv'
    <3>1. \A i \in Ids : Taken(i)' => approval'[i].inst = i
      BY <1>1, <2>2, <2>3, <2>6 DEF LoopInv, Taken
    <3>2. \A r \in 1..Rounds : decided'[r] # 0 => decided'[r] = r /\ Taken(r)'
      BY <1>1, <2>2, <2>4, <2>6 DEF LoopInv, Taken
    <3>3. \A i \in 1..(round - 1) : approval'[i].status = "approved"
      <4>1. \A i \in 1..(round - 1) : i \in Ids /\ i # round
        BY <2>4
      <4> QED
        BY <2>3, <2>6, <4>1
    <3> QED
      BY <1>1, <2>1, <2>3, <3>1, <3>2, <3>3 DEF LoopInv
  <2>10. ApplyInv'
    BY <1>1 DEF ApplyInv, ApplyOK, Going
  <2> QED
    BY <2>8, <2>9, <2>10 DEF RoundState
<1> QED
  BY <1>2, <1>3

(* A worker finds only runs whose wait is over.                            *)
LEMMA WorkerRound == ASSUME KeepInv, RoundState, WorkerClaim PROVE RoundState'
<1>1. /\ UNCHANGED <<round, node, decided, approval, act>> /\ exec'.at = "running" /\ status' = "running"
      /\ HolderInv /\ LoopInv /\ ApplyInv
  BY DEF RoundState, WorkerClaim
<1>2. status = "running" /\ Going
  BY <1>1 DEF WorkerClaim, LoopInv, Going
<1>3. node.done
  BY <1>1, <1>2 DEF LoopInv
<1>4. HolderInv'
  BY <1>1 DEF HolderInv, HolderOK, Holds
<1>5. LoopInv'
  BY <1>1, <1>2, <1>3 DEF LoopInv, Taken
<1>6. \A n \in Managers : act[n].at \notin {"read", "patch", "resume", "resumeOnly"}
  BY <1>1, <1>2, <1>3 DEF ApplyInv, ApplyOK
<1>7. ApplyInv'
  BY <1>1, <1>6 DEF ApplyInv, ApplyOK
<1> QED
  BY <1>4, <1>5, <1>7 DEF RoundState

LEMMA RunRound ==
  ASSUME KeepInv, RoundState, ExecutionEnds \/ Fails \/ Cancel \/ UNCHANGED vars
  PROVE  RoundState'
<1>1. UNCHANGED <<round, node, decided, approval, act, owner>> /\ status # "pending"
  BY DEF ExecutionEnds, Fails, Cancel, vars, runVars, RoundState, LoopInv
<1>2. RunQuiet
  BY <1>1 DEF RunQuiet, Going, ExecutionEnds, Fails, Cancel, vars, runVars, NoExec
<1> QED
  BY <1>1, <1>2, QuietRun

(* A manager takes up a decision, or a claim that nobody attends to.       *)
LEMMA StartRound ==
  ASSUME ~Overtakes, KeepInv, RoundState, NEW m \in Managers, NEW i \in Ids,
         Expire(m, i) \/ Reserve(m, i) \/ \E ok \in BOOLEAN : Decide(m, i, ok)
  PROVE  RoundState'
<1>1. /\ TypeOK /\ HolderInv /\ LoopInv /\ ApplyInv
      /\ UNCHANGED <<status, owner, round, node, decided, exec>>
  BY DEF KeepInv, RoundState, Expire, Reserve, Decide, runVars
<1>2. RunQuiet
  BY <1>1 DEF RunQuiet, LoopInv
<1>3. ASSUME NEW a, a.at = "update", a.how # "retry", approval' = approval,
             act' = [act EXCEPT ![m] = a]
      PROVE  RoundState'
  <2>1. act'[m].at = "update" /\ act'[m].how # "retry" /\ OthersAct(m)
    BY <1>1, <1>3 DEF TypeOK, OthersAct
  <2>2. HolderOK(m)' /\ ~Holds(m)' /\ ApplyOK(m)'
    BY <2>1 DEF HolderOK, Holds, ApplyOK, Listing
  <2> QED
    BY <1>1, <1>2, <1>3, <2>1, <2>2, SameStay, QuietActs
<1>4. ASSUME Reserve(m, i) PROVE RoundState'
  <2>1. RecordType /\ SameRecords /\ ClaimsKept
    BY <1>1, <1>4, LeaseSet DEF Reserve
  <2>2. approval[i].status \in {"approved", "rejected"}
    BY <1>1, <1>4 DEF Reserve, TypeOK
  <2>3. /\ act'[m].at = "check" /\ act'[m].how = "recover" /\ act'[m].id = i
        /\ act'[m].approved = (approval[i].status = "approved") /\ OthersAct(m)
    BY <1>1, <1>4 DEF Reserve, TypeOK, OthersAct, Idle
  <2>4. HolderOK(m)' /\ ApplyOK(m)'
    <3>1. approval'[act'[m].id].status = approval[i].status
      BY <2>1, <2>3 DEF SameRecords
    <3> QED
      BY <2>2, <2>3, <3>1 DEF HolderOK, Holds, ApplyOK, Listing
  <2>5. \A n \in Managers : Holds(n) => act[n].id # act'[m].id
    BY <1>4, <2>3 DEF Reserve, Attended, Holds
  <2> QED
    BY <1>2, <2>1, <2>3, <2>4, <2>5, QuietActs
<1>5. ASSUME Expire(m, i) PROVE RoundState'
  <2> DEFINE a == [Idle EXCEPT !.at = "update", !.how = "expire", !.id = i]
  <2>1. a.at = "update" /\ a.how # "retry"
    BY DEF Idle
  <2> QED
    BY <1>3, <1>5, <2>1 DEF Expire
<1>6. ASSUME NEW ok \in BOOLEAN, Decide(m, i, ok) PROVE RoundState'
  <2> DEFINE a == [Idle EXCEPT !.at = "update", !.how = "decide", !.id = i, !.approved = ok]
  <2>1. a.at = "update" /\ a.how # "retry"
    BY DEF Idle
  <2> QED
    BY <1>3, <1>6, <2>1 DEF Decide
<1> QED
  BY <1>4, <1>5, <1>6

(* The first decision of a round's approval is the one that is applied.    *)
LEMMA UpdateRound == ASSUME KeepInv, RoundState, NEW m \in Managers, UpdateApproval(m) PROVE RoundState'
<1> DEFINE i == act[m].id
<1>1. /\ TypeOK /\ RecordInv /\ ActOK(m) /\ i \in Ids /\ Taken(i) /\ act[m].at = "update"
      /\ UNCHANGED <<status, owner, round, node, decided, exec>>
      /\ HolderInv /\ LoopInv /\ ApplyInv
  BY DEF KeepInv, RoundState, ActInv, ActOK, UpdateApproval, At, Listing, runVars
<1>2. RunQuiet
  BY <1>1 DEF RunQuiet, LoopInv
<1>3. CASE approval[i].status # "pending"
  <2>1. Stop(m) /\ approval' = approval
    BY <1>3 DEF UpdateApproval
  <2>2. Stopped(m)
    BY <1>1, <2>1, Moves DEF Labels
  <2> QED
    BY <1>1, <1>2, <2>1, <2>2, SameStay, QuietStopped
<1>4. CASE approval[i].status = "pending"
  <2> DEFINE s == IF act[m].approved THEN "approved" ELSE "rejected"
  <2> DEFINE l == IF act[m].how = "expire" THEN "failRun" ELSE "read"
  <2>1. approval' = [approval EXCEPT ![i].claim = TRUE, ![i].status = s] /\ Goto(m, l) /\ l \in Labels
    BY <1>4 DEF UpdateApproval, Labels
  <2>2. Moved(m, l)
    BY <1>1, <2>1, Moves
  <2>3. s \in {"approved", "rejected"} /\ act[m].approved = (s = "approved") /\ l \in {"failRun", "read"}
    <3>1. act[m].approved \in BOOLEAN
      BY <1>1 DEF TypeOK, ActState
    <3> QED
      BY <3>1
  <2> HIDE DEF s, l
  <2>4. /\ approval'[i].status = s /\ approval'[i].inst = approval[i].inst
        /\ \A j \in Ids : j # i => approval'[j] = approval[j]
    BY <1>1, <2>1 DEF TypeOK, ApprovalState
  <2>5. /\ act'[m].at = l /\ act'[m].id = i /\ act'[m].how = act[m].how
        /\ act'[m].approved = act[m].approved /\ OthersAct(m)
    BY <2>2 DEF Moved
  <2>6. HolderOK(m)'
    <3>1. act[m].how # "retry"
      BY <1>1 DEF HolderInv, HolderOK
    <3>2. approval'[act'[m].id].status = s
      BY <2>4, <2>5
    <3> QED
      BY <2>3, <2>5, <3>1, <3>2 DEF HolderOK, Holds, Listing
  <2>7. \A n \in Managers : Holds(n) => act[n].id \in Ids /\ act[n].id # i
    BY <1>1, <1>4, HolderIds
  <2>8. HolderInv'
    <3>1. \A n \in Managers : n # m /\ Holds(n) =>
            /\ approval'[act[n].id].status = approval[act[n].id].status
            /\ act[n].id # act'[m].id
      BY <2>4, <2>5, <2>7
    <3> QED
      BY <1>1, <2>5, <2>6, <3>1, HolderStep
  <2>9. Going => i = round /\ ~node.done
    <3>1. Going => i = round
      BY <1>1, <1>4, ThisRound
    <3> QED
      BY <1>1, <1>4, <3>1 DEF LoopInv
  <2>10. \A j \in Ids : (Taken(j)' <=> Taken(j)) /\ approval'[j].inst = approval[j].inst
    BY <1>1, <2>3, <2>4 DEF Taken
  <2>11. LoopInv'
    <3>1. \A j \in Ids : Taken(j)' => approval'[j].inst = j
      BY <1>1, <2>10 DEF LoopInv
    <3>2. \A r \in 1..Rounds : decided'[r] # 0 => decided'[r] = r /\ Taken(r)'
      BY <1>1, <2>10, RoundIds DEF LoopInv
    <3>3. Going => \A j \in 1..(round - 1) : approval'[j].status = "approved"
      <4>1. \A j \in 1..(round - 1) : j \in Ids /\ j # round
        BY <1>1, RoundIds
      <4> QED
        BY <1>1, <2>4, <2>9, <4>1 DEF LoopInv
    <3>4. Taken(round)' <=> Taken(round)
      BY <1>1, <2>10, RoundIds DEF Taken
    <3>5. Going' <=> Going
      BY <1>1 DEF Going
    <3> QED
      BY <1>1, <2>9, <3>1, <3>2, <3>3, <3>4, <3>5 DEF LoopInv
  <2>12. ApplyInv'
    <3>1. SUFFICES ASSUME Going', NEW n \in Managers PROVE ApplyOK(n)'
      BY DEF ApplyInv
    <3>2. CASE n = m
      BY <1>1, <2>3, <2>5, <2>9, <3>1, <3>2 DEF ApplyOK, Going
    <3>3. CASE n # m
      BY <1>1, <1>2, <2>5, <3>1, <3>3, ApplyFrame DEF OthersAct
    <3> QED
      BY <3>2, <3>3
  <2> QED
    BY <2>8, <2>11, <2>12 DEF RoundState
<1> QED
  BY <1>3, <1>4

LEMMA TerminalRound ==
  ASSUME KeepInv, RoundState, NEW m \in Managers, act[m].at \in {"read", "patch"},
         status \notin Active, Terminal(m),
         UNCHANGED <<status, owner, round, node, decided, exec>>
  PROVE  RoundState'
<1>1. TypeOK /\ HolderInv /\ LoopInv /\ Holds(m)
  BY DEF KeepInv, RoundState, Holds
<1>2. RunQuiet
  BY <1>1 DEF RunQuiet, LoopInv
<1>3. act[m].id \in Ids /\ act[m].how # "retry"
  BY <1>1, HolderIds
<1>4. CASE status # "failed"
  <2>1. Moved(m, "finalize") /\ approval' = approval
    BY <1>1, <1>3, <1>4, Moves DEF Terminal, Labels
  <2>2. ApplyOK(m)'
    BY <2>1 DEF Moved, ApplyOK
  <2> QED
    BY <1>1, <1>2, <2>1, <2>2, SameStay, QuietMoved DEF Listing
<1>5. CASE status = "failed"
  <2> DEFINE l == IF approval[act[m].id].lease = m THEN None ELSE approval[act[m].id].lease
  <2>1. Stopped(m)
    BY <1>1, <1>3, <1>5, Moves DEF Terminal, Labels
  <2>2. approval' = [approval EXCEPT ![act[m].id].lease = l]
    BY <1>1, <1>3, <1>5 DEF Terminal, TypeOK
  <2>3. l \in Managers \cup {None} /\ (l # None => approval[act[m].id].claim)
    BY <1>1, <1>3 DEF TypeOK, ApprovalState
  <2> HIDE DEF l
  <2>4. SameRecords
    BY <1>1, <1>3, <2>2, <2>3, LeaseSet
  <2> QED
    BY <1>2, <2>1, <2>4, QuietStopped
<1> QED
  BY <1>4, <1>5

LEMMA ReadRound == ASSUME KeepInv, RoundState, NEW m \in Managers, ReadRun(m) PROVE RoundState'
<1>1. /\ TypeOK /\ HolderInv /\ LoopInv /\ ApplyInv /\ act[m].at = "read" /\ Holds(m)
      /\ UNCHANGED <<status, owner, round, node, decided, exec>>
  BY DEF KeepInv, RoundState, Holds, ReadRun, At, runVars
<1>2. CASE status \notin Active
  BY <1>1, <1>2, TerminalRound DEF ReadRun
<1>3. CASE status \in Active
  <2>1. /\ act' = [act EXCEPT ![m].at = "patch", ![m].owner = owner, ![m].inst = node.inst]
        /\ approval' = approval
    BY <1>3 DEF ReadRun
  <2>2. owner \in Nat /\ node.inst \in 1..Rounds
    BY <1>1 DEF TypeOK
  <2>3. Moved(m, "patch") /\ act'[m].owner = owner /\ act'[m].inst = node.inst
    BY <1>1, <2>1, <2>2, ReadSet
  <2>4. Going /\ node.inst = round /\ ApplyOK(m)
    BY <1>1, <1>3 DEF Going, Active, LoopInv, ApplyInv
  <2>5. ApplyOK(m)'
    BY <1>1, <2>3, <2>4 DEF ApplyOK, Moved
  <2>6. RunQuiet
    BY <1>1 DEF RunQuiet, LoopInv
  <2> QED
    BY <1>1, <2>1, <2>3, <2>5, <2>6, SameStay, QuietMoved DEF Listing
<1> QED
  BY <1>2, <1>3

LEMMA PatchRound == ASSUME KeepInv, RoundState, NEW m \in Managers, PatchNode(m) PROVE RoundState'
<1> DEFINE i == act[m].id
<1>1. /\ TypeOK /\ HolderInv /\ LoopInv /\ ApplyInv /\ act[m].at = "patch" /\ Holds(m)
      /\ UNCHANGED <<owner, round, decided, exec>>
  BY DEF KeepInv, RoundState, Holds, PatchNode, At
<1>2. /\ i \in Ids /\ approval[i].status \in {"approved", "rejected"} /\ Taken(i)
      /\ act[m].approved = (approval[i].status = "approved") /\ act[m].how # "retry"
  BY <1>1, HolderIds
<1>3. CASE status \notin Active
  BY <1>1, <1>3, TerminalRound DEF PatchNode
<1>4. CASE status \in Active
  <2> DEFINE l == IF act[m].approved THEN "resume" ELSE "finalize"
  <2>1. Going /\ ApplyOK(m)
    BY <1>1, <1>4 DEF Going, Active, ApplyInv
  <2>2. i = round /\ ~node.done /\ act[m].inst = round /\ act[m].owner = owner
    BY <1>1, <2>1 DEF ApplyOK
  <2>3. status = "waiting" /\ exec.at # "parked" /\ exec.at # "running"
    BY <1>1, <1>2, <1>4, <2>1, <2>2 DEF LoopInv, Active
  <2>4. /\ node' = [inst |-> round, done |-> TRUE, by |-> round] /\ approval' = approval
        /\ status' = IF act[m].approved THEN "waiting" ELSE "failed"
        /\ Goto(m, l) /\ l \in Labels
    BY <1>2, <1>4, <2>2, <2>3 DEF PatchNode, Labels
  <2>5. Moved(m, l) /\ act'[m].owner = act[m].owner
    BY <1>1, <2>4, Moves
  <2>6. node'.inst = round /\ node'.done /\ node'.by = round
    BY <2>4
  <2>7. l \in {"resume", "finalize"}
    OBVIOUS
  <2> HIDE DEF l
  <2>8. /\ act'[m].at = l /\ act'[m].id = i /\ act'[m].how = act[m].how
        /\ act'[m].approved = act[m].approved /\ OthersAct(m)
    BY <2>5 DEF Moved
  <2>9. HolderInv'
    <3>1. HolderOK(m)'
      BY <1>2, <2>4, <2>7, <2>8 DEF HolderOK, Holds, Listing
    <3>2. \A n \in Managers : n # m /\ Holds(n) => act[n].id # act'[m].id
      BY <1>1, <2>8 DEF HolderInv
    <3> QED
      BY <1>1, <2>4, <2>8, <3>1, <3>2, HolderStep
  <2>10. LoopInv'
    <3>1. Going' => approval[round].status = "approved"
      BY <1>2, <2>2, <2>4 DEF Going
    <3>2. \A j \in Ids : Taken(j)' <=> Taken(j)
      BY <2>4 DEF Taken
    <3>3. \A r \in 1..Rounds : decided[r] # 0 => decided[r] = r /\ Taken(r)'
      BY <1>1, <2>4 DEF LoopInv, Taken
    <3>4. \A j \in 1..(round - 1) : approval[j].status = "approved"
      BY <1>1, <2>1 DEF LoopInv
    <3>5. \A j \in Ids : Taken(j)' => approval[j].inst = j
      BY <1>1, <3>2 DEF LoopInv
    <3>6. status' # "pending"
      BY <2>4
    <3> QED
      BY <1>1, <2>3, <2>4, <2>6, <3>1, <3>3, <3>4, <3>5, <3>6 DEF LoopInv
  <2>11. ApplyInv'
    <3>1. SUFFICES ASSUME Going', NEW n \in Managers PROVE ApplyOK(n)'
      BY DEF ApplyInv
    <3>2. status' = "waiting"
      BY <2>4, <3>1 DEF Going
    <3>3. CASE n = m
      BY <1>1, <2>2, <2>5, <2>6, <2>7, <2>8, <3>2, <3>3 DEF ApplyOK
    <3>4. CASE n # m
      <4>1. act'[n] = act[n]
        BY <2>8, <3>4 DEF OthersAct
      <4>2. ApplyOK(n) /\ (Holds(n) => act[n].id # round)
        BY <1>1, <2>1, <2>2, <3>4 DEF ApplyInv, HolderInv
      <4>3. act[n].at \notin {"read", "patch", "resume", "resumeOnly"}
        BY <2>2, <4>2 DEF ApplyOK, Holds
      <4> QED
        BY <4>1, <4>3 DEF ApplyOK
    <3> QED
      BY <3>3, <3>4
  <2> QED
    BY <2>9, <2>10, <2>11 DEF RoundState
<1> QED
  BY <1>3, <1>4

LEMMA FailRound == ASSUME KeepInv, RoundState, NEW m \in Managers, FailRun(m) PROVE RoundState'
<1>1. /\ TypeOK /\ LoopInv /\ act[m].at = "failRun" /\ Holds(m)
      /\ UNCHANGED <<owner, round, node, decided, exec, approval>>
  BY DEF KeepInv, RoundState, Holds, FailRun, At
<1>2. RunQuiet
  BY <1>1 DEF RunQuiet, Going, FailRun, LoopInv
<1>3. CASE status = "failed"
  <2>1. Stopped(m)
    BY <1>1, <1>3, Moves DEF FailRun, Labels
  <2> QED
    BY <1>1, <1>2, <2>1, SameStay, QuietStopped
<1>4. CASE status # "failed"
  <2>1. Moved(m, "finalize")
    BY <1>1, <1>4, Moves DEF FailRun, Labels
  <2>2. ApplyOK(m)'
    BY <2>1 DEF Moved, ApplyOK
  <2> QED
    BY <1>1, <1>2, <2>1, <2>2, SameStay, QuietMoved DEF Listing
<1> QED
  BY <1>3, <1>4

(* The run goes on once, for the decision of its round.                    *)
LEMMA ResumeRound ==
  ASSUME KeepInv, RoundState, NEW m \in Managers, Resume(m) \/ ResumeOnly(m)
  PROVE  RoundState'
<1>1. /\ TypeOK /\ HolderInv /\ LoopInv /\ ApplyInv /\ act[m].at \in {"resume", "resumeOnly"} /\ Holds(m)
      /\ UNCHANGED <<owner, round, node, decided, approval>>
  BY DEF KeepInv, RoundState, Holds, Resume, ResumeOnly, At
<1>2. status \in Active => /\ Going /\ act[m].id = round /\ node.done /\ status = "waiting"
                           /\ act[m].owner = owner
  BY <1>1 DEF Active, Going, ApplyInv, ApplyOK
<1>3. CASE Stop(m) /\ UNCHANGED <<exec, status>>
  <2>1. Stopped(m)
    BY <1>1, <1>3, Moves DEF Labels
  <2>2. RunQuiet
    BY <1>1, <1>3 DEF RunQuiet, LoopInv
  <2> QED
    BY <1>1, <2>1, <2>2, SameStay, QuietStopped
<1>4. CASE status \in Active /\ exec' = [at |-> "running", by |-> m] /\ status' = "running"
           /\ Goto(m, "executing")
  <2>1. Moved(m, "executing")
    BY <1>1, <1>4, Moves DEF Labels
  <2>2. /\ act'[m].at = "executing" /\ act'[m].id = act[m].id /\ act'[m].how = act[m].how
        /\ act'[m].approved = act[m].approved /\ OthersAct(m) /\ exec'.at = "running"
    BY <1>4, <2>1 DEF Moved
  <2>3. HolderInv'
    <3>1. HolderOK(m)'
      BY <1>1, <2>2, HolderIds DEF HolderOK, Holds, Listing
    <3>2. \A n \in Managers : n # m /\ Holds(n) => act[n].id # act'[m].id
      BY <1>1, <2>2 DEF HolderInv
    <3> QED
      BY <1>1, <2>2, <3>1, <3>2, HolderStep
  <2>4. LoopInv'
    BY <1>1, <1>2, <1>4, <2>2 DEF LoopInv, Taken
  <2>5. \A n \in Managers : act'[n].at \notin {"read", "patch", "resume", "resumeOnly"}
    <3>1. SUFFICES ASSUME NEW n \in Managers, n # m
                   PROVE  act[n].at \notin {"read", "patch", "resume", "resumeOnly"}
      BY <2>2 DEF OthersAct
    <3>2. ApplyOK(n) /\ (Holds(n) => act[n].id # round)
      BY <1>1, <1>2, <1>4, <3>1 DEF ApplyInv, HolderInv
    <3> QED
      BY <1>2, <1>4, <3>2 DEF ApplyOK, Holds
  <2>6. ApplyInv'
    BY <2>5 DEF ApplyInv, ApplyOK
  <2> QED
    BY <2>3, <2>4, <2>6 DEF RoundState
<1> QED
  BY <1>2, <1>3, <1>4 DEF Resume, ResumeOnly

LEMMA CheckRound ==
  ASSUME KeepInv, RoundState, NEW m \in Managers, CheckClaim(m) \/ Executed(m)
  PROVE  RoundState'
<1> DEFINE i == act[m].id
<1>1. /\ TypeOK /\ HolderInv /\ LoopInv /\ act[m].at \in {"check", "executing"} /\ Holds(m)
      /\ UNCHANGED <<status, owner, round, node, decided, exec, approval>>
  BY DEF KeepInv, RoundState, Holds, CheckClaim, Executed, At, runVars
<1>2. RunQuiet /\ SameRecords
  BY <1>1, SameStay DEF RunQuiet, LoopInv
<1>3. Going /\ SameWait(i) => i = round
  BY <1>1, HolderIds DEF LoopInv, SameWait
<1>4. CASE Goto(m, "finalize")
  <2>1. Moved(m, "finalize")
    BY <1>1, <1>4, Moves DEF Labels
  <2>2. ApplyOK(m)'
    BY <2>1 DEF Moved, ApplyOK
  <2> QED
    BY <1>1, <1>2, <2>1, <2>2, QuietMoved DEF Listing
<1>5. CASE SameWait(i) /\ ~node.done /\ Goto(m, "read")
  <2>1. Moved(m, "read")
    BY <1>1, <1>5, Moves DEF Labels
  <2>2. Going' => ApplyOK(m)'
    BY <1>1, <1>3, <1>5, <2>1 DEF Moved, ApplyOK, Going
  <2> QED
    BY <1>1, <1>2, <2>1, <2>2, QuietMoved DEF Listing
<1>6. CASE SameWait(i) /\ node.done /\ status = "waiting"
           /\ act' = [act EXCEPT ![m].at = "resumeOnly", ![m].owner = owner]
  <2>1. owner \in Nat
    BY <1>1 DEF TypeOK
  <2>2. Moved(m, "resumeOnly") /\ act'[m].owner = owner
    BY <1>1, <1>6, <2>1, Moves DEF Labels
  <2>3. Going' => ApplyOK(m)'
    BY <1>1, <1>3, <1>6, <2>2 DEF Moved, ApplyOK, Going
  <2> QED
    BY <1>1, <1>2, <2>2, <2>3, QuietMoved DEF Listing
<1>7. CASE Executed(m)
  BY <1>4, <1>7 DEF Executed
<1>8. CASE CheckClaim(m)
  BY <1>4, <1>5, <1>6, <1>8 DEF CheckClaim
<1> QED
  BY <1>7, <1>8

LEMMA EndRound == ASSUME KeepInv, RoundState, NEW m \in Managers, Finalize(m) \/ Crash(m) PROVE RoundState'
<1> DEFINE i == act[m].id
<1>1. /\ TypeOK /\ ActOK(m) /\ LoopInv /\ UNCHANGED <<status, owner, round, node, decided>> /\ Stop(m)
      /\ exec' \in {exec, NoExec}
  BY DEF KeepInv, ActInv, RoundState, Finalize, Crash, runVars
<1>2. RunQuiet
  BY <1>1 DEF RunQuiet, LoopInv, NoExec
<1>3. Stopped(m)
  BY <1>1, Moves DEF Labels
<1>4. CASE approval' = approval
  BY <1>1, <1>2, <1>3, <1>4, SameStay, QuietStopped
<1>5. CASE approval' # approval
  <2>1. Finalize(m) /\ i \in Ids
    BY <1>1, <1>5 DEF Crash, ActOK, Finalize, At, Listing
  <2>2. approval' = [approval EXCEPT ![i].claim = FALSE, ![i].lease = None]
    BY <1>5, <2>1 DEF Finalize
  <2>3. SameRecords
    BY <1>1, <2>1, <2>2, RecordSet
  <2> QED
    BY <1>2, <1>3, <2>3, QuietStopped
<1> QED
  BY <1>4, <1>5

LEMMA RoundStep == ASSUME ~Overtakes PROVE KeepInv /\ RoundInv /\ [Next]_vars => RoundInv'
<1>1. SUFFICES ASSUME KeepInv, RoundInv, [Next]_vars, retries' = 0 PROVE RoundState'
  BY DEF RoundInv
<1>2. CASE \E m \in Managers : Retry(m)
  <2>1. retries \in Nat /\ retries' = retries + 1
    BY <1>1, <1>2, Bounds DEF KeepInv, TypeOK, Retry
  <2> QED
    BY <1>1, <2>1
<1>3. CASE ~\E m \in Managers : Retry(m)
  <2>1. retries = 0
    <3>1. CASE RunsOn \/ Fails \/ Cancel \/ UNCHANGED vars
      BY <1>1, <3>1 DEF RunsOn, Execute, ExecutionEnds, CreateApproval, WorkerClaim, Fails, Cancel,
         vars, limits
    <3>2. ASSUME NEW m \in Managers, Manage(m) PROVE retries' = retries
      BY <3>2 DEF Manage, UpdateApproval, FailRun, ReadRun, PatchNode, Resume, Executed, Finalize,
         CheckClaim, ResumeOnly, RetryList, RetryNext, RetryFinalize, RetryRun, limits
    <3>3. ASSUME NEW m \in Managers, Crash(m) PROVE retries' = retries
      BY <3>3 DEF Crash
    <3>4. ASSUME NEW m \in Managers, NEW i \in Ids,
                 Expire(m, i) \/ Reserve(m, i) \/ \E ok \in BOOLEAN : Decide(m, i, ok)
          PROVE  retries' = retries
      BY <3>4 DEF Expire, Reserve, Decide, limits
    <3> QED
      BY <1>1, <1>3, <3>1, <3>2, <3>3, <3>4 DEF Next
  <2>2. RoundState /\ KeepInv
    BY <1>1, <2>1 DEF RoundInv
  <2>3. CASE RunsOn \/ Fails \/ Cancel \/ UNCHANGED vars
    BY <2>2, <2>3, ExecuteRound, CreateRound, WorkerRound, RunRound DEF RunsOn
  <2>4. ASSUME NEW m \in Managers, Manage(m) PROVE RoundState'
    <3>1. ~(RetryList(m) \/ RetryNext(m) \/ RetryFinalize(m) \/ RetryRun(m))
      BY <2>2 DEF RoundState, HolderInv, HolderOK, Listing, RetryList, RetryNext, RetryFinalize,
         RetryRun, At
    <3> QED
      BY <2>2, <2>4, <3>1, UpdateRound, FailRound, ReadRound, PatchRound, ResumeRound, CheckRound,
         EndRound DEF Manage
  <2>5. ASSUME NEW m \in Managers, Crash(m) PROVE RoundState'
    BY <2>2, <2>5, EndRound
  <2>6. ASSUME NEW m \in Managers, NEW i \in Ids,
               Expire(m, i) \/ Reserve(m, i) \/ \E ok \in BOOLEAN : Decide(m, i, ok)
        PROVE  RoundState'
    BY <2>2, <2>6, StartRound
  <2> QED
    BY <1>1, <1>3, <2>3, <2>4, <2>5, <2>6 DEF Next
<1> QED
  BY <1>2, <1>3

LEMMA RoundInit == Init => RoundInv
<1>1. SUFFICES ASSUME Init PROVE RoundState
  BY DEF RoundInv
<1>2. TypeOK
  BY <1>1, KeepInit DEF KeepInv
<1>3. 1 \in Ids /\ approval[1].status = "pending" /\ approval[1].inst = 1
      /\ \A i \in Ids : i # 1 => approval[i].status = "none"
  BY <1>1, Bounds DEF Init, NoApproval, Ids
<1>4. /\ status = "waiting" /\ round = 1 /\ node.inst = 1 /\ ~node.done /\ exec.at = "none"
      /\ \A r \in 1..Rounds : decided[r] = 0
      /\ \A m \in Managers : act[m].at = "idle"
  BY <1>1 DEF Init, NoExec, Idle
<1>5. 1..(round - 1) = {}
  BY <1>4
<1>6. LoopInv
  BY <1>3, <1>4, <1>5 DEF LoopInv, Taken
<1>7. HolderInv /\ ApplyInv
  BY <1>4 DEF HolderInv, HolderOK, Holds, Listing, ApplyInv, ApplyOK
<1> QED
  BY <1>6, <1>7 DEF RoundState

LEMMA RoundsKept == ASSUME ~Overtakes PROVE Spec => [](KeepInv /\ RoundInv)
<1>1. KeepInv /\ RoundInv /\ [Next]_vars => (KeepInv /\ RoundInv)'
  BY KeepStep, RoundStep
<1> QED
  BY <1>1, KeepInit, RoundInit, PTL DEF Spec

(* Every round of a run that nobody retries goes on with the decision of   *)
(* its own approval, as long as no claim is taken from a manager at work:  *)
(* whatever crashes, recoveries, failures and cancellations come between.  *)
THEOREM EachRoundDecided == ASSUME ~Overtakes PROVE Spec => []OwnDecision
<1>1. KeepInv /\ RoundInv => OwnDecision
  <2>1. SUFFICES ASSUME KeepInv, RoundInv, retries = 0, NEW r \in 1..Rounds, decided[r] # 0
                 PROVE  approval[decided[r]].inst = r
    BY DEF OwnDecision
  <2>2. LoopInv /\ r \in Ids
    BY <2>1, RoundIds DEF RoundInv, RoundState, KeepInv
  <2> QED
    BY <2>1, <2>2 DEF LoopInv
<1> QED
  BY <1>1, RoundsKept, PTL

(* Under the same conditions a run does not complete past a rejection.     *)
THEOREM RejectedStays == ASSUME ~Overtakes PROVE Spec => []RejectionStops
<1>1. KeepInv /\ RoundInv => RejectionStops
  <2>1. SUFFICES ASSUME KeepInv, RoundInv, status = "completed", retries = 0,
                        NEW i \in Ids, approval[i].status = "rejected"
                 PROVE  FALSE
    BY DEF RejectionStops
  <2>2. LoopInv /\ Going /\ Taken(i)
    BY <2>1 DEF RoundInv, RoundState, Going, Taken
  <2>3. i = round
    BY <2>1, <2>2, ThisRound
  <2> QED
    BY <2>1, <2>2, <2>3 DEF LoopInv
<1> QED
  BY <1>1, RoundsKept, PTL
=============================================================================
