-------------------------- MODULE EventWaitsProofs --------------------------
(***************************************************************************)
(* Proofs about event waits, for any number of publishers, background      *)
(* activities, wait nodes and retries.  First what holds whatever fails    *)
(* and whoever overtakes whom: TypeInv, the types and what the label of an *)
(* actor says of the rest of its state, and MailInv, the order of the      *)
(* mailbox.  Then OrderlyInv, for executions in which no claim is taken    *)
(* from a holder at work and no call has an uncertain effect: who has a    *)
(* claim in hand, which node it is for, and what a recovery has listed.    *)
(* No event is lost or delivered twice, and outcomes are final.  Last what *)
(* publishEvent may answer: Succ, what an actor has behind it when its     *)
(* state changes, and two invariants for when the answer can be trusted.   *)
(***************************************************************************)
EXTENDS EventWaits, SequenceTheorems, FiniteSetTheorems,
        WellFoundedInduction, TLAPS

---------------------------------------------------------------------------
(* Types and labels, whatever fails and whoever overtakes whom             *)

\* Where publishEvent is outside of its drain, where the recovery of a drain
\* is, where a wait is in hand, an event with it, or none.
PublishLabels == {"idle", "append", "reread", "drain", "judge", "readNode",
                  "readReceipt", "latest", "remove", "done"}
RecoverLabels == {"recover", "inspect", "restore", "finalize", "discard",
                  "finTimed", "restTimed"}
WaitLabels == {"inspect", "restore", "deliver", "patch", "resume", "retire",
               "cancel", "finalize", "discard", "rollback", "retry", "check",
               "resolve", "expired", "failRead", "failCas", "finTimed",
               "restTimed"}
EventLabels == {"restore", "finalize", "discard", "rollback"}
FreeLabels == {"append", "reread", "drain", "recover", "scan", "pass", "check",
               "resolve", "expired", "failRead", "failCas", "finTimed",
               "restTimed"}

(* What the label of an actor says of the rest of its state.  A publisher  *)
(* never starts over: its event is appended once.                          *)
TaskOK(t, a) ==
  /\ a \in TaskState
  /\ a.pc \notin {"idle", "done"} => a.home \in alive
  /\ a.pc \in WaitLabels => a.cur \in Waits
  /\ a.pc \in EventLabels => a.ev \in Publishers
  /\ a.pc \in FreeLabels => a.ev = None
  /\ a.pc = "recover" => a.pass = "recovering"
  /\ a.pc \in {"scan", "pass"} => a.pass = "passing"
  /\ a.pc \in {"check", "retry"} => a.pass = "no"
  /\ a.pass = "recovering" => a.pc \in RecoverLabels
  /\ t \in Publishers /\ a.pass = "no" => a.pc \in PublishLabels
  /\ t \in Publishers /\ a.pc \in {"idle", "append"} => order[t] = 0

TasksOK == \A t \in Tasks : TaskOK(t, task[t])

Appended == {x \in Publishers : order[x] > 0}

CountInv ==
  /\ \A n \in Nodes : node[n].inst <= retried + 1
  /\ \A e \in Publishers : order[e] <= Cardinality(Appended)

TypeInv == TypeOK /\ TasksOK /\ CountInv

LEMMA RemoveAtProps ==
  ASSUME NEW S, NEW s \in Seq(S), NEW i \in 1..Len(s)
  PROVE  /\ RemoveAt(s, i) \in Seq(S)
         /\ Len(RemoveAt(s, i)) = Len(s) - 1
         /\ \A j \in 1..(Len(s) - 1) :
              RemoveAt(s, i)[j] = IF j < i THEN s[j] ELSE s[j + 1]
<1> DEFINE a == SubSeq(s, 1, i - 1)
           b == SubSeq(s, i + 1, Len(s))
<1>1. /\ a \in Seq(S) /\ Len(a) = i - 1
      /\ \A j \in 1..(i - 1) : a[j] = s[j]
  BY SubSeqProperties, LenProperties
<1>2. /\ b \in Seq(S) /\ Len(b) = Len(s) - i
      /\ \A j \in 1..(Len(s) - i) : b[j] = s[i + j]
  BY SubSeqProperties, LenProperties
<1>3. RemoveAt(s, i) = a \o b
  BY DEF RemoveAt
<1>4. Len(s) \in Nat
  BY LenProperties
<1> HIDE DEF a, b
<1>5. /\ a \o b \in Seq(S) /\ Len(a \o b) = Len(a) + Len(b)
      /\ \A j \in 1..(Len(a) + Len(b)) :
           (a \o b)[j] = IF j <= Len(a) THEN a[j] ELSE b[j - Len(a)]
  BY <1>1, <1>2, ConcatProperties
<1>6. ASSUME NEW j \in 1..(Len(s) - 1)
      PROVE  (a \o b)[j] = IF j < i THEN s[j] ELSE s[j + 1]
  <2>1. CASE j < i
    BY <1>1, <1>2, <1>4, <1>5, <2>1
  <2>2. CASE ~(j < i)
    <3>0. j >= i
      BY <1>4, <2>2
    <3>1. (a \o b)[j] = b[j - (i - 1)]
      <4>1. /\ ~(j <= Len(a)) /\ j \in 1..(Len(a) + Len(b))
        BY <1>1, <1>2, <1>4, <3>0
      <4>2. (a \o b)[j] = b[j - Len(a)]
        BY <1>5, <4>1
      <4> QED
        BY <1>1, <4>2
    <3>2. j - (i - 1) \in 1..(Len(s) - i)
      BY <1>4, <3>0
    <3> QED
      BY <1>2, <1>4, <2>2, <3>1, <3>2
  <2> QED
    BY <2>1, <2>2
<1> QED
  BY <1>1, <1>2, <1>3, <1>4, <1>5, <1>6

LEMMA InsertAtProps ==
  ASSUME NEW S, NEW s \in Seq(S), NEW i \in 1..(Len(s) + 1), NEW e \in S
  PROVE  /\ InsertAt(s, i, e) \in Seq(S)
         /\ Len(InsertAt(s, i, e)) = Len(s) + 1
         /\ \A j \in 1..(Len(s) + 1) :
              InsertAt(s, i, e)[j] =
                IF j < i THEN s[j] ELSE IF j = i THEN e ELSE s[j - 1]
<1> DEFINE a == SubSeq(s, 1, i - 1)
           b == SubSeq(s, i, Len(s))
           m == a \o <<e>>
<1>1. /\ a \in Seq(S) /\ Len(a) = i - 1
      /\ \A j \in 1..(i - 1) : a[j] = s[j]
  BY SubSeqProperties, LenProperties
<1>2. /\ b \in Seq(S) /\ Len(b) = Len(s) + 1 - i
      /\ \A j \in 1..(Len(s) + 1 - i) : b[j] = s[i + j - 1]
  BY SubSeqProperties, LenProperties
<1>3. InsertAt(s, i, e) = m \o b
  BY DEF InsertAt
<1>4. Len(s) \in Nat
  BY LenProperties
<1> HIDE DEF a, b
<1>5. /\ m \in Seq(S) /\ Len(m) = i
      /\ \A j \in 1..i : m[j] = IF j < i THEN s[j] ELSE e
  <2>1. <<e>> \in Seq(S) /\ Len(<<e>>) = 1 /\ <<e>>[1] = e
    OBVIOUS
  <2> QED
    BY <1>1, <2>1, ConcatProperties, LenProperties
<1> HIDE DEF m
<1>6. /\ m \o b \in Seq(S) /\ Len(m \o b) = Len(m) + Len(b)
      /\ \A j \in 1..(Len(m) + Len(b)) :
           (m \o b)[j] = IF j <= Len(m) THEN m[j] ELSE b[j - Len(m)]
  BY <1>2, <1>5, ConcatProperties
<1>7. ASSUME NEW j \in 1..(Len(s) + 1)
      PROVE  (m \o b)[j] = IF j < i THEN s[j] ELSE IF j = i THEN e ELSE s[j - 1]
  <2>1. CASE j <= i
    BY <1>2, <1>4, <1>5, <1>6, <2>1
  <2>2. CASE ~(j <= i)
    <3>0. j > i
      BY <1>4, <2>2
    <3>1. (m \o b)[j] = b[j - i]
      <4>1. ~(j <= Len(m)) /\ j \in 1..(Len(m) + Len(b))
        BY <1>2, <1>4, <1>5, <3>0
      <4>2. (m \o b)[j] = b[j - Len(m)]
        BY <1>6, <4>1
      <4> QED
        BY <1>5, <4>2
    <3>2. j - i \in 1..(Len(s) + 1 - i)
      BY <1>4, <3>0
    <3> QED
      BY <1>2, <1>4, <3>0, <3>1, <3>2
  <2> QED
    BY <2>1, <2>2
<1> QED
  BY <1>2, <1>3, <1>4, <1>5, <1>6, <1>7

LEMMA InRange ==
  ASSUME NEW S, NEW s \in Seq(S), NEW e
  PROVE  e \in Range(s) <=> \E j \in 1..Len(s) : s[j] = e
BY DEF Range

(* A set of positions that is not empty has an oldest one.                 *)
LEMMA OldestIs ==
  ASSUME NEW P \in SUBSET Nat, P # {}
  PROVE  Oldest(P) \in P /\ \A j \in P : Oldest(P) <= j
<1> DEFINE R == OpToRel(<, Nat)
<1>1. R = {x \in Nat \X Nat : x[1] < x[2]}
  BY DEF OpToRel
<1>2. IsWellFoundedOn(R, Nat)
  BY NatLessThanWellFounded
<1> HIDE DEF R
<1>3. PICK i \in P : \A j \in P : <<j, i>> \notin R
  BY <1>2, WFMin
<1>4. ASSUME NEW j \in P PROVE i <= j
  <2>1. i \in Nat /\ j \in Nat
    OBVIOUS
  <2>2. ~(j < i)
    <3> SUFFICES ASSUME j < i PROVE <<j, i>> \in R
      BY <1>3
    <3> QED
      BY <1>1, <2>1
  <2> QED
    BY <2>1, <2>2
<1> QED
  BY <1>4 DEF Oldest

---------------------------------------------------------------------------
(* The operators on the store keep its types.                              *)

LEMMA RecordType ==
  ASSUME MailboxTypeOK, NEW w \in Waits
  PROVE  /\ rec[w] \in [st : {"none", "pending", "delivered", "expired",
                              "cancelled"},
                        ev : Publishers \cup {None}, age : Ages]
         /\ Reopened(w) \in [st : {"none", "pending", "delivered", "expired",
                                   "cancelled"},
                             ev : Publishers \cup {None}, age : Ages]
BY DEF MailboxTypeOK, Reopened, Ages

LEMMA PositionsOK ==
  ASSUME MailboxTypeOK
  PROVE  /\ DOMAIN mailbox = 1..Len(mailbox) /\ Len(mailbox) \in Nat
         /\ \A i \in DOMAIN mailbox : mailbox[i] \in Publishers
         /\ \A P \in SUBSET (DOMAIN mailbox) : P # {} =>
              /\ Oldest(P) \in P /\ Oldest(P) \in 1..Len(mailbox)
              /\ \A j \in P : Oldest(P) <= j
<1>1. mailbox \in Seq(Publishers)
  BY DEF MailboxTypeOK
<1>2. DOMAIN mailbox = 1..Len(mailbox) /\ Len(mailbox) \in Nat
  BY <1>1, LenProperties
<1>3. \A i \in DOMAIN mailbox : mailbox[i] \in Publishers
  BY <1>1, <1>2, ElementOfSeq
<1>4. ASSUME NEW P \in SUBSET (DOMAIN mailbox), P # {}
      PROVE  /\ Oldest(P) \in P /\ Oldest(P) \in 1..Len(mailbox)
             /\ \A j \in P : Oldest(P) <= j
  <2>1. P \in SUBSET Nat
    BY <1>2
  <2>2. Oldest(P) \in P /\ \A j \in P : Oldest(P) <= j
    BY <1>4, <2>1, OldestIs
  <2> QED
    BY <1>2, <2>2
<1> QED
  BY <1>2, <1>3, <1>4

LEMMA PutBackType ==
  ASSUME MailboxTypeOK, NEW e \in Publishers
  PROVE  PutBack(e) \in Seq(Publishers)
<1> DEFINE later == {i \in DOMAIN mailbox : order[mailbox[i]] > order[e]}
           i == IF later = {} THEN Len(mailbox) + 1 ELSE Oldest(later)
<1>1. mailbox \in Seq(Publishers)
  BY DEF MailboxTypeOK
<1>2. i \in 1..(Len(mailbox) + 1)
  <2>1. CASE later = {}
    BY <2>1, PositionsOK
  <2>2. CASE later # {}
    <3>1. later \in SUBSET (DOMAIN mailbox)
      OBVIOUS
    <3>2. Oldest(later) \in 1..Len(mailbox) /\ Len(mailbox) \in Nat
      <4> HIDE DEF later
      <4> QED
        BY <2>2, <3>1, PositionsOK
    <3>3. i = Oldest(later)
      BY <2>2
    <3> QED
      BY <3>2, <3>3
  <2> QED
    BY <2>1, <2>2
<1>3. InsertAt(mailbox, i, e) \in Seq(Publishers)
  <2> HIDE DEF i
  <2> QED
    BY <1>1, <1>2, InsertAtProps
<1> QED
  BY <1>3 DEF PutBack

LEMMA WithoutType ==
  ASSUME MailboxTypeOK, NEW e \in Publishers
  PROVE  Without(e) \in Seq(Publishers)
<1> DEFINE entries == {i \in DOMAIN mailbox : mailbox[i] = e}
<1>1. mailbox \in Seq(Publishers)
  BY DEF MailboxTypeOK
<1>2. CASE entries = {}
  BY <1>1, <1>2 DEF Without
<1>3. CASE entries # {}
  <2>1. Oldest(entries) \in 1..Len(mailbox)
    BY <1>3, PositionsOK
  <2>2. RemoveAt(mailbox, Oldest(entries)) \in Seq(Publishers)
    <3> HIDE DEF entries
    <3> QED
      BY <1>1, <2>1, RemoveAtProps
  <2> QED
    BY <1>3, <2>2 DEF Without
<1> QED
  BY <1>2, <1>3

(* What a call of the store leaves behind: rec, mailbox, claim, receipts.  *)
StoreTypeOK ==
  /\ rec \in [Waits -> [st : {"none", "pending", "delivered", "expired",
                              "cancelled"},
                        ev : Publishers \cup {None}, age : Ages]]
  /\ mailbox \in Seq(Publishers)
  /\ claim \in [Publishers -> Waits \cup {None}]
  /\ receipts \subseteq Publishers

Records == [st : {"none", "pending", "delivered", "expired", "cancelled"},
            ev : Publishers \cup {None}, age : Ages]

LEMMA RecordReplaced ==
  ASSUME StoreTypeOK, NEW w \in Waits, NEW r \in Records,
         rec' = [rec EXCEPT ![w] = r], UNCHANGED <<mailbox, claim, receipts>>
  PROVE  StoreTypeOK'
BY DEF StoreTypeOK, Records

LEMMA RecordAged ==
  ASSUME StoreTypeOK, NEW w \in Waits, NEW a \in Ages,
         rec' = [rec EXCEPT ![w].age = a], UNCHANGED <<mailbox, claim, receipts>>
  PROVE  StoreTypeOK'
<1> DEFINE r == [rec[w] EXCEPT !.age = a]
<1>1. rec[w] \in Records
  BY DEF StoreTypeOK, Records
<1>2. r \in Records
  BY <1>1 DEF Records
<1>3. rec' = [rec EXCEPT ![w] = r]
  OBVIOUS
<1> HIDE DEF r
<1> QED
  BY <1>2, <1>3, RecordReplaced

LEMMA ClaimEventType ==
  ASSUME MailboxTypeOK, NEW w \in Waits, ClaimEvent(w)
  PROVE  StoreTypeOK' /\ rec'[w].ev \in Publishers
<1> DEFINE i == Oldest(Takeable(w))
<1>1. i \in 1..Len(mailbox) /\ mailbox[i] \in Publishers
  BY PositionsOK DEF ClaimEvent, Takeable
<1>2. mailbox \in Seq(Publishers)
  BY DEF MailboxTypeOK
<1>3. /\ mailbox' = RemoveAt(mailbox, i)
      /\ claim' = [claim EXCEPT ![mailbox[i]] = w]
      /\ rec' = [rec EXCEPT ![w] = [st |-> "delivered", ev |-> mailbox[i],
                                    age |-> "new"]]
      /\ receipts' = receipts
  BY DEF ClaimEvent
<1> HIDE DEF i
<1>4. mailbox' \in Seq(Publishers)
  BY <1>1, <1>2, <1>3, RemoveAtProps
<1>5. rec'[w].ev = mailbox[i]
  BY <1>3 DEF MailboxTypeOK
<1> QED
  BY <1>1, <1>3, <1>4, <1>5 DEF MailboxTypeOK, StoreTypeOK, Ages

LEMMA RestoreDeliveryType ==
  ASSUME MailboxTypeOK, NEW w \in Waits, NEW e \in Publishers,
         RestoreDelivery(w, e)
  PROVE  StoreTypeOK'
<1>1. CASE claim[e] # w
  BY <1>1 DEF RestoreDelivery, MailboxTypeOK, StoreTypeOK
<1>2. CASE claim[e] = w
  <2>1. /\ rec' = [rec EXCEPT ![w] = Reopened(w)]
        /\ mailbox' = PutBack(e)
        /\ claim' = [claim EXCEPT ![e] = None]
        /\ receipts' = receipts
    BY <1>2 DEF RestoreDelivery
  <2> QED
    BY <2>1, PutBackType, RecordType DEF MailboxTypeOK, StoreTypeOK
<1> QED
  BY <1>1, <1>2

LEMMA FinalizeDeliveryType ==
  ASSUME MailboxTypeOK, NEW e \in Publishers, NEW d,
         FinalizeDelivery(e, d)
  PROVE  StoreTypeOK'
<1>1. CASE claim[e] = None
  BY <1>1 DEF FinalizeDelivery, MailboxTypeOK, StoreTypeOK
<1>2. CASE claim[e] # None
  <2>1. /\ rec' = [rec EXCEPT ![claim[e]].ev = None, ![claim[e]].age = "none"]
        /\ receipts' = IF d THEN receipts \cup {e} ELSE receipts
        /\ claim' = [claim EXCEPT ![e] = None]
        /\ mailbox' = mailbox
    BY <1>2 DEF FinalizeDelivery
  <2>2. claim[e] \in Waits
    BY <1>2 DEF MailboxTypeOK
  <2>3. rec' \in [Waits -> [st : {"none", "pending", "delivered", "expired",
                              "cancelled"},
                        ev : Publishers \cup {None}, age : Ages]]
    <3> DEFINE w == claim[e]
               r == [rec[w] EXCEPT !.ev = None, !.age = "none"]
    <3>1. r \in [st : {"none", "pending", "delivered", "expired", "cancelled"},
                 ev : Publishers \cup {None}, age : Ages]
      BY <2>2, RecordType DEF Ages
    <3>2. rec' = [rec EXCEPT ![w] = r]
      BY <2>1, <2>2 DEF MailboxTypeOK
    <3> HIDE DEF w, r
    <3> QED
      BY <3>1, <3>2 DEF MailboxTypeOK
  <2> QED
    BY <2>1, <2>3 DEF MailboxTypeOK, StoreTypeOK
<1> QED
  BY <1>1, <1>2

LEMMA StoreOverType ==
  ASSUME MailboxTypeOK, NEW s, StoreOver(s)
  PROVE  StoreTypeOK'
<1> DEFINE settled == IF s = "completed" THEN Claims ELSE {}
<1>1. /\ rec' = [w \in Waits |->
                   IF \E e \in settled : claim[e] = w
                   THEN [rec[w] EXCEPT !.ev = None, !.age = "none"]
                   ELSE rec[w]]
      /\ receipts' = receipts \cup
           {e \in settled : node[NodeOf(claim[e])].st = "completed"}
      /\ mailbox' = <<>>
      /\ claim' = [e \in Publishers |-> None]
  BY DEF StoreOver
<1>2. settled \subseteq Publishers
  BY DEF Claims
<1> HIDE DEF settled
<1>3. rec' \in [Waits -> [st : {"none", "pending", "delivered", "expired",
                              "cancelled"},
                        ev : Publishers \cup {None}, age : Ages]]
  <2>1. ASSUME NEW w \in Waits
        PROVE  [rec[w] EXCEPT !.ev = None, !.age = "none"] \in
                 [st : {"none", "pending", "delivered", "expired",
                        "cancelled"},
                  ev : Publishers \cup {None}, age : Ages]
    BY RecordType DEF Ages
  <2> QED
    BY <1>1, <2>1, RecordType
<1>4. mailbox' \in Seq(Publishers)
  BY <1>1, EmptySeq
<1> QED
  BY <1>1, <1>2, <1>3, <1>4 DEF MailboxTypeOK, StoreTypeOK

---------------------------------------------------------------------------
(* TypeInv, action by action                                               *)

RunTypeOK ==
  /\ status \in {"active", "failed"} \cup Over
  /\ node \in [Nodes -> [st : {"idle", "running", "completed", "failed"},
                         inst : Instances]]
  /\ got \in [Waits -> Publishers \cup {None}]
  /\ order \in [Publishers -> 0..Cardinality(Publishers)]
  /\ due \in BOOLEAN /\ onTime \subseteq Publishers

ManagerTypeOK ==
  /\ alive \subseteq Procs
  /\ timers \subseteq Procs \X Waits \X (Publishers \cup {None})
  /\ heard \subseteq Publishers
  /\ faults \in 0..MaxFaults /\ retried \in 0..MaxRetries

LEMMA TypeParts ==
  TypeOK <=> /\ StoreTypeOK /\ RunTypeOK /\ ManagerTypeOK
             /\ task \in [Tasks -> TaskState]
BY DEF TypeOK, MailboxTypeOK, StoreTypeOK, RunTypeOK, ManagerTypeOK

LEMMA TypePartsNext ==
  ASSUME StoreTypeOK', RunTypeOK', ManagerTypeOK', task' \in [Tasks -> TaskState]
  PROVE  TypeOK'
BY DEF TypeOK, MailboxTypeOK, StoreTypeOK, RunTypeOK, ManagerTypeOK

LEMMA SameStoreType ==
  ASSUME StoreTypeOK, SameStore PROVE StoreTypeOK'
BY DEF StoreTypeOK, SameStore

LEMMA SameRunType ==
  ASSUME TypeOK, CountInv, SameRun, retried' = retried
  PROVE  RunTypeOK' /\ CountInv'
<1>1. RunTypeOK'
  BY TypeParts DEF RunTypeOK, SameRun
<1>2. Appended' = Appended
  BY DEF Appended, SameRun
<1> QED
  BY <1>1, <1>2 DEF CountInv, SameRun

LEMMA UnfaultedType ==
  ASSUME ManagerTypeOK, Unfaulted PROVE ManagerTypeOK'
BY DEF ManagerTypeOK, Unfaulted

(* One actor moves on.                                                     *)
LEMMA TaskStep ==
  ASSUME TypeInv, NEW t \in Tasks, NEW a, TaskOK(t, a), Become(t, a),
         UNCHANGED <<alive, order>>
  PROVE  task' \in [Tasks -> TaskState] /\ TasksOK'
<1>1. a \in TaskState
  BY DEF TaskOK
<1>2. task \in [Tasks -> TaskState]
  BY DEF TypeInv, TypeOK
<1>3. task' = [task EXCEPT ![t] = a]
  BY DEF Become
<1>4. task' \in [Tasks -> TaskState]
  BY <1>1, <1>2, <1>3
<1>5. ASSUME NEW u \in Tasks PROVE TaskOK(u, task[u])'
  <2>1. TaskOK(u, task[u])
    BY DEF TypeInv, TasksOK
  <2>2. task'[u] = IF u = t THEN a ELSE task[u]
    BY <1>2, <1>3
  <2>3. CASE u = t
    BY <2>2, <2>3 DEF TaskOK
  <2>4. CASE u # t
    BY <2>1, <2>2, <2>4 DEF TaskOK
  <2> QED
    BY <2>3, <2>4
<1> QED
  BY <1>4, <1>5 DEF TasksOK

(* ... and the store and the run stay.                                     *)
LEMMA Moved ==
  ASSUME TypeInv, NEW t \in Tasks, NEW a, TaskOK(t, a), Become(t, a),
         SameStore, SameRun, Unfaulted
  PROVE  TypeInv'
<1>1. TypeOK /\ CountInv
  BY DEF TypeInv
<1>2. UNCHANGED <<alive, order, retried>>
  BY DEF SameRun, Unfaulted
<1>3. task' \in [Tasks -> TaskState] /\ TasksOK'
  BY <1>2, TaskStep
<1>4. StoreTypeOK' /\ RunTypeOK' /\ ManagerTypeOK' /\ CountInv'
  BY <1>1, <1>2, TypeParts, SameStoreType, SameRunType, UnfaultedType
<1> QED
  BY <1>3, <1>4, TypePartsNext DEF TypeInv

(* ... and only the store changes, within its types.                       *)
LEMMA MovedStore ==
  ASSUME TypeInv, NEW t \in Tasks, NEW a, TaskOK(t, a), Become(t, a),
         StoreTypeOK', SameRun, Unfaulted
  PROVE  TypeInv'
<1>1. TypeOK /\ CountInv
  BY DEF TypeInv
<1>2. UNCHANGED <<alive, order, retried>>
  BY DEF SameRun, Unfaulted
<1>3. task' \in [Tasks -> TaskState] /\ TasksOK'
  BY <1>2, TaskStep
<1>4. RunTypeOK' /\ ManagerTypeOK' /\ CountInv'
  BY <1>1, <1>2, TypeParts, SameRunType, UnfaultedType
<1> QED
  BY <1>3, <1>4, TypePartsNext DEF TypeInv

LEMMA TaskFields ==
  ASSUME TypeInv, NEW t \in Tasks
  PROVE  /\ task[t] \in TaskState /\ TaskOK(t, task[t])
         /\ task \in [Tasks -> TaskState]
BY DEF TypeInv, TypeOK, TasksOK

LEMMA LabelMembers ==
  {"recover", "pass", "readNode", "scan", "inspect", "judge", "check", "deliver",
   "resolve", "retry", "append", "drain"} \subseteq Labels
BY DEF Labels

LEMMA RestingOK ==
  ASSUME NEW t \in Tasks \ Publishers
  PROVE  TaskOK(t, Resting)
BY DEF TaskOK, Resting, TaskState, Labels, WaitLabels, EventLabels, FreeLabels,
       RecoverLabels, PublishLabels

LEMMA AnswerOK ==
  ASSUME NEW t \in Tasks,
         NEW o \in {"none", "delivered", "kept", "run-terminal", "rejected",
                    "lost"}
  PROVE  TaskOK(t, Answer(t, o))
BY DEF TaskOK, Answer, Resting, TaskState, Labels, WaitLabels, EventLabels,
       FreeLabels, RecoverLabels, PublishLabels

(* A change of the label alone.                                            *)
LEMMA GotoOK ==
  ASSUME TypeInv, NEW t \in Tasks, NEW l \in Labels \ {"idle", "append", "done"},
         task[t].pc \notin {"idle", "done"},
         l \in WaitLabels => Cur(t) \in Waits,
         l \in EventLabels => Ev(t) \in Publishers,
         l \in FreeLabels => Ev(t) = None,
         l = "recover" => task[t].pass = "recovering",
         l \in {"scan", "pass"} => task[t].pass = "passing",
         l \in {"check", "retry"} => task[t].pass = "no",
         task[t].pass = "recovering" => l \in RecoverLabels,
         t \in Publishers /\ task[t].pass = "no" => l \in PublishLabels
  PROVE  TaskOK(t, [task[t] EXCEPT !.pc = l])
<1> DEFINE a == [task[t] EXCEPT !.pc = l]
<1> SUFFICES TaskOK(t, a)
  OBVIOUS
<1>1. task[t] \in TaskState /\ TaskOK(t, task[t])
  BY TaskFields
<1>2. /\ a \in TaskState /\ a.pc = l
      /\ a.home = task[t].home /\ a.cur = task[t].cur /\ a.ev = task[t].ev
      /\ a.pass = task[t].pass
  BY <1>1 DEF TaskState
<1> HIDE DEF a
<1> QED
  BY <1>1, <1>2 DEF TaskOK, Cur, Ev

(* The next wait of the session, or the end of the activity.               *)
LEMMA NextWaitOK ==
  ASSUME TypeInv, NEW t \in Tasks, task[t].pc \notin PublishLabels, NextWait(t)
  PROVE  \E a : TaskOK(t, a) /\ Become(t, a)
<1> DEFINE next(label) == [task[t] EXCEPT !.pc = label, !.cur = None,
                                          !.ev = None]
<1>1. task[t] \in TaskState /\ TaskOK(t, task[t])
  BY TaskFields
<1>2. task[t].pc \notin {"idle", "done"}
  BY DEF PublishLabels
<1>3. ASSUME NEW l \in {"recover", "pass"}
      PROVE  /\ next(l) \in TaskState /\ next(l).pc = l
             /\ next(l).home = task[t].home /\ next(l).cur = None
             /\ next(l).ev = None /\ next(l).pass = task[t].pass
  BY <1>1, LabelMembers DEF TaskState
<1>4. CASE task[t].pass = "recovering"
  <2>1. Become(t, next("recover"))
    BY <1>4 DEF NextWait
  <2>2. TaskOK(t, next("recover"))
    <3> HIDE DEF next
    <3> QED
      BY <1>1, <1>2, <1>3, <1>4
      DEF TaskOK, WaitLabels, EventLabels, FreeLabels, RecoverLabels
  <2> QED
    BY <2>1, <2>2
<1>5. CASE task[t].pass = "passing"
  <2>1. Become(t, next("pass"))
    BY <1>5 DEF NextWait
  <2>2. TaskOK(t, next("pass"))
    <3> HIDE DEF next
    <3> QED
      BY <1>1, <1>2, <1>3, <1>5
      DEF TaskOK, WaitLabels, EventLabels, FreeLabels, RecoverLabels
  <2> QED
    BY <2>1, <2>2
<1>6. CASE task[t].pass = "no"
  <2>1. Become(t, Resting)
    BY <1>6 DEF NextWait
  <2>2. t \notin Publishers
    BY <1>1, <1>6 DEF TaskOK
  <2> QED
    BY <2>1, <2>2, RestingOK
<1> QED
  BY <1>1, <1>4, <1>5, <1>6 DEF TaskState

(* publishEvent                                                            *)

LEMMA PublishType ==
  ASSUME TypeInv, NEW e \in Publishers, NEW p \in Procs, Publish(e, p)
  PROVE  TypeInv'
<1>1. e \in Tasks /\ TaskOK(e, task[e])
  BY TaskFields DEF Tasks
<1>2. CASE status \in Over
  <2>1. TaskOK(e, Answer(e, "run-terminal")) /\ Become(e, Answer(e, "run-terminal"))
    BY <1>1, <1>2, AnswerOK DEF Publish, Ends
  <2>2. SameStore /\ SameRun /\ Unfaulted
    BY <1>2 DEF Publish, SameRun
  <2> QED
    BY <1>1, <2>1, <2>2, Moved
<1>3. CASE status \notin Over
  <2> DEFINE a == [Resting EXCEPT !.pc = "append", !.home = p,
                                  !.seenFailed = (status = "failed")]
  <2>1. Become(e, a) /\ onTime' \in {onTime, onTime \cup {e}}
    BY <1>3 DEF Publish
  <2>2. /\ SameStore /\ Unfaulted /\ UNCHANGED <<status, node, got, due, order>>
        /\ task[e].pc = "idle" /\ p \in alive
    BY DEF Publish, At
  <2>3. /\ a \in TaskState /\ a.pc = "append" /\ a.home = p /\ a.ev = None
        /\ a.pass = "no"
    BY DEF TaskState, Resting, Labels
  <2> HIDE DEF a
  <2>4. TaskOK(e, a)
    BY <1>1, <2>2, <2>3 DEF TaskOK, WaitLabels, EventLabels, FreeLabels,
                            RecoverLabels, PublishLabels
  <2>5. UNCHANGED <<alive, order, retried>>
    BY <2>2 DEF Unfaulted
  <2>6. task' \in [Tasks -> TaskState] /\ TasksOK'
    BY <1>1, <2>1, <2>4, <2>5, TaskStep
  <2>7. StoreTypeOK' /\ ManagerTypeOK'
    BY <2>2, TypeParts, SameStoreType, UnfaultedType DEF TypeInv
  <2>8. RunTypeOK'
    BY <2>1, <2>2, TypeParts DEF TypeInv, RunTypeOK
  <2>9. CountInv'
    BY <2>2, <2>5 DEF TypeInv, CountInv, Appended
  <2> QED
    BY <2>6, <2>7, <2>8, <2>9, TypePartsNext DEF TypeInv
<1> QED
  BY <1>2, <1>3

(* The next publication order is greater than all the others.              *)
LEMMA NextOrder ==
  ASSUME TypeInv, NEW e \in Publishers, order[e] = 0
  PROVE  /\ Cardinality(Appended) \in Nat
         /\ Cardinality(Appended) + 1 <= Cardinality(Publishers)
         /\ Cardinality(Appended \cup {e}) = Cardinality(Appended) + 1
         /\ \A f \in Publishers : order[f] < Cardinality(Appended) + 1
<1>1. IsFiniteSet(Publishers)
  BY MailboxAssumption
<1>2. Appended \subseteq Publishers /\ e \notin Appended
  BY DEF Appended
<1>3. IsFiniteSet(Appended) /\ Cardinality(Appended) \in Nat
  BY <1>1, <1>2, FS_Subset, FS_CardinalityType
<1>4. Cardinality(Appended \cup {e}) = Cardinality(Appended) + 1
  BY <1>2, <1>3, FS_AddElement
<1>5. Cardinality(Appended \cup {e}) <= Cardinality(Publishers)
  BY <1>1, <1>2, FS_Subset
<1>6. \A f \in Publishers : order[f] \in Nat /\ order[f] <= Cardinality(Appended)
  BY <1>1, FS_CardinalityType DEF TypeInv, TypeOK, MailboxTypeOK, CountInv
<1> QED
  BY <1>3, <1>4, <1>5, <1>6

LEMMA AppendRunEventType ==
  ASSUME TypeInv, NEW e \in Publishers, AppendRunEvent(e)
  PROVE  TypeInv'
<1>1. /\ e \in Tasks /\ TaskOK(e, task[e]) /\ task[e] \in TaskState
      /\ task \in [Tasks -> TaskState]
  BY TaskFields DEF Tasks
<1>2. /\ UNCHANGED <<status, node, got, due, onTime>> /\ Unfaulted
      /\ task[e].pc = "append"
  BY DEF AppendRunEvent, At
<1>3. CASE Len(mailbox) + Cardinality(Claims) >= Capacity /\ Ends(e, "rejected")
           /\ SameStore /\ UNCHANGED order
  <2>1. TaskOK(e, Answer(e, "rejected")) /\ Become(e, Answer(e, "rejected"))
    BY <1>1, <1>3, AnswerOK DEF Ends
  <2> QED
    BY <1>1, <1>2, <1>3, <2>1, Moved DEF SameRun
<1>4. CASE Append1(e)
           /\ Goto(e, IF task[e].seenFailed THEN "reread" ELSE "drain")
  <2> DEFINE l == IF task[e].seenFailed THEN "reread" ELSE "drain"
             a == [task[e] EXCEPT !.pc = l]
  <2>1. l \in {"reread", "drain"} /\ task' = [task EXCEPT ![e] = a]
    BY <1>4 DEF Goto, Become
  <2>2. order[e] = 0
    BY <1>1, <1>2 DEF TaskOK
  <2>3. TaskOK(e, a)
    <3> HIDE DEF l
    <3> QED
      BY <1>1, <1>2, <2>1, GotoOK
      DEF TaskOK, Cur, Ev, Labels, WaitLabels, EventLabels, FreeLabels,
          RecoverLabels, PublishLabels
  <2>4. a \in TaskState /\ a.pc = l
    BY <1>1, <2>3 DEF TaskOK, TaskState
  <2> HIDE DEF a, l
  <2>5. /\ mailbox' = Append(mailbox, e)
        /\ order' = [order EXCEPT ![e] = 1 + Cardinality(Appended)]
        /\ UNCHANGED <<rec, claim, receipts>>
    BY <1>4 DEF Append1, Appended
  <2>6. StoreTypeOK'
    BY <2>5, AppendProperties, TypeParts DEF TypeInv, StoreTypeOK
  <2>7. ManagerTypeOK'
    BY <1>2, TypeParts, UnfaultedType DEF TypeInv
  <2>8. /\ order \in [Publishers -> 0..Cardinality(Publishers)]
        /\ Cardinality(Publishers) \in Nat
    BY TypeParts, MailboxAssumption, FS_CardinalityType DEF TypeInv, RunTypeOK
  <2>9. RunTypeOK'
    <3>1. order' \in [Publishers -> 0..Cardinality(Publishers)]
      <4>1. 1 + Cardinality(Appended) \in 0..Cardinality(Publishers)
        <5>1. /\ Cardinality(Appended) \in Nat
              /\ Cardinality(Appended) + 1 <= Cardinality(Publishers)
          BY <2>2, NextOrder
        <5> QED
          BY <2>8, <5>1
      <4> QED
        BY <2>5, <2>8, <4>1
    <3> QED
      BY <1>2, <3>1, TypeParts DEF TypeInv, RunTypeOK
  <2>10. CountInv'
    <3>1. \A f \in Publishers : order'[f] = IF f = e THEN 1 + Cardinality(Appended)
                                            ELSE order[f]
      BY <2>5, <2>8
    <3>2. Appended' = Appended \cup {e}
      <4>1. Cardinality(Appended) \in Nat
        BY <2>2, NextOrder
      <4>2. \A f \in Publishers : order'[f] > 0 <=> (order[f] > 0 \/ f = e)
        BY <2>8, <3>1, <4>1
      <4> QED
        BY <4>2 DEF Appended
    <3>3. \A f \in Publishers : order'[f] <= Cardinality(Appended')
      BY <2>2, <2>8, <3>1, <3>2, NextOrder
    <3> QED
      BY <1>2, <3>3 DEF TypeInv, CountInv, Unfaulted
  <2>11. task' \in [Tasks -> TaskState]
    BY <1>1, <2>1, <2>4
  <2>12. ASSUME NEW u \in Tasks PROVE TaskOK(u, task[u])'
    <3>1. CASE u = e
      <4>1. task'[u] = a
        BY <1>1, <2>1, <3>1
      <4> QED
        BY <1>2, <2>1, <2>3, <2>4, <3>1, <4>1 DEF TaskOK, Unfaulted
    <3>2. CASE u # e
      <4>1. task'[u] = task[u] /\ TaskOK(u, task[u])
        BY <1>1, <2>1, <3>2, TaskFields
      <4>2. u \in Publishers => order'[u] = order[u]
        BY <2>5, <2>8, <3>2
      <4> QED
        BY <1>2, <4>1, <4>2 DEF TaskOK, Unfaulted
    <3> QED
      BY <3>1, <3>2
  <2> QED
    BY <2>6, <2>7, <2>9, <2>10, <2>11, <2>12, TypePartsNext DEF TypeInv, TasksOK
<1> QED
  BY <1>3, <1>4 DEF AppendRunEvent

LEMMA RereadType ==
  ASSUME TypeInv, NEW e \in Publishers, Reread(e)
  PROVE  TypeInv'
<1>1. e \in Tasks /\ TaskOK(e, task[e])
  BY TaskFields DEF Tasks
<1>2. SameStore /\ SameRun /\ Unfaulted /\ task[e].pc = "reread"
  BY DEF Reread, At
<1>3. CASE Ends(e, "kept")
  BY <1>1, <1>2, <1>3, AnswerOK, Moved DEF Ends
<1>4. ASSUME NEW l \in {"remove", "drain"}, Goto(e, l) PROVE TypeInv'
  <2>1. TaskOK(e, [task[e] EXCEPT !.pc = l])
    BY <1>1, <1>2, GotoOK
    DEF TaskOK, Cur, Ev, Labels, WaitLabels, EventLabels, FreeLabels,
        RecoverLabels, PublishLabels
  <2> QED
    BY <1>1, <1>2, <1>4, <2>1, Moved DEF Goto
<1> QED
  BY <1>3, <1>4 DEF Reread

LEMMA JudgeType ==
  ASSUME TypeInv, NEW e \in Publishers, Judge(e)
  PROVE  TypeInv'
<1>1. e \in Tasks /\ TaskOK(e, task[e]) /\ task[e] \in TaskState
  BY TaskFields DEF Tasks
<1>2. SameStore /\ SameRun /\ Unfaulted /\ task[e].pc = "judge"
  BY DEF Judge, At
<1>3. CASE e \in heard
  BY <1>1, <1>2, <1>3, AnswerOK, Moved DEF Judge, Ends
<1>4. CASE e \notin heard
  <2> DEFINE a == [task[e] EXCEPT !.pc = "readNode", !.cur = claim[e], !.ev = e]
  <2>1. Become(e, a)
    BY <1>4 DEF Judge, Take
  <2>2. claim[e] \in Waits \cup {None}
    BY DEF TypeInv, TypeOK, MailboxTypeOK
  <2>3. /\ a \in TaskState /\ a.pc = "readNode" /\ a.home = task[e].home
        /\ a.pass = task[e].pass
    BY <1>1, <2>2, LabelMembers DEF TaskState
  <2> HIDE DEF a
  <2>4. TaskOK(e, a)
    BY <1>1, <1>2, <2>3 DEF TaskOK, WaitLabels, EventLabels, FreeLabels,
                            RecoverLabels, PublishLabels
  <2> QED
    BY <1>1, <1>2, <2>1, <2>4, Moved
<1> QED
  BY <1>3, <1>4

(* hasCommittedEventDelivery and what follows                              *)
LEMMA ReadsType ==
  ASSUME TypeInv, NEW e \in Publishers, ReadNode(e) \/ ReadReceipt(e) \/ Latest(e)
  PROVE  TypeInv'
<1>1. e \in Tasks /\ TaskOK(e, task[e])
  BY TaskFields DEF Tasks
<1>2. /\ SameStore /\ SameRun /\ Unfaulted
      /\ task[e].pc \in {"readNode", "readReceipt", "latest"}
  BY DEF ReadNode, ReadReceipt, Latest, At
<1>3. ASSUME NEW o \in {"delivered", "kept"}, Ends(e, o) PROVE TypeInv'
  BY <1>1, <1>2, <1>3, AnswerOK, Moved DEF Ends
<1>4. ASSUME NEW l \in {"readReceipt", "latest", "remove"}, Goto(e, l)
      PROVE  TypeInv'
  <2>1. TaskOK(e, [task[e] EXCEPT !.pc = l])
    BY <1>1, <1>2, GotoOK
    DEF TaskOK, Cur, Ev, Labels, WaitLabels, EventLabels, FreeLabels,
        RecoverLabels, PublishLabels
  <2> QED
    BY <1>1, <1>2, <1>4, <2>1, Moved DEF Goto
<1> QED
  BY <1>3, <1>4 DEF ReadNode, ReadReceipt, Latest

LEMMA RemoveRunEventType ==
  ASSUME TypeInv, NEW e \in Publishers, RemoveRunEvent(e)
  PROVE  TypeInv'
<1>1. e \in Tasks
  BY DEF Tasks
<1>2. StoreTypeOK'
  BY WithoutType DEF TypeInv, TypeOK, MailboxTypeOK, StoreTypeOK, RemoveRunEvent
<1> QED
  BY <1>1, <1>2, AnswerOK, MovedStore DEF RemoveRunEvent, Ends

(* Background activities and the drain                                     *)

LEMMA RouseOK ==
  ASSUME NEW k \in Keepers, NEW a \in TaskState, a.home \in alive,
         a.pc \in {"drain", "resolve", "retry"}, a.pass = "no",
         a.pc # "drain" => a.cur \in Waits, a.pc # "retry" => a.ev = None
  PROVE  k \in Tasks /\ TaskOK(k, a)
BY WaitsAssumption
DEF Tasks, TaskOK, WaitLabels, EventLabels, FreeLabels, RecoverLabels

LEMMA StartDrainType ==
  ASSUME TypeInv, NEW k \in Keepers, NEW p \in Procs, StartDrain(k, p)
  PROVE  TypeInv'
<1> DEFINE a == [[Resting EXCEPT !.pc = "drain"] EXCEPT !.home = p]
<1>1. /\ a \in TaskState /\ a.pc = "drain" /\ a.home = p /\ a.ev = None
      /\ a.pass = "no"
  BY DEF TaskState, Resting, Labels
<1>2. Become(k, a) /\ SameStore /\ SameRun /\ Unfaulted /\ p \in alive
  BY DEF StartDrain, Rouse
<1> HIDE DEF a
<1>3. k \in Tasks /\ TaskOK(k, a)
  BY <1>1, <1>2, RouseOK
<1> QED
  BY <1>2, <1>3, Moved

LEMMA StartExpiryType ==
  ASSUME TypeInv, NEW k \in Keepers, NEW p \in Procs, NEW w \in Waits,
         StartExpiry(k, p, w)
  PROVE  TypeInv'
<1> DEFINE r == [[Resting EXCEPT !.pc = "resolve", !.cur = w] EXCEPT !.home = p]
           d == [[Resting EXCEPT !.pc = "drain", !.goal = w] EXCEPT !.home = p]
<1>1. /\ r \in TaskState /\ r.pc = "resolve" /\ r.home = p /\ r.ev = None
      /\ r.pass = "no" /\ r.cur = w
  BY DEF TaskState, Resting, Labels
<1>2. /\ d \in TaskState /\ d.pc = "drain" /\ d.home = p /\ d.ev = None
      /\ d.pass = "no"
  BY DEF TaskState, Resting, Labels
<1>3. /\ Become(k, r) \/ Become(k, d)
      /\ SameStore /\ SameRun /\ Unfaulted /\ p \in alive
  BY DEF StartExpiry, Rouse
<1> HIDE DEF r, d
<1>4. k \in Tasks /\ TaskOK(k, r) /\ TaskOK(k, d)
  BY <1>1, <1>2, <1>3, RouseOK
<1> QED
  BY <1>3, <1>4, Moved

LEMMA StartRetryType ==
  ASSUME TypeInv, NEW k \in Keepers, NEW p \in Procs, NEW w \in Waits,
         NEW e \in Publishers \cup {None}, StartRetry(k, p, w, e)
  PROVE  TypeInv'
<1> DEFINE a == [[Resting EXCEPT !.pc = "retry", !.cur = w, !.ev = e]
                   EXCEPT !.home = p]
<1>1. /\ a \in TaskState /\ a.pc = "retry" /\ a.home = p /\ a.cur = w
      /\ a.pass = "no"
  BY DEF TaskState, Resting, Labels
<1>3. /\ Become(k, a) /\ SameStore /\ SameRun /\ timers' \subseteq timers
      /\ UNCHANGED <<alive, heard, faults, retried>> /\ p \in alive
  BY DEF StartRetry, Rouse
<1> HIDE DEF a
<1>2. k \in Tasks /\ TaskOK(k, a)
  BY <1>1, <1>3, RouseOK
<1>4. task' \in [Tasks -> TaskState] /\ TasksOK'
  BY <1>2, <1>3, TaskStep DEF SameRun
<1>5. StoreTypeOK' /\ RunTypeOK' /\ CountInv'
  BY <1>3, TypeParts, SameStoreType, SameRunType DEF TypeInv
<1>6. ManagerTypeOK'
  BY <1>3, TypeParts DEF TypeInv, ManagerTypeOK
<1> QED
  BY <1>4, <1>5, <1>6, TypePartsNext DEF TypeInv

LEMMA RetryCommittedType ==
  ASSUME TypeInv, NEW t \in Tasks, RetryCommitted(t)
  PROVE  TypeInv'
<1>1. /\ TaskOK(t, task[t]) /\ task[t].pc = "retry" /\ task[t] \in TaskState
      /\ SameStore /\ SameRun /\ UNCHANGED <<alive, heard, faults, retried>>
  BY TaskFields DEF RetryCommitted, At
<1>2. Cur(t) \in Waits /\ Ev(t) \in Publishers \cup {None} /\ t \notin Publishers
      /\ task[t].home \in Procs /\ task[t].pass = "no"
  BY <1>1, TypeParts
  DEF TaskOK, TaskState, WaitLabels, PublishLabels, Cur, Ev, TypeInv,
      ManagerTypeOK
<1>3. \E a : TaskOK(t, a) /\ Become(t, a)
  <2>1. CASE Become(t, Resting)
    BY <1>2, <2>1, RestingOK
  <2>2. CASE Goto(t, IF IsTimed(t) THEN "finTimed" ELSE "finalize")
    <3> DEFINE l == IF IsTimed(t) THEN "finTimed" ELSE "finalize"
    <3>1. /\ IF Ev(t) = None THEN l = "finTimed" ELSE l = "finalize"
          /\ Goto(t, l)
      BY <2>2 DEF IsTimed
    <3> HIDE DEF l
    <3>2. TaskOK(t, [task[t] EXCEPT !.pc = l])
      BY <1>1, <1>2, <3>1, GotoOK
      DEF Labels, WaitLabels, EventLabels, FreeLabels, RecoverLabels
    <3> QED
      BY <3>1, <3>2 DEF Goto
  <2> QED
    BY <2>1, <2>2 DEF RetryCommitted
<1>4. task' \in [Tasks -> TaskState] /\ TasksOK'
  BY <1>1, <1>3, TaskStep DEF SameRun
<1>5. StoreTypeOK' /\ RunTypeOK' /\ CountInv'
  BY <1>1, TypeParts, SameStoreType, SameRunType DEF TypeInv
<1>6. timers' \in {timers, timers \cup {<<task[t].home, Cur(t), Ev(t)>>}}
  BY DEF RetryCommitted
<1>7. ManagerTypeOK'
  BY <1>1, <1>2, <1>6, TypeParts DEF TypeInv, ManagerTypeOK
<1> QED
  BY <1>4, <1>5, <1>7, TypePartsNext DEF TypeInv

LEMMA OpenSessionType ==
  ASSUME TypeInv, NEW t \in Tasks, OpenSession(t)
  PROVE  TypeInv'
<1> DEFINE a == [task[t] EXCEPT !.pc = "scan", !.pass = "passing"]
           b == [task[t] EXCEPT !.pc = "recover", !.pass = "recovering",
                                !.todo = Abandoned(task[t].home)]
<1>1. /\ task[t] \in TaskState /\ TaskOK(t, task[t]) /\ task[t].pc = "drain"
      /\ SameStore /\ SameRun /\ Unfaulted
  BY TaskFields DEF OpenSession, At
<1>2. Abandoned(task[t].home) \in SUBSET (Waits \X (Publishers \cup {None}))
  BY DEF Abandoned
<1>3. /\ a \in TaskState /\ a.pc = "scan" /\ a.pass = "passing"
      /\ a.home = task[t].home /\ a.ev = task[t].ev
  BY <1>1, LabelMembers DEF TaskState
<1>4. /\ b \in TaskState /\ b.pc = "recover" /\ b.pass = "recovering"
      /\ b.home = task[t].home /\ b.ev = task[t].ev
  <2> HIDE DEF Abandoned
  <2> QED
    BY <1>1, <1>2, LabelMembers DEF TaskState
<1>5. Become(t, a) \/ Become(t, b)
  BY DEF OpenSession
<1> HIDE DEF a, b
<1>6. TaskOK(t, a) /\ TaskOK(t, b)
  BY <1>1, <1>3, <1>4
  DEF TaskOK, WaitLabels, EventLabels, FreeLabels, RecoverLabels
<1> QED
  BY <1>1, <1>5, <1>6, Moved

LEMMA RecoverType ==
  ASSUME TypeInv, NEW t \in Tasks, Recover(t)
  PROVE  TypeInv'
<1>1. /\ task[t] \in TaskState /\ TaskOK(t, task[t]) /\ task[t].pc = "recover"
      /\ UNCHANGED <<mailbox, claim, receipts>> /\ SameRun /\ Unfaulted
      /\ task[t].pass = "recovering" /\ task[t].ev = None
  BY TaskFields DEF Recover, At, TaskOK, FreeLabels
<1>2. CASE task[t].todo = {}
  <2> DEFINE a == [task[t] EXCEPT !.pc = "scan", !.pass = "passing"]
  <2>1. Become(t, a) /\ SameStore
    BY <1>1, <1>2 DEF Recover, SameStore
  <2>2. /\ a \in TaskState /\ a.pc = "scan" /\ a.pass = "passing"
        /\ a.home = task[t].home /\ a.ev = task[t].ev
    BY <1>1, LabelMembers DEF TaskState
  <2> HIDE DEF a
  <2>3. TaskOK(t, a)
    BY <1>1, <2>2 DEF TaskOK, WaitLabels, EventLabels, FreeLabels, RecoverLabels
  <2> QED
    BY <1>1, <2>1, <2>3, Moved
<1>3. ASSUME NEW x \in task[t].todo,
             LET rest == [task[t] EXCEPT !.todo = @ \ {x}] IN
             IF Reservable(x[1], x[2])
             THEN /\ rec' = [rec EXCEPT ![x[1]].age = "reserved"]
                  /\ Become(t, [rest EXCEPT !.pc = "inspect", !.cur = x[1],
                                            !.ev = x[2]])
             ELSE Become(t, rest) /\ UNCHANGED rec
      PROVE  TypeInv'
  <2> DEFINE rest == [task[t] EXCEPT !.todo = @ \ {x}]
             a == [rest EXCEPT !.pc = "inspect", !.cur = x[1], !.ev = x[2]]
  <2>1. x[1] \in Waits /\ x[2] \in Publishers \cup {None}
    BY <1>1 DEF TaskState
  <2>2. /\ rest \in TaskState /\ rest.pc = "recover" /\ rest.ev = None
        /\ rest.pass = "recovering" /\ rest.home = task[t].home
    BY <1>1 DEF TaskState
  <2>3. /\ a \in TaskState /\ a.pc = "inspect" /\ a.cur = x[1] /\ a.ev = x[2]
        /\ a.pass = "recovering" /\ a.home = task[t].home
    <3> HIDE DEF rest
    <3> QED
      BY <2>1, <2>2, LabelMembers DEF TaskState
  <2>4. \/ rec' = [rec EXCEPT ![x[1]].age = "reserved"] /\ Become(t, a)
        \/ rec' = rec /\ Become(t, rest)
    BY <1>3
  <2> HIDE DEF rest, a
  <2>5. TaskOK(t, rest) /\ TaskOK(t, a)
    BY <1>1, <2>1, <2>2, <2>3
    DEF TaskOK, WaitLabels, EventLabels, FreeLabels, RecoverLabels
  <2>6. StoreTypeOK
    BY TypeParts DEF TypeInv
  <2>7. StoreTypeOK'
    <3>1. CASE rec' = rec
      BY <1>1, <2>6, <3>1 DEF StoreTypeOK
    <3>2. CASE rec' = [rec EXCEPT ![x[1]].age = "reserved"]
      <4>1. "reserved" \in Ages
        BY DEF Ages
      <4> QED
        BY <1>1, <2>1, <2>6, <3>2, <4>1, RecordAged
    <3> QED
      BY <2>4, <3>1, <3>2
  <2> QED
    BY <1>1, <2>4, <2>5, <2>7, MovedStore
<1> QED
  BY <1>1, <1>2, <1>3 DEF Recover

LEMMA InspectType ==
  ASSUME TypeInv, NEW t \in Tasks, Inspect(t)
  PROVE  TypeInv'
<1>1. /\ TaskOK(t, task[t]) /\ task[t].pc = "inspect" /\ task[t] \in TaskState
      /\ SameStore /\ SameRun /\ Unfaulted
  BY TaskFields DEF Inspect, At
<1>2. Cur(t) \in Waits /\ Ev(t) \in Publishers \cup {None}
  BY <1>1 DEF TaskOK, TaskState, WaitLabels, Cur, Ev
<1>3. PICK l \in {"finTimed", "restTimed", "finalize", "discard", "restore"} :
        /\ Goto(t, l)
        /\ IF Ev(t) = None THEN l \in {"finTimed", "restTimed"}
           ELSE l \in {"finalize", "discard", "restore"}
  BY DEF Inspect, IsTimed
<1>4. TaskOK(t, [task[t] EXCEPT !.pc = l])
  BY <1>1, <1>2, <1>3, GotoOK
  DEF TaskOK, Labels, WaitLabels, EventLabels, FreeLabels, RecoverLabels,
      PublishLabels
<1> QED
  BY <1>1, <1>3, <1>4, Moved DEF Goto

LEMMA RestoreType ==
  ASSUME TypeInv, NEW t \in Tasks, Restore(t) \/ RollBack(t)
  PROVE  TypeInv'
<1>1. /\ TaskOK(t, task[t]) /\ task[t].pc \in {"restore", "rollback"}
      /\ RestoreDelivery(Cur(t), Ev(t)) /\ NextWait(t)
      /\ SameRun /\ Unfaulted
  BY TaskFields DEF Restore, RollBack, At
<1>2. Cur(t) \in Waits /\ Ev(t) \in Publishers
  BY <1>1 DEF TaskOK, WaitLabels, EventLabels, Cur, Ev
<1>3. StoreTypeOK'
  BY <1>1, <1>2, RestoreDeliveryType DEF TypeInv, TypeOK
<1>4. \E a : TaskOK(t, a) /\ Become(t, a)
  BY <1>1, NextWaitOK DEF PublishLabels
<1> QED
  BY <1>1, <1>3, <1>4, MovedStore

LEMMA ScanType ==
  ASSUME TypeInv, NEW t \in Tasks, Scan(t)
  PROVE  TypeInv'
<1> DEFINE s == {<<w, None>> : w \in {v \in Waits : rec[v].st = "pending"}}
           a == [task[t] EXCEPT !.pc = "pass", !.todo = s]
<1>1. /\ TaskOK(t, task[t]) /\ task[t].pc = "scan" /\ task[t] \in TaskState
      /\ SameStore /\ SameRun /\ Unfaulted /\ Become(t, a)
  BY TaskFields DEF Scan, At
<1>2. s \in SUBSET (Waits \X (Publishers \cup {None}))
  OBVIOUS
<1> HIDE DEF s
<1>3. /\ a \in TaskState /\ a.pc = "pass" /\ a.ev = task[t].ev
      /\ a.pass = task[t].pass /\ a.home = task[t].home
  BY <1>1, <1>2, LabelMembers DEF TaskState
<1> HIDE DEF a
<1>4. TaskOK(t, a)
  BY <1>1, <1>3 DEF TaskOK, WaitLabels, EventLabels, FreeLabels
<1> QED
  BY <1>1, <1>4, Moved

LEMMA EndPassType ==
  ASSUME TypeInv, NEW t \in Tasks, EndPass(t)
  PROVE  TypeInv'
<1> DEFINE out == [task[t] EXCEPT !.pass = "no", !.goal = None]
           j == [out EXCEPT !.pc = "judge"]
           c == [out EXCEPT !.pc = "check", !.cur = task[t].goal]
<1>1. /\ TaskOK(t, task[t]) /\ task[t].pc = "pass" /\ task[t] \in TaskState
      /\ SameStore /\ SameRun /\ Unfaulted
  BY TaskFields DEF EndPass, At
<1>2. \/ t \in Publishers /\ Become(t, j)
      \/ t \notin Publishers /\ Become(t, Resting)
      \/ t \notin Publishers /\ task[t].goal # None /\ Become(t, c)
  BY DEF EndPass
<1>3. /\ j \in TaskState /\ j.pc = "judge" /\ j.pass = "no"
      /\ j.home = task[t].home
  BY <1>1, LabelMembers DEF TaskState
<1>4. /\ c \in TaskState /\ c.pc = "check" /\ c.pass = "no"
      /\ c.home = task[t].home /\ c.ev = task[t].ev /\ c.cur = task[t].goal
  BY <1>1, LabelMembers DEF TaskState
<1> HIDE DEF j, c, out
<1>5. TaskOK(t, j)
  BY <1>1, <1>3 DEF TaskOK, WaitLabels, EventLabels, FreeLabels, RecoverLabels,
                    PublishLabels
<1>6. ASSUME t \notin Publishers, task[t].goal # None PROVE TaskOK(t, c)
  <2>1. task[t].goal \in Waits
    BY <1>1, <1>6 DEF TaskState
  <2> QED
    BY <1>1, <1>4, <1>6, <2>1
    DEF TaskOK, WaitLabels, EventLabels, FreeLabels, RecoverLabels
<1> QED
  BY <1>1, <1>2, <1>5, <1>6, RestingOK, Moved

LEMMA DrainWaitType ==
  ASSUME TypeInv, NEW t \in Tasks, DrainWait(t)
  PROVE  TypeInv'
<1>1. /\ TaskOK(t, task[t]) /\ task[t].pc = "pass" /\ task[t] \in TaskState
      /\ SameRun /\ Unfaulted
  BY TaskFields DEF DrainWait, At
<1>2. PICK x \in task[t].todo :
       LET w == x[1]
           rest == [task[t] EXCEPT !.todo = @ \ {x}]
       IN \/ /\ NodeOf(w) \notin Delays /\ ClaimEvent(w)
             /\ Become(t, [rest EXCEPT !.pc = "deliver", !.cur = w,
                                       !.ev = rec'[w].ev])
          \/ /\ \/ NodeOf(w) \in Delays
                \/ rec[w].st # "pending" \/ Takeable(w) = {}
             /\ Become(t, IF NodeOf(w) \in Timed \ Delays /\ due
                             /\ task[t].goal = None
                          THEN [rest EXCEPT !.pc = "resolve", !.cur = w]
                          ELSE rest)
             /\ SameStore
  BY DEF DrainWait
<1> DEFINE w == x[1]
           rest == [task[t] EXCEPT !.todo = @ \ {x}]
           f == mailbox[Oldest(Takeable(w))]
           a == [rest EXCEPT !.pc = "deliver", !.cur = w, !.ev = f]
           b == [rest EXCEPT !.pc = "resolve", !.cur = w]
<1>3. w \in Waits
  BY <1>1 DEF TaskState
<1>4. /\ rest \in TaskState /\ rest.pc = "pass" /\ rest.ev = task[t].ev
      /\ rest.pass = task[t].pass /\ rest.home = task[t].home
  BY <1>1 DEF TaskState
<1> HIDE DEF rest
<1>5. /\ b \in TaskState /\ b.pc = "resolve" /\ b.ev = task[t].ev
      /\ b.pass = task[t].pass /\ b.home = task[t].home /\ b.cur = w
  BY <1>3, <1>4, LabelMembers DEF TaskState
<1>6. \/ NodeOf(w) \notin Delays /\ ClaimEvent(w)
         /\ Become(t, [rest EXCEPT !.pc = "deliver", !.cur = w, !.ev = rec'[w].ev])
      \/ Become(t, b) /\ SameStore
      \/ Become(t, rest) /\ SameStore
  BY <1>2 DEF rest
<1>7. TaskOK(t, rest) /\ TaskOK(t, b)
  <2> HIDE DEF b
  <2> QED
    BY <1>1, <1>3, <1>4, <1>5
    DEF TaskOK, WaitLabels, EventLabels, FreeLabels, RecoverLabels, PublishLabels
<1>8. CASE /\ ClaimEvent(w)
           /\ Become(t, [rest EXCEPT !.pc = "deliver", !.cur = w,
                                     !.ev = rec'[w].ev])
  <2>1. StoreTypeOK' /\ rec'[w].ev \in Publishers
    BY <1>3, <1>8, ClaimEventType DEF TypeInv, TypeOK
  <2>2. rec'[w].ev = f
    BY <1>3, <1>8, TypeParts DEF TypeInv, StoreTypeOK, ClaimEvent
  <2>3. f \in Publishers /\ Become(t, a)
    BY <1>8, <2>1, <2>2
  <2> HIDE DEF f
  <2>4. /\ a \in TaskState /\ a.pc = "deliver" /\ a.ev = f
        /\ a.pass = task[t].pass /\ a.home = task[t].home /\ a.cur = w
    BY <1>3, <1>4, <2>3, LabelMembers DEF TaskState
  <2> HIDE DEF a
  <2>5. TaskOK(t, a)
    BY <1>1, <1>3, <2>3, <2>4
    DEF TaskOK, WaitLabels, EventLabels, FreeLabels, RecoverLabels, PublishLabels
  <2> QED
    BY <1>1, <2>1, <2>3, <2>5, MovedStore
<1> HIDE DEF b
<1> QED
  BY <1>1, <1>6, <1>7, <1>8, Moved

(* The delivery                                                            *)

LEMMA DeliverType ==
  ASSUME TypeInv, NEW t \in Tasks, Deliver(t)
  PROVE  TypeInv'
<1>1. /\ TaskOK(t, task[t]) /\ task[t].pc = "deliver" /\ task[t] \in TaskState
      /\ SameStore /\ SameRun /\ Unfaulted
  BY TaskFields DEF Deliver, At
<1>2. Cur(t) \in Waits /\ Ev(t) \in Publishers \cup {None}
  BY <1>1 DEF TaskOK, TaskState, WaitLabels, Cur, Ev
<1>3. PICK l \in {"finTimed", "restTimed", "discard", "rollback", "retire",
                  "patch"} :
        /\ Goto(t, l)
        /\ l \in {"finTimed", "restTimed"} => Ev(t) = None
        /\ l \in {"discard", "rollback"} => Ev(t) # None
  BY DEF Deliver, IsTimed
<1>4. TaskOK(t, [task[t] EXCEPT !.pc = l])
  BY <1>1, <1>2, <1>3, GotoOK
  DEF TaskOK, Labels, WaitLabels, EventLabels, FreeLabels, RecoverLabels,
      PublishLabels
<1> QED
  BY <1>1, <1>3, <1>4, Moved DEF Goto

LEMMA DeliverFailsType ==
  ASSUME TypeInv, NEW t \in Tasks, DeliverFails(t)
  PROVE  TypeInv'
<1>1. /\ TaskOK(t, task[t]) /\ task[t].pc = "deliver" /\ task[t] \in TaskState
      /\ SameStore /\ SameRun /\ UNCHANGED <<alive, timers, heard, retried>>
      /\ faults < MaxFaults /\ faults' = faults + 1
  BY TaskFields DEF DeliverFails, At, Fault
<1>2. Cur(t) \in Waits /\ Ev(t) \in Publishers \cup {None}
  BY <1>1 DEF TaskOK, TaskState, WaitLabels, Cur, Ev
<1>3. PICK l \in {"restTimed", "rollback"} :
        Goto(t, l) /\ (l = "restTimed" <=> Ev(t) = None)
  BY DEF DeliverFails, IsTimed
<1>4. TaskOK(t, [task[t] EXCEPT !.pc = l])
  BY <1>1, <1>2, <1>3, GotoOK
  DEF TaskOK, Labels, WaitLabels, EventLabels, FreeLabels, RecoverLabels,
      PublishLabels
<1>5. task' \in [Tasks -> TaskState] /\ TasksOK'
  BY <1>1, <1>3, <1>4, TaskStep DEF Goto, SameRun
<1>6. StoreTypeOK' /\ RunTypeOK' /\ CountInv'
  BY <1>1, TypeParts, SameStoreType, SameRunType DEF TypeInv
<1>7. ManagerTypeOK'
  BY <1>1, TypeParts, WaitsAssumption DEF TypeInv, ManagerTypeOK
<1> QED
  BY <1>5, <1>6, <1>7, TypePartsNext DEF TypeInv

LEMMA SettleNodeType ==
  ASSUME TypeInv, NEW w \in Waits, NEW e \in Publishers \cup {None},
         \/ SettleNode(w, e)
         \/ UNCHANGED <<node, got>>,
         UNCHANGED <<status, due, onTime, order, retried>>
  PROVE  RunTypeOK' /\ CountInv'
<1>1. CASE UNCHANGED <<node, got>>
  BY <1>1, TypeParts, SameRunType DEF TypeInv, SameRun
<1>2. CASE SettleNode(w, e)
  <2>1. NodeOf(w) \in Nodes
    BY DEF NodeOf, Waits
  <2> DEFINE n == NodeOf(w)
             v == <<n, node[n].inst>>
  <2>2. /\ node \in [Nodes -> [st : {"idle", "running", "completed", "failed"},
                               inst : Instances]]
        /\ got \in [Waits -> Publishers \cup {None}]
    BY TypeParts DEF TypeInv, RunTypeOK
  <2>3. v \in Waits
    BY <2>1, <2>2 DEF Waits
  <2>4. /\ node' = [node EXCEPT ![n].st = "completed"]
        /\ got' = [got EXCEPT ![v] = e]
    BY <1>2 DEF SettleNode
  <2> HIDE DEF n, v
  <2>5. /\ node' \in [Nodes -> [st : {"idle", "running", "completed", "failed"},
                                inst : Instances]]
        /\ \A m \in Nodes : node'[m].inst = node[m].inst
    BY <2>2, <2>4
  <2>6. got' \in [Waits -> Publishers \cup {None}]
    BY <2>2, <2>3, <2>4
  <2> QED
    BY <2>5, <2>6, TypeParts DEF TypeInv, RunTypeOK, CountInv, Appended
<1> QED
  BY <1>1, <1>2

LEMMA PatchType ==
  ASSUME TypeInv, NEW t \in Tasks, Patch(t)
  PROVE  TypeInv'
<1>1. /\ TaskOK(t, task[t]) /\ task[t].pc = "patch" /\ task[t] \in TaskState
      /\ SameStore /\ Unfaulted /\ UNCHANGED <<status, due, onTime, order>>
  BY TaskFields DEF Patch, At
<1>2. Cur(t) \in Waits /\ Ev(t) \in Publishers \cup {None}
  BY <1>1 DEF TaskOK, TaskState, WaitLabels, Cur, Ev
<1>3. PICK l \in {"resume", "deliver"} : Goto(t, l)
  BY DEF Patch
<1>4. TaskOK(t, [task[t] EXCEPT !.pc = l])
  BY <1>1, <1>2, <1>3, GotoOK
  DEF TaskOK, Labels, WaitLabels, EventLabels, FreeLabels, RecoverLabels,
      PublishLabels
<1>5. task' \in [Tasks -> TaskState] /\ TasksOK'
  BY <1>1, <1>3, <1>4, TaskStep DEF Goto, Unfaulted
<1>6. StoreTypeOK' /\ ManagerTypeOK'
  BY <1>1, TypeParts, SameStoreType, UnfaultedType DEF TypeInv
<1>7. RunTypeOK' /\ CountInv'
  BY <1>1, <1>2, SettleNodeType DEF Patch, Unfaulted
<1> QED
  BY <1>5, <1>6, <1>7, TypePartsNext DEF TypeInv

LEMMA UncertainType ==
  ASSUME TypeInv, NEW t \in Tasks, task[t].pc \in {"patch", "resume"},
         Uncertain(t), Fault, UNCHANGED <<alive, order, retried>>
  PROVE  /\ task' \in [Tasks -> TaskState] /\ TasksOK'
         /\ ManagerTypeOK'
<1>1. /\ TaskOK(t, task[t]) /\ task[t] \in TaskState /\ NextWait(t)
      /\ timers' = timers \cup {<<task[t].home, Cur(t), Ev(t)>>}
      /\ heard' \subseteq heard \cup {Ev(t)}
      /\ Ev(t) \notin Publishers => heard' = heard
      /\ faults < MaxFaults /\ faults' = faults + 1
  BY TaskFields DEF Uncertain, Hear, Fault
<1>2. ManagerTypeOK
  BY TypeParts DEF TypeInv
<1>3. /\ Cur(t) \in Waits /\ Ev(t) \in Publishers \cup {None}
      /\ task[t].home \in Procs
  BY <1>1, <1>2 DEF TaskOK, TaskState, WaitLabels, Cur, Ev, ManagerTypeOK
<1>4. \E a : TaskOK(t, a) /\ Become(t, a)
  BY <1>1, NextWaitOK DEF PublishLabels
<1>5. task' \in [Tasks -> TaskState] /\ TasksOK'
  BY <1>4, TaskStep
<1>6. heard' \subseteq Publishers
  BY <1>1, <1>2, <1>3 DEF ManagerTypeOK
<1>7. faults' \in 0..MaxFaults
  BY <1>1, <1>2, WaitsAssumption DEF ManagerTypeOK
<1> QED
  BY <1>1, <1>2, <1>3, <1>5, <1>6, <1>7 DEF ManagerTypeOK

LEMMA PatchRejectedType ==
  ASSUME TypeInv, NEW t \in Tasks, PatchRejected(t)
  PROVE  TypeInv'
<1>1. /\ TaskOK(t, task[t]) /\ task[t].pc = "patch" /\ task[t] \in TaskState
      /\ SameStore /\ UNCHANGED <<status, due, onTime, order, alive, retried>>
      /\ Fault /\ Uncertain(t)
  BY TaskFields DEF PatchRejected, At
<1>2. Cur(t) \in Waits /\ Ev(t) \in Publishers \cup {None}
  BY <1>1 DEF TaskOK, TaskState, WaitLabels, Cur, Ev
<1>3. task' \in [Tasks -> TaskState] /\ TasksOK' /\ ManagerTypeOK'
  BY <1>1, UncertainType
<1>4. StoreTypeOK'
  BY <1>1, TypeParts, SameStoreType DEF TypeInv
<1>5. RunTypeOK' /\ CountInv'
  BY <1>1, <1>2, SettleNodeType DEF PatchRejected
<1> QED
  BY <1>3, <1>4, <1>5, TypePartsNext DEF TypeInv

LEMMA ResumeRunType ==
  ASSUME TypeInv, NEW t \in Tasks, ResumeRun(t)
  PROVE  TypeInv'
<1>1. /\ TaskOK(t, task[t]) /\ task[t].pc = "resume" /\ task[t] \in TaskState
      /\ SameStore /\ SameRun /\ UNCHANGED <<alive, timers, faults, retried>>
      /\ heard' = Hear(t)
  BY TaskFields DEF ResumeRun, At
<1>2. Cur(t) \in Waits /\ Ev(t) \in Publishers \cup {None}
  BY <1>1 DEF TaskOK, TaskState, WaitLabels, Cur, Ev
<1>3. PICK l \in {"finTimed", "finalize"} :
        Goto(t, l) /\ (l = "finTimed" <=> Ev(t) = None)
  BY DEF ResumeRun, IsTimed
<1>4. TaskOK(t, [task[t] EXCEPT !.pc = l])
  BY <1>1, <1>2, <1>3, GotoOK
  DEF TaskOK, Labels, WaitLabels, EventLabels, FreeLabels, RecoverLabels,
      PublishLabels
<1>5. task' \in [Tasks -> TaskState] /\ TasksOK'
  BY <1>1, <1>3, <1>4, TaskStep DEF Goto, SameRun
<1>6. StoreTypeOK' /\ RunTypeOK' /\ CountInv'
  BY <1>1, TypeParts, SameStoreType, SameRunType DEF TypeInv
<1>7. ManagerTypeOK'
  BY <1>1, TypeParts DEF TypeInv, ManagerTypeOK, Hear
<1> QED
  BY <1>5, <1>6, <1>7, TypePartsNext DEF TypeInv

LEMMA ResumeRefusedType ==
  ASSUME TypeInv, NEW t \in Tasks, ResumeRefused(t)
  PROVE  TypeInv'
<1>1. /\ TaskOK(t, task[t]) /\ task[t].pc = "resume" /\ task[t] \in TaskState
      /\ SameStore /\ SameRun /\ UNCHANGED <<alive, retried>>
  BY TaskFields DEF ResumeRefused, At
<1>2. Cur(t) \in Waits
  BY <1>1 DEF TaskOK, TaskState, WaitLabels, Cur
<1>3. CASE Fault /\ Uncertain(t)
  <2>1. task' \in [Tasks -> TaskState] /\ TasksOK' /\ ManagerTypeOK'
    BY <1>1, <1>3, UncertainType DEF SameRun
  <2>2. StoreTypeOK' /\ RunTypeOK' /\ CountInv'
    BY <1>1, TypeParts, SameStoreType, SameRunType DEF TypeInv
  <2> QED
    BY <2>1, <2>2, TypePartsNext DEF TypeInv
<1>4. CASE Goto(t, "deliver") /\ UNCHANGED <<timers, heard, faults>>
  <2>1. TaskOK(t, [task[t] EXCEPT !.pc = "deliver"])
    BY <1>1, <1>2, GotoOK
    DEF TaskOK, Labels, WaitLabels, EventLabels, FreeLabels, RecoverLabels,
        PublishLabels
  <2> QED
    BY <1>1, <1>4, <2>1, Moved DEF Goto, Unfaulted
<1> QED
  BY <1>3, <1>4 DEF ResumeRefused

LEMMA RetireType ==
  ASSUME TypeInv, NEW t \in Tasks, Retire(t)
  PROVE  TypeInv'
<1>1. /\ TaskOK(t, task[t]) /\ task[t].pc = "retire" /\ task[t] \in TaskState
      /\ SameRun /\ Unfaulted
  BY TaskFields DEF Retire, At
<1>2. Cur(t) \in Waits /\ Ev(t) \in Publishers \cup {None}
  BY <1>1 DEF TaskOK, TaskState, WaitLabels, Cur, Ev
<1>3. PICK l \in {"finTimed", "cancel"} :
        Goto(t, l) /\ (l = "finTimed" => Ev(t) = None)
  BY DEF Retire, IsTimed
<1>4. TaskOK(t, [task[t] EXCEPT !.pc = l])
  BY <1>1, <1>2, <1>3, GotoOK
  DEF TaskOK, Labels, WaitLabels, EventLabels, FreeLabels, RecoverLabels,
      PublishLabels
<1>5. StoreTypeOK'
  <2>1. CASE RestoreRecord(Cur(t)) /\ UNCHANGED <<mailbox, claim, receipts>>
    BY <1>2, <2>1, RecordType
    DEF TypeInv, TypeOK, MailboxTypeOK, StoreTypeOK, RestoreRecord
  <2>2. CASE Ev(t) # None /\ RestoreDelivery(Cur(t), Ev(t))
    BY <1>2, <2>2, RestoreDeliveryType DEF TypeInv, TypeOK
  <2> QED
    BY <2>1, <2>2 DEF Retire, IsTimed
<1> QED
  BY <1>1, <1>3, <1>4, <1>5, MovedStore DEF Goto

LEMMA ResolveRecordType ==
  ASSUME StoreTypeOK, NEW w \in Waits,
         NEW s \in {"cancelled", "delivered", "expired"},
         ResolveRecord(w, s), UNCHANGED <<mailbox, claim, receipts>>
  PROVE  StoreTypeOK'
<1> DEFINE a == IF s = "cancelled" THEN rec[w].age ELSE "new"
           r == [rec[w] EXCEPT !.st = s, !.age = a]
<1>1. rec[w] \in Records /\ rec \in [Waits -> Records]
  BY DEF StoreTypeOK, Records
<1>2. a \in Ages
  BY <1>1 DEF Records, Ages
<1>3. rec' = [rec EXCEPT ![w] = r]
  BY <1>1 DEF ResolveRecord, Records
<1> HIDE DEF a
<1>4. r \in Records
  BY <1>1, <1>2 DEF Records
<1> HIDE DEF r
<1> QED
  BY <1>3, <1>4, RecordReplaced

LEMMA CancelStaleType ==
  ASSUME TypeInv, NEW t \in Tasks, CancelStale(t)
  PROVE  TypeInv'
<1>1. /\ TaskOK(t, task[t]) /\ task[t].pc = "cancel" /\ NextWait(t)
      /\ UNCHANGED <<mailbox, claim, receipts>> /\ SameRun /\ Unfaulted
  BY TaskFields DEF CancelStale, At
<1>2. Cur(t) \in Waits
  BY <1>1 DEF TaskOK, WaitLabels, Cur
<1>3. StoreTypeOK
  BY TypeParts DEF TypeInv
<1>4. StoreTypeOK'
  <2>1. CASE ResolveRecord(Cur(t), "cancelled")
    BY <1>1, <1>2, <1>3, <2>1, ResolveRecordType
  <2>2. CASE UNCHANGED rec
    BY <1>1, <1>3, <2>2 DEF StoreTypeOK
  <2> QED
    BY <2>1, <2>2 DEF CancelStale
<1>5. \E a : TaskOK(t, a) /\ Become(t, a)
  BY <1>1, NextWaitOK DEF PublishLabels
<1> QED
  BY <1>1, <1>4, <1>5, MovedStore

LEMMA FinalizeType ==
  ASSUME TypeInv, NEW t \in Tasks, Finalize(t)
  PROVE  TypeInv'
<1>1. /\ TaskOK(t, task[t]) /\ task[t].pc \in {"finalize", "discard"}
      /\ FinalizeDelivery(Ev(t), At(t, "finalize")) /\ NextWait(t)
      /\ SameRun /\ Unfaulted
  BY TaskFields DEF Finalize
<1>2. Ev(t) \in Publishers
  BY <1>1 DEF TaskOK, EventLabels, Ev
<1>3. StoreTypeOK'
  BY <1>1, <1>2, FinalizeDeliveryType DEF TypeInv, TypeOK
<1>4. \E a : TaskOK(t, a) /\ Become(t, a)
  BY <1>1, NextWaitOK DEF PublishLabels
<1> QED
  BY <1>1, <1>3, <1>4, MovedStore

(* The expiry                                                              *)

LEMMA CheckDeadlineType ==
  ASSUME TypeInv, NEW t \in Tasks, CheckDeadline(t)
  PROVE  TypeInv'
<1>1. /\ TaskOK(t, task[t]) /\ task[t].pc = "check" /\ task[t] \in TaskState
      /\ SameStore /\ SameRun /\ Unfaulted
  BY TaskFields DEF CheckDeadline, At
<1>2. /\ Cur(t) \in Waits /\ Ev(t) = None /\ task[t].pass = "no"
      /\ t \notin Publishers
  BY <1>1 DEF TaskOK, TaskState, WaitLabels, FreeLabels, PublishLabels, Cur, Ev
<1>3. CASE Goto(t, "resolve")
  <2>1. TaskOK(t, [task[t] EXCEPT !.pc = "resolve"])
    BY <1>1, <1>2, GotoOK
    DEF Labels, WaitLabels, EventLabels, FreeLabels, RecoverLabels
  <2> QED
    BY <1>1, <1>3, <2>1, Moved DEF Goto
<1>4. CASE Become(t, Resting)
  BY <1>1, <1>2, <1>4, RestingOK, Moved
<1> QED
  BY <1>3, <1>4 DEF CheckDeadline

LEMMA ResolveDeadlineType ==
  ASSUME TypeInv, NEW t \in Tasks, ResolveDeadline(t)
  PROVE  TypeInv'
<1>1. /\ TaskOK(t, task[t]) /\ task[t].pc = "resolve" /\ task[t] \in TaskState
      /\ UNCHANGED <<mailbox, claim, receipts>> /\ SameRun /\ Unfaulted
  BY TaskFields DEF ResolveDeadline, At
<1>2. Cur(t) \in Waits /\ Ev(t) = None
  BY <1>1 DEF TaskOK, WaitLabels, FreeLabels, Cur, Ev
<1>3. StoreTypeOK
  BY TypeParts DEF TypeInv
<1>4. ASSUME NEW l \in {"deliver", "expired"}, NEW s \in {"delivered", "expired"},
             ResolveRecord(Cur(t), s), Goto(t, l)
      PROVE  TypeInv'
  <2>1. StoreTypeOK'
    BY <1>1, <1>2, <1>3, <1>4, ResolveRecordType
  <2>2. TaskOK(t, [task[t] EXCEPT !.pc = l])
    BY <1>1, <1>2, GotoOK
    DEF TaskOK, Labels, WaitLabels, EventLabels, FreeLabels, RecoverLabels,
        PublishLabels
  <2> QED
    BY <1>1, <1>4, <2>1, <2>2, MovedStore DEF Goto
<1>5. CASE NextWait(t) /\ UNCHANGED rec
  <2>1. \E a : TaskOK(t, a) /\ Become(t, a)
    BY <1>1, <1>5, NextWaitOK DEF PublishLabels
  <2> QED
    BY <1>1, <1>5, <2>1, Moved DEF SameStore
<1> QED
  BY <1>4, <1>5 DEF ResolveDeadline

LEMMA LookType ==
  ASSUME TypeInv, NEW t \in Tasks, LookAgain(t) \/ FailRead(t)
  PROVE  TypeInv'
<1>1. /\ TaskOK(t, task[t]) /\ task[t].pc \in {"expired", "failRead"}
      /\ task[t] \in TaskState /\ SameStore /\ SameRun /\ Unfaulted
  BY TaskFields DEF LookAgain, FailRead, At
<1>2. Cur(t) \in Waits /\ Ev(t) = None
  BY <1>1 DEF TaskOK, WaitLabels, FreeLabels, Cur, Ev
<1>3. PICK l \in {"restTimed", "failRead", "finTimed", "failCas"} : Goto(t, l)
  BY DEF LookAgain, FailRead
<1>4. TaskOK(t, [task[t] EXCEPT !.pc = l])
  BY <1>1, <1>2, <1>3, GotoOK
  DEF TaskOK, Labels, WaitLabels, EventLabels, FreeLabels, RecoverLabels,
      PublishLabels
<1> QED
  BY <1>1, <1>3, <1>4, Moved DEF Goto

LEMMA FailCasType ==
  ASSUME TypeInv, NEW t \in Tasks, FailCas(t)
  PROVE  TypeInv'
<1>1. /\ TaskOK(t, task[t]) /\ task[t].pc = "failCas" /\ task[t] \in TaskState
      /\ SameStore /\ Unfaulted /\ UNCHANGED <<got, due, onTime, order>>
  BY TaskFields DEF FailCas, At
<1>2. Cur(t) \in Waits /\ Ev(t) = None
  BY <1>1 DEF TaskOK, WaitLabels, FreeLabels, Cur, Ev
<1>3. PICK l \in {"finTimed", "restTimed"} : Goto(t, l)
  BY DEF FailCas
<1>4. TaskOK(t, [task[t] EXCEPT !.pc = l])
  BY <1>1, <1>2, <1>3, GotoOK
  DEF TaskOK, Labels, WaitLabels, EventLabels, FreeLabels, RecoverLabels,
      PublishLabels
<1>5. task' \in [Tasks -> TaskState] /\ TasksOK'
  BY <1>1, <1>3, <1>4, TaskStep DEF Goto, Unfaulted
<1>6. StoreTypeOK' /\ ManagerTypeOK'
  BY <1>1, TypeParts, SameStoreType, UnfaultedType DEF TypeInv
<1>7. NodeOf(Cur(t)) \in Nodes /\ RunTypeOK
  BY <1>2, TypeParts DEF NodeOf, Waits, TypeInv
<1>8. \/ status' = "failed" /\ node' = [node EXCEPT ![NodeOf(Cur(t))].st = "failed"]
      \/ UNCHANGED <<status, node>>
  BY DEF FailCas
<1>9. /\ node' \in [Nodes -> [st : {"idle", "running", "completed", "failed"},
                              inst : Instances]]
      /\ \A m \in Nodes : node'[m].inst = node[m].inst
  BY <1>7, <1>8 DEF RunTypeOK
<1>10. RunTypeOK' /\ CountInv'
  BY <1>1, <1>7, <1>8, <1>9 DEF TypeInv, RunTypeOK, CountInv, Appended, Unfaulted
<1> QED
  BY <1>5, <1>6, <1>10, TypePartsNext DEF TypeInv

LEMMA EndTimedType ==
  ASSUME TypeInv, NEW t \in Tasks, EndTimed(t)
  PROVE  TypeInv'
<1>1. /\ TaskOK(t, task[t]) /\ task[t].pc \in {"finTimed", "restTimed"}
      /\ UNCHANGED <<mailbox, claim, receipts>> /\ SameRun /\ Unfaulted
      /\ NextWait(t)
  BY TaskFields DEF EndTimed, At
<1>2. Cur(t) \in Waits
  BY <1>1 DEF TaskOK, WaitLabels, Cur
<1>3. StoreTypeOK'
  <2>1. CASE FinalizeTimed(Cur(t))
    <3>1. StoreTypeOK /\ "none" \in Ages
      BY TypeParts DEF TypeInv, Ages
    <3> QED
      BY <1>1, <1>2, <2>1, <3>1, RecordAged DEF FinalizeTimed
  <2>2. CASE RestoreRecord(Cur(t))
    BY <1>1, <1>2, <2>2, RecordType
    DEF TypeInv, TypeOK, MailboxTypeOK, StoreTypeOK, RestoreRecord
  <2> QED
    BY <2>1, <2>2 DEF EndTimed
<1>4. \E a : TaskOK(t, a) /\ Become(t, a)
  BY <1>1, NextWaitOK DEF PublishLabels
<1> QED
  BY <1>1, <1>3, <1>4, MovedStore

(* The run, time and crashes: no actor moves by its own.                   *)

LEMMA Stayed ==
  ASSUME TypeInv, UNCHANGED <<task, alive, order>>
  PROVE  task' \in [Tasks -> TaskState] /\ TasksOK'
BY DEF TypeInv, TypeOK, TasksOK, TaskOK

LEMMA StayedOn ==
  ASSUME TypeInv, UNCHANGED waitVars, UNCHANGED order
  PROVE  /\ task' \in [Tasks -> TaskState] /\ TasksOK' /\ ManagerTypeOK'
         /\ retried' = retried
<1>1. UNCHANGED <<task, alive, timers, heard, faults, retried>>
  BY DEF waitVars
<1>2. ManagerTypeOK'
  BY <1>1, TypeParts DEF TypeInv, ManagerTypeOK
<1> QED
  BY <1>1, <1>2, Stayed

LEMMA ParkType ==
  ASSUME TypeInv, NEW n \in Nodes, Park(n)
  PROVE  TypeInv'
<1>1. task' \in [Tasks -> TaskState] /\ TasksOK' /\ ManagerTypeOK' /\ retried' = retried
  BY StayedOn DEF Park
<1>2. StoreTypeOK'
  BY TypeParts DEF TypeInv, StoreTypeOK, Park
<1>3. /\ node' = [node EXCEPT ![n].st = "running"] /\ RunTypeOK
      /\ UNCHANGED <<status, got, order, due, onTime>>
  BY TypeParts DEF Park, TypeInv
<1>4. /\ node' \in [Nodes -> [st : {"idle", "running", "completed", "failed"},
                              inst : Instances]]
      /\ \A m \in Nodes : node'[m].inst = node[m].inst
  BY <1>3 DEF RunTypeOK
<1>5. RunTypeOK' /\ CountInv'
  BY <1>1, <1>3, <1>4 DEF TypeInv, RunTypeOK, CountInv, Appended
<1> QED
  BY <1>1, <1>2, <1>5, TypePartsNext DEF TypeInv

LEMMA CreateEventWaitType ==
  ASSUME TypeInv, NEW n \in Nodes, CreateEventWait(n)
  PROVE  TypeInv'
<1> DEFINE w == <<n, node[n].inst>>
           r == [NoRecord EXCEPT !.st = "pending"]
<1>1. /\ UNCHANGED <<mailbox, claim, receipts, waitVars>> /\ SameRun
      /\ rec' = [rec EXCEPT ![w] = r]
  BY DEF CreateEventWait
<1>2. task' \in [Tasks -> TaskState] /\ TasksOK' /\ ManagerTypeOK' /\ retried' = retried
  BY <1>1, StayedOn DEF SameRun
<1>3. w \in Waits
  BY TypeParts DEF TypeInv, RunTypeOK, Waits
<1>4. r \in [st : {"none", "pending", "delivered", "expired", "cancelled"},
             ev : Publishers \cup {None}, age : Ages]
  BY DEF NoRecord, Ages
<1> HIDE DEF w, r
<1>5. StoreTypeOK'
  BY <1>1, <1>3, <1>4, TypeParts DEF TypeInv, StoreTypeOK
<1>6. RunTypeOK' /\ CountInv'
  BY <1>1, <1>2, SameRunType DEF TypeInv
<1> QED
  BY <1>2, <1>5, <1>6, TypePartsNext DEF TypeInv

LEMMA StoreOverStep ==
  ASSUME TypeInv, Complete \/ Cancel
  PROVE  TypeInv'
<1>1. PICK s \in Over : StoreOver(s)
  BY DEF Complete, Cancel, Over
<1>2. UNCHANGED <<node, got, order, due, onTime, waitVars>> /\ status' = s
  BY <1>1 DEF Complete, Cancel, StoreOver
<1>3. task' \in [Tasks -> TaskState] /\ TasksOK' /\ ManagerTypeOK' /\ retried' = retried
  BY <1>2, StayedOn
<1>4. StoreTypeOK'
  BY <1>1, StoreOverType DEF TypeInv, TypeOK
<1>5. RunTypeOK' /\ CountInv'
  BY <1>2, <1>3, TypeParts DEF TypeInv, RunTypeOK, CountInv, Appended
<1> QED
  BY <1>3, <1>4, <1>5, TypePartsNext DEF TypeInv

LEMMA FailType ==
  ASSUME TypeInv, Fail
  PROVE  TypeInv'
<1>1. task' \in [Tasks -> TaskState] /\ TasksOK' /\ ManagerTypeOK' /\ retried' = retried
  BY StayedOn DEF Fail
<1>2. StoreTypeOK'
  BY TypeParts DEF TypeInv, StoreTypeOK, Fail
<1>3. RunTypeOK' /\ CountInv'
  BY <1>1, TypeParts DEF TypeInv, RunTypeOK, CountInv, Appended, Fail
<1> QED
  BY <1>1, <1>2, <1>3, TypePartsNext DEF TypeInv

LEMMA RetryType ==
  ASSUME TypeInv, Retry
  PROVE  TypeInv'
<1>1. /\ retried < MaxRetries /\ status' = "active" /\ retried' = retried + 1
      /\ node' = [n \in Nodes |->
                    IF node[n].st = "failed"
                    THEN [st |-> "idle", inst |-> node[n].inst + 1] ELSE node[n]]
      /\ UNCHANGED <<rec, got, mailbox, order, claim, receipts, due, onTime, task,
                     alive, timers, heard, faults>>
  BY DEF Retry
<1>2. task' \in [Tasks -> TaskState] /\ TasksOK'
  BY <1>1, Stayed
<1>3. StoreTypeOK'
  BY <1>1, TypeParts DEF TypeInv, StoreTypeOK
<1>4. RunTypeOK /\ ManagerTypeOK /\ MaxRetries \in Nat
  BY TypeParts, MailboxAssumption DEF TypeInv
<1>5. ManagerTypeOK'
  BY <1>1, <1>4 DEF ManagerTypeOK
<1>6. ASSUME NEW n \in Nodes
      PROVE  /\ node'[n] \in [st : {"idle", "running", "completed", "failed"},
                              inst : Instances]
             /\ node'[n].inst <= retried' + 1
  <2>1. /\ node[n] \in [st : {"idle", "running", "completed", "failed"},
                        inst : Instances]
        /\ node[n].inst <= retried + 1
    BY <1>4 DEF RunTypeOK, TypeInv, CountInv
  <2>2. retried \in Nat /\ node[n].inst \in 1..(MaxRetries + 1)
    BY <1>4, <2>1 DEF ManagerTypeOK, Instances
  <2>3. CASE node[n].st = "failed"
    <3>1. node'[n] = [st |-> "idle", inst |-> node[n].inst + 1]
      BY <1>1, <2>3
    <3>2. node[n].inst + 1 \in Instances /\ node[n].inst + 1 <= retried' + 1
      BY <1>1, <1>4, <2>1, <2>2 DEF Instances
    <3> QED
      BY <3>1, <3>2
  <2>4. CASE node[n].st # "failed"
    <3>1. node'[n] = node[n]
      BY <1>1, <2>4
    <3> QED
      BY <1>1, <2>1, <2>2, <3>1
  <2> QED
    BY <2>3, <2>4
<1>7. RunTypeOK'
  BY <1>1, <1>4, <1>6 DEF RunTypeOK
<1>8. CountInv'
  BY <1>1, <1>6 DEF TypeInv, CountInv, Appended
<1> QED
  BY <1>2, <1>3, <1>5, <1>7, <1>8, TypePartsNext DEF TypeInv

LEMMA CleanUpType ==
  ASSUME TypeInv, NEW w \in Waits, CleanUp(w) \/ ClaimAges(w)
  PROVE  TypeInv'
<1>1. UNCHANGED <<mailbox, claim, receipts, waitVars>> /\ SameRun
  BY DEF CleanUp, ClaimAges
<1>2. task' \in [Tasks -> TaskState] /\ TasksOK' /\ ManagerTypeOK' /\ retried' = retried
  BY <1>1, StayedOn DEF SameRun
<1>3. StoreTypeOK
  BY TypeParts DEF TypeInv
<1>4. StoreTypeOK'
  <2>1. CASE CleanUp(w)
    BY <1>1, <1>3, <2>1, ResolveRecordType DEF CleanUp
  <2>2. CASE ClaimAges(w)
    <3>1. PICK a \in Ages : rec' = [rec EXCEPT ![w].age = a]
      BY <2>2 DEF ClaimAges, Ages
    <3> QED
      BY <1>1, <1>3, <3>1, RecordAged
  <2> QED
    BY <2>1, <2>2
<1>5. RunTypeOK' /\ CountInv'
  BY <1>1, <1>2, SameRunType DEF TypeInv
<1> QED
  BY <1>2, <1>4, <1>5, TypePartsNext DEF TypeInv

LEMMA DeadlineType ==
  ASSUME TypeInv, Deadline
  PROVE  TypeInv'
<1>1. task' \in [Tasks -> TaskState] /\ TasksOK' /\ ManagerTypeOK' /\ retried' = retried
  BY StayedOn DEF Deadline
<1>2. StoreTypeOK'
  BY TypeParts, SameStoreType DEF TypeInv, Deadline
<1>3. RunTypeOK' /\ CountInv'
  BY <1>1, TypeParts DEF TypeInv, RunTypeOK, CountInv, Appended, Deadline
<1> QED
  BY <1>1, <1>2, <1>3, TypePartsNext DEF TypeInv

LEMMA CrashType ==
  ASSUME TypeInv, NEW p \in Procs, Crash(p)
  PROVE  TypeInv'
<1>1. /\ alive' = alive \ {p} /\ timers' \subseteq timers
      /\ task' = [t \in Tasks |->
                    IF task[t].home # p THEN task[t]
                    ELSE IF t \in Publishers THEN Answer(t, "lost") ELSE Resting]
      /\ SameStore /\ SameRun /\ UNCHANGED <<heard, faults, retried>>
  BY DEF Crash
<1>2. ASSUME NEW t \in Tasks PROVE TaskOK(t, task[t])' /\ task'[t] \in TaskState
  <2>1. task[t] \in TaskState /\ TaskOK(t, task[t])
    BY TaskFields
  <2>2. CASE task[t].home # p
    <3>1. task'[t] = task[t]
      BY <1>1, <2>2
    <3> QED
      BY <1>1, <2>1, <2>2, <3>1 DEF TaskOK, SameRun
  <2>3. CASE task[t].home = p
    <3> DEFINE a == IF t \in Publishers THEN Answer(t, "lost") ELSE Resting
    <3>1. task'[t] = a
      BY <1>1, <2>3
    <3>2. TaskOK(t, a) /\ a.pc \in {"done", "idle"}
      BY RestingOK, AnswerOK DEF Answer, Resting
    <3> HIDE DEF a
    <3> QED
      BY <1>1, <3>1, <3>2 DEF TaskOK, SameRun
  <2> QED
    BY <2>2, <2>3
<1>3. task' \in [Tasks -> TaskState] /\ TasksOK'
  BY <1>1, <1>2 DEF TasksOK
<1>4. StoreTypeOK' /\ RunTypeOK' /\ CountInv'
  BY <1>1, TypeParts, SameStoreType, SameRunType DEF TypeInv
<1>5. ManagerTypeOK'
  BY <1>1, TypeParts DEF TypeInv, ManagerTypeOK
<1> QED
  BY <1>3, <1>4, <1>5, TypePartsNext DEF TypeInv

LEMMA TypeInit ==
  ASSUME Init PROVE TypeInv
<1>1. /\ MailboxInit /\ task = [t \in Tasks |-> Resting] /\ alive = Procs
      /\ timers = {} /\ heard = {} /\ faults = 0 /\ retried = 0
  BY DEF Init
<1>2. /\ MaxRetries \in Nat /\ MaxFaults \in Nat
      /\ Cardinality(Publishers) \in Nat
  BY MailboxAssumption, WaitsAssumption, FS_CardinalityType
<1>3. 1 \in Instances
  BY <1>2 DEF Instances
<1>4. RunTypeOK
  <2>1. order \in [Publishers -> 0..Cardinality(Publishers)]
    BY <1>1, <1>2 DEF MailboxInit
  <2>2. node \in [Nodes -> [st : {"idle", "running", "completed", "failed"},
                            inst : Instances]]
    BY <1>1, <1>3 DEF MailboxInit
  <2> QED
    BY <1>1, <2>1, <2>2 DEF MailboxInit, RunTypeOK
<1>5. NoRecord \in [st : {"none", "pending", "delivered", "expired", "cancelled"},
                    ev : Publishers \cup {None}, age : Ages]
  BY DEF NoRecord, Ages
<1>6. StoreTypeOK
  BY <1>1, <1>5, EmptySeq DEF MailboxInit, StoreTypeOK
<1>7. ManagerTypeOK
  BY <1>1, <1>2 DEF ManagerTypeOK
<1>8. Resting \in TaskState /\ Resting.pc = "idle" /\ Resting.pass = "no"
  BY DEF Resting, TaskState, Labels
<1>9. \A t \in Tasks : task[t] = Resting
  BY <1>1
<1>10. task \in [Tasks -> TaskState]
  BY <1>1, <1>8
<1>11. \A e \in Publishers : order[e] = 0
  BY <1>1 DEF MailboxInit
<1>12. TasksOK
  BY <1>8, <1>9, <1>11
  DEF TasksOK, TaskOK, WaitLabels, EventLabels, FreeLabels, PublishLabels
<1>13. CountInv
  <2>1. Cardinality(Appended) \in Nat
    BY MailboxAssumption, FS_Subset, FS_CardinalityType DEF Appended
  <2> QED
    BY <1>1, <1>2, <1>11, <2>1 DEF CountInv, MailboxInit
<1> QED
  BY <1>4, <1>6, <1>7, <1>10, <1>12, <1>13, TypeParts DEF TypeInv

LEMMA TypeNext ==
  ASSUME TypeInv, [Next]_vars
  PROVE  TypeInv'
<1>1. CASE UNCHANGED vars
  <2>1. UNCHANGED mailVars /\ UNCHANGED waitVars
    BY <1>1 DEF vars
  <2> QED
    BY <2>1, StayedOn, TypeParts, TypePartsNext
    DEF mailVars, TypeInv, StoreTypeOK, RunTypeOK, CountInv, Appended
<1>2. CASE RunNext
  BY <1>2, ParkType, CreateEventWaitType, StoreOverStep, FailType, RetryType
  DEF RunNext
<1>3. CASE RouseNext
  BY <1>3, StartDrainType, StartExpiryType, StartRetryType DEF RouseNext
<1>4. ASSUME NEW e \in Publishers, PublishStep(e) PROVE TypeInv'
  BY <1>4, AppendRunEventType, RereadType, JudgeType, ReadsType,
     RemoveRunEventType DEF PublishStep
<1>5. ASSUME NEW e \in Publishers, NEW p \in Procs, Publish(e, p) PROVE TypeInv'
  BY <1>5, PublishType
<1>6. ASSUME NEW t \in Tasks, Step(t) PROVE TypeInv'
  BY <1>6, OpenSessionType, RecoverType, InspectType, RestoreType, ScanType,
     EndPassType, DrainWaitType, DeliverType, PatchType, ResumeRunType,
     RetireType, CancelStaleType, FinalizeType, RetryCommittedType,
     CheckDeadlineType, ResolveDeadlineType, LookType, FailCasType,
     EndTimedType DEF Step
<1>7. ASSUME NEW t \in Tasks, Disturb(t) PROVE TypeInv'
  BY <1>7, DeliverFailsType, PatchRejectedType, ResumeRefusedType DEF Disturb
<1>8. ASSUME NEW w \in Waits, CleanUp(w) PROVE TypeInv'
  BY <1>8, CleanUpType
<1>9. CASE Time
  BY <1>9, DeadlineType, CleanUpType DEF Time
<1>10. ASSUME NEW p \in Procs, Crash(p) PROVE TypeInv'
  BY <1>10, CrashType
<1> QED
  BY <1>1, <1>2, <1>3, <1>4, <1>5, <1>6, <1>7, <1>8, <1>9, <1>10 DEF Next

(* Whatever fails and whoever overtakes whom, records, claims, timers and  *)
(* the state of every actor stay within their types: no instance beyond    *)
(* the retries, no more publication orders than publications, no timer of  *)
(* a process that does not exist.                                          *)
THEOREM EventWaitsType == Spec => []TypeOK
<1>1. TypeInv => TypeOK
  BY DEF TypeInv
<1> QED
  BY <1>1, TypeInit, TypeNext, PTL DEF Spec

---------------------------------------------------------------------------
(* The mailbox is in the order of publication, without duplicates, and a   *)
(* claimed event is not in it.                                             *)

InOrder(m) ==
  \A i, j \in 1..Len(m) : i < j => order[m[i]] < order[m[j]]

MailInv ==
  /\ \A e \in Publishers : Buffered(e) \/ claim[e] # None => order[e] > 0
  /\ \A e \in Publishers : claim[e] # None => ~Buffered(e)
  /\ \A e, f \in Publishers : order[e] = order[f] /\ order[e] > 0 => e = f
  /\ InOrder(mailbox)

LEMMA MailTypes ==
  ASSUME TypeInv
  PROVE  /\ mailbox \in Seq(Publishers) /\ Len(mailbox) \in Nat
         /\ DOMAIN mailbox = 1..Len(mailbox)
         /\ \A i \in 1..Len(mailbox) : mailbox[i] \in Publishers
         /\ order \in [Publishers -> Nat]
         /\ \A e \in Publishers : order[e] \in Nat
         /\ claim \in [Publishers -> Waits \cup {None}]
         /\ None \notin Waits /\ None \notin Publishers
         /\ MailboxTypeOK
<1>1. MailboxTypeOK
  BY DEF TypeInv, TypeOK
<1>2. order \in [Publishers -> Nat]
  BY <1>1, MailboxAssumption, FS_CardinalityType DEF MailboxTypeOK
<1> QED
  BY <1>1, <1>2, PositionsOK, NoneAssumption DEF MailboxTypeOK

LEMMA BufferedAt ==
  ASSUME TypeInv, NEW e
  PROVE  Buffered(e) <=> \E i \in 1..Len(mailbox) : mailbox[i] = e
BY MailTypes DEF Buffered, Range

(* An entry taken out of a mailbox in order leaves it in order.            *)
LEMMA RemoveKeepsOrder ==
  ASSUME TypeInv, InOrder(mailbox), NEW i \in 1..Len(mailbox)
  PROVE  /\ InOrder(RemoveAt(mailbox, i))
         /\ \A e : e \in Range(RemoveAt(mailbox, i)) <=>
                   Buffered(e) /\ e # mailbox[i]
<1> DEFINE m == RemoveAt(mailbox, i)
<1>1. /\ mailbox \in Seq(Publishers) /\ Len(mailbox) \in Nat
      /\ \A j \in 1..Len(mailbox) : mailbox[j] \in Publishers
      /\ \A e \in Publishers : order[e] \in Nat
  BY MailTypes
<1>2. /\ m \in Seq(Publishers) /\ Len(m) = Len(mailbox) - 1
      /\ \A j \in 1..(Len(mailbox) - 1) :
           m[j] = IF j < i THEN mailbox[j] ELSE mailbox[j + 1]
  BY <1>1, RemoveAtProps
<1> HIDE DEF m
<1> SUFFICES /\ InOrder(m)
             /\ \A e : e \in Range(m) <=> Buffered(e) /\ e # mailbox[i]
  BY DEF m
<1>3. InOrder(m)
  <2> SUFFICES ASSUME NEW j \in 1..(Len(mailbox) - 1),
                      NEW k \in 1..(Len(mailbox) - 1), j < k
               PROVE  order[m[j]] < order[m[k]]
    BY <1>2 DEF InOrder
  <2> DEFINE jj == IF j < i THEN j ELSE j + 1
             kk == IF k < i THEN k ELSE k + 1
  <2>1. m[j] = mailbox[jj] /\ m[k] = mailbox[kk]
    BY <1>1, <1>2
  <2>2. jj \in 1..Len(mailbox) /\ kk \in 1..Len(mailbox) /\ jj < kk
    BY <1>1
  <2> HIDE DEF jj, kk
  <2> QED
    BY <2>1, <2>2 DEF InOrder
<1>4. \A j \in 1..Len(mailbox) : j # i => mailbox[j] # mailbox[i]
  <2> SUFFICES ASSUME NEW j \in 1..Len(mailbox), j # i
               PROVE  mailbox[j] # mailbox[i]
    OBVIOUS
  <2>1. j < i \/ i < j
    BY <1>1
  <2>2. order[mailbox[j]] < order[mailbox[i]] \/ order[mailbox[i]] < order[mailbox[j]]
    BY <2>1 DEF InOrder
  <2> QED
    BY <1>1, <2>2
<1>5. ASSUME NEW e, e \in Range(m) PROVE Buffered(e) /\ e # mailbox[i]
  <2>1. PICK j \in 1..(Len(mailbox) - 1) : m[j] = e
    BY <1>2, <1>5, InRange
  <2> DEFINE jj == IF j < i THEN j ELSE j + 1
  <2>2. e = mailbox[jj] /\ jj \in 1..Len(mailbox) /\ jj # i
    BY <1>1, <1>2, <2>1
  <2> HIDE DEF jj
  <2> QED
    BY <1>4, <2>2, BufferedAt
<1>6. ASSUME NEW e, Buffered(e), e # mailbox[i] PROVE e \in Range(m)
  <2>1. PICK j \in 1..Len(mailbox) : mailbox[j] = e /\ j # i
    BY <1>6, BufferedAt
  <2> DEFINE jj == IF j < i THEN j ELSE j - 1
  <2>2. jj \in 1..(Len(mailbox) - 1)
    BY <1>1, <2>1
  <2>3. m[jj] = e
    <3>1. CASE j < i
      BY <1>1, <1>2, <2>1, <2>2, <3>1
    <3>2. CASE ~(j < i)
      <4>1. jj = j - 1 /\ ~(jj < i) /\ jj + 1 = j
        BY <1>1, <2>1, <3>2
      <4> QED
        BY <1>2, <2>1, <2>2, <4>1
    <3> QED
      BY <3>1, <3>2
  <2> QED
    BY <1>2, <2>2, <2>3, InRange
<1> QED
  BY <1>3, <1>5, <1>6

(* restoreRetainedRunEvent puts an event where its order says.             *)
LEMMA PutBackKeepsOrder ==
  ASSUME TypeInv, MailInv, NEW e \in Publishers, ~Buffered(e), order[e] > 0
  PROVE  /\ InOrder(PutBack(e))
         /\ \A f : f \in Range(PutBack(e)) <=> Buffered(f) \/ f = e
<1> DEFINE later == {k \in DOMAIN mailbox : order[mailbox[k]] > order[e]}
           i == IF later = {} THEN Len(mailbox) + 1 ELSE Oldest(later)
           m == InsertAt(mailbox, i, e)
<1>1. /\ mailbox \in Seq(Publishers) /\ Len(mailbox) \in Nat
      /\ DOMAIN mailbox = 1..Len(mailbox)
      /\ \A k \in 1..Len(mailbox) : mailbox[k] \in Publishers
      /\ \A f \in Publishers : order[f] \in Nat
      /\ MailboxTypeOK
  BY MailTypes
<1>2. /\ i \in 1..(Len(mailbox) + 1)
      /\ \A k \in 1..Len(mailbox) : k < i => ~(order[mailbox[k]] > order[e])
      /\ \A k \in 1..Len(mailbox) : k >= i => order[mailbox[k]] > order[e]
  <2>1. CASE later = {}
    BY <1>1, <2>1
  <2>2. CASE later # {}
    <3>1. later \in SUBSET (DOMAIN mailbox)
      OBVIOUS
    <3>2. /\ Oldest(later) \in later /\ Oldest(later) \in 1..Len(mailbox)
          /\ \A j \in later : Oldest(later) <= j
      <4> HIDE DEF later
      <4> QED
        BY <1>1, <2>2, <3>1, PositionsOK
    <3>3. i = Oldest(later)
      BY <2>2
    <3> HIDE DEF i
    <3>4. i \in 1..Len(mailbox) /\ order[mailbox[i]] > order[e]
      BY <3>2, <3>3
    <3>5. ASSUME NEW k \in 1..Len(mailbox), k < i
          PROVE  ~(order[mailbox[k]] > order[e])
      <4> SUFFICES ASSUME order[mailbox[k]] > order[e] PROVE FALSE
        OBVIOUS
      <4>1. k \in later
        BY <1>1
      <4>2. i <= k
        BY <3>2, <3>3, <4>1
      <4> QED
        BY <1>1, <3>4, <3>5, <4>2
    <3>6. ASSUME NEW k \in 1..Len(mailbox), k >= i
          PROVE  order[mailbox[k]] > order[e]
      <4>1. CASE k = i
        BY <3>4, <4>1
      <4>2. CASE k # i
        <5>1. i < k
          BY <3>4, <3>6, <4>2
        <5>2. order[mailbox[i]] < order[mailbox[k]]
          BY <3>4, <5>1 DEF MailInv, InOrder
        <5> QED
          BY <1>1, <3>4, <5>2
      <4> QED
        BY <4>1, <4>2
    <3> QED
      BY <1>1, <3>4, <3>5, <3>6
  <2> QED
    BY <2>1, <2>2
<1>3. PutBack(e) = m
  BY DEF PutBack
<1> HIDE DEF i, later
<1>4. /\ m \in Seq(Publishers) /\ Len(m) = Len(mailbox) + 1
      /\ \A j \in 1..(Len(mailbox) + 1) :
           m[j] = IF j < i THEN mailbox[j] ELSE IF j = i THEN e ELSE mailbox[j - 1]
  <2>1. mailbox \in Seq(Publishers) /\ i \in 1..(Len(mailbox) + 1)
    BY <1>1, <1>2
  <2> DEFINE Put(s, h, x) ==
               /\ InsertAt(s, h, x) \in Seq(Publishers)
               /\ Len(InsertAt(s, h, x)) = Len(s) + 1
               /\ \A j \in 1..(Len(s) + 1) :
                    InsertAt(s, h, x)[j] =
                      IF j < h THEN s[j] ELSE IF j = h THEN x ELSE s[j - 1]
  <2>2. ASSUME NEW s \in Seq(Publishers), NEW h \in 1..(Len(s) + 1),
               NEW x \in Publishers
        PROVE  Put(s, h, x)
    BY InsertAtProps
  <2> HIDE DEF Put
  <2>3. Put(mailbox, i, e)
    BY <2>1, <2>2
  <2> QED
    BY <2>3 DEF Put
<1> HIDE DEF m
<1>5. \A k \in 1..Len(mailbox) : k < i => order[mailbox[k]] < order[e]
  <2> SUFFICES ASSUME NEW k \in 1..Len(mailbox), k < i
               PROVE  order[mailbox[k]] < order[e]
    OBVIOUS
  <2>1. mailbox[k] # e
    BY BufferedAt
  <2>2. order[mailbox[k]] # order[e]
    BY <1>1, <2>1 DEF MailInv
  <2> QED
    BY <1>1, <1>2, <2>2
<1>6. InOrder(m)
  <2> SUFFICES ASSUME NEW j \in 1..(Len(mailbox) + 1),
                      NEW k \in 1..(Len(mailbox) + 1), j < k
               PROVE  order[m[j]] < order[m[k]]
    BY <1>4 DEF InOrder
  <2>0. i \in Nat /\ j \in Nat /\ k \in Nat
    BY <1>1, <1>2
  <2>1. CASE k < i
    <3>1. m[j] = mailbox[j] /\ m[k] = mailbox[k]
          /\ j \in 1..Len(mailbox) /\ k \in 1..Len(mailbox)
      BY <1>1, <1>2, <1>4, <2>0, <2>1
    <3> QED
      BY <3>1 DEF MailInv, InOrder
  <2>2. CASE k = i
    <3>1. m[j] = mailbox[j] /\ m[k] = e /\ j \in 1..Len(mailbox)
      BY <1>1, <1>2, <1>4, <2>0, <2>2
    <3> QED
      BY <1>5, <2>2, <3>1
  <2>3. CASE k > i
    <3>1. m[k] = mailbox[k - 1] /\ k - 1 \in 1..Len(mailbox) /\ k - 1 >= i
      BY <1>1, <1>2, <1>4, <2>0, <2>3
    <3>2. order[mailbox[k - 1]] > order[e]
      BY <1>2, <3>1
    <3>3. CASE j < i
      <4>1. m[j] = mailbox[j] /\ j \in 1..Len(mailbox) /\ j < k - 1
        BY <1>1, <1>2, <1>4, <2>0, <2>3, <3>3
      <4> QED
        BY <3>1, <4>1 DEF MailInv, InOrder
    <3>4. CASE j = i
      <4>1. m[j] = e
        BY <1>4, <2>0, <3>4
      <4> QED
        BY <1>1, <3>1, <3>2, <4>1
    <3>5. CASE j > i
      <4>1. m[j] = mailbox[j - 1] /\ j - 1 \in 1..Len(mailbox) /\ j - 1 < k - 1
        BY <1>1, <1>2, <1>4, <2>0, <2>3, <3>5
      <4> QED
        BY <3>1, <4>1 DEF MailInv, InOrder
    <3> QED
      BY <2>0, <3>3, <3>4, <3>5
  <2> QED
    BY <2>0, <2>1, <2>2, <2>3
<1>7. ASSUME NEW f, f \in Range(m) PROVE Buffered(f) \/ f = e
  <2>1. PICK j \in 1..(Len(mailbox) + 1) : m[j] = f
    BY <1>4, <1>7, InRange
  <2>2. CASE j < i
    BY <1>1, <1>2, <1>4, <2>1, <2>2, BufferedAt
  <2>3. CASE j = i
    BY <1>4, <2>1, <2>3
  <2>4. CASE j > i
    <3>1. m[j] = mailbox[j - 1] /\ j - 1 \in 1..Len(mailbox)
      BY <1>1, <1>2, <1>4, <2>4
    <3> QED
      BY <2>1, <3>1, BufferedAt
  <2> QED
    BY <1>1, <1>2, <2>2, <2>3, <2>4
<1>8. ASSUME NEW f, Buffered(f) PROVE f \in Range(m)
  <2>1. PICK j \in 1..Len(mailbox) : mailbox[j] = f
    BY <1>8, BufferedAt
  <2>2. CASE j < i
    <3>1. j \in 1..(Len(mailbox) + 1) /\ m[j] = f
      BY <1>1, <1>4, <2>1, <2>2
    <3> QED
      BY <1>4, <3>1, InRange
  <2>3. CASE ~(j < i)
    <3>1. j + 1 \in 1..(Len(mailbox) + 1) /\ m[j + 1] = mailbox[j]
      BY <1>1, <1>2, <1>4, <2>3
    <3> QED
      BY <1>4, <2>1, <3>1, InRange
  <2> QED
    BY <2>2, <2>3
<1>9. e \in Range(m)
  <2>1. m[i] = e
    BY <1>1, <1>2, <1>4
  <2> QED
    BY <1>1, <1>2, <1>4, <2>1, InRange
<1> QED
  BY <1>3, <1>6, <1>7, <1>8, <1>9

(* What the calls do to the mailbox                                        *)

LEMMA AppendMail ==
  ASSUME TypeInv, MailInv, NEW e \in Publishers, order[e] = 0, Append1(e)
  PROVE  /\ MailInv'
         /\ \A f \in Publishers : Buffered(f)' <=> Buffered(f) \/ f = e
         /\ \A f \in Publishers : (order'[f] > 0) <=> (order[f] > 0 \/ f = e)
         /\ \A f \in Publishers : f # e => order'[f] = order[f]
         /\ ~Buffered(e) /\ claim[e] = None
<1> DEFINE n == Len(mailbox)
           k == 1 + Cardinality(Appended)
<1>1. /\ mailbox' = Append(mailbox, e) /\ claim' = claim
      /\ order' = [order EXCEPT ![e] = k]
  BY DEF Append1, Appended
<1>2. /\ mailbox \in Seq(Publishers) /\ n \in Nat
      /\ \A i \in 1..n : mailbox[i] \in Publishers
      /\ order \in [Publishers -> Nat]
      /\ \A f \in Publishers : order[f] \in Nat
  BY MailTypes
<1>3. k \in Nat /\ k > 0 /\ \A f \in Publishers : order[f] < k
  <2>1. /\ Cardinality(Appended) \in Nat
        /\ \A f \in Publishers : order[f] < Cardinality(Appended) + 1
    BY NextOrder
  <2> QED
    BY <1>2, <2>1
<1>4. /\ mailbox' \in Seq(Publishers) /\ Len(mailbox') = n + 1
      /\ \A i \in 1..n : mailbox'[i] = mailbox[i]
      /\ mailbox'[n + 1] = e
  BY <1>1, <1>2, AppendProperties
<1> HIDE DEF n, k
<1>5. \A f \in Publishers : order'[f] = IF f = e THEN k ELSE order[f]
  BY <1>1, <1>2
<1>6. \A f \in Publishers : (order'[f] > 0) <=> (order[f] > 0 \/ f = e)
  BY <1>2, <1>3, <1>5
<1>7. ~Buffered(e) /\ claim[e] = None
  BY DEF MailInv
<1>8. ASSUME NEW f \in Publishers
      PROVE  Buffered(f)' <=> Buffered(f) \/ f = e
  <2>1. Buffered(f)' <=> \E i \in 1..(n + 1) : mailbox'[i] = f
    <3>1. f \in Range(mailbox') <=> \E i \in 1..Len(mailbox') : mailbox'[i] = f
      BY <1>4, InRange
    <3> QED
      BY <1>4, <3>1 DEF Buffered
  <2>2. Buffered(f) <=> \E i \in 1..n : mailbox[i] = f
    BY BufferedAt DEF n
  <2>3. \A i \in 1..(n + 1) : i \in 1..n \/ i = n + 1
    BY <1>2
  <2>4. n + 1 \in 1..(n + 1) /\ \A i \in 1..n : i \in 1..(n + 1)
    BY <1>2
  <2> QED
    BY <1>4, <2>1, <2>2, <2>3, <2>4
<1>9. InOrder(mailbox)'
  <2> SUFFICES ASSUME NEW i \in 1..(n + 1), NEW j \in 1..(n + 1), i < j
               PROVE  order'[mailbox'[i]] < order'[mailbox'[j]]
    BY <1>4 DEF InOrder
  <2>1. i \in 1..n /\ mailbox'[i] = mailbox[i]
    BY <1>2, <1>4
  <2>2. mailbox[i] \in Publishers /\ mailbox[i] # e
    BY <1>2, <1>7, <2>1, BufferedAt DEF n
  <2>3. order'[mailbox'[i]] = order[mailbox[i]]
    BY <1>5, <2>1, <2>2
  <2>4. CASE j = n + 1
    BY <1>3, <1>4, <1>5, <2>2, <2>3, <2>4
  <2>5. CASE j # n + 1
    <3>1. j \in 1..n /\ mailbox'[j] = mailbox[j]
      BY <1>2, <1>4, <2>5
    <3>2. mailbox[j] \in Publishers /\ mailbox[j] # e
      BY <1>2, <1>7, <3>1, BufferedAt DEF n
    <3>3. order[mailbox[i]] < order[mailbox[j]]
      BY <2>1, <3>1 DEF MailInv, InOrder, n
    <3> QED
      BY <1>5, <2>3, <3>1, <3>2, <3>3
  <2> QED
    BY <2>4, <2>5
<1>10. \A f, g \in Publishers : order'[f] = order'[g] /\ order'[f] > 0 => f = g
  <2> SUFFICES ASSUME NEW f \in Publishers, NEW g \in Publishers,
                      order'[f] = order'[g], order'[f] > 0
               PROVE  f = g
    OBVIOUS
  <2>1. order[f] < k /\ order[g] < k
    BY <1>3
  <2> QED
    BY <1>2, <1>3, <1>5, <2>1 DEF MailInv
<1>11. \A f \in Publishers :
         /\ Buffered(f)' \/ claim'[f] # None => order'[f] > 0
         /\ claim'[f] # None => ~Buffered(f)'
  BY <1>1, <1>6, <1>7, <1>8 DEF MailInv
<1> QED
  BY <1>5, <1>6, <1>7, <1>8, <1>9, <1>10, <1>11 DEF MailInv

LEMMA ClaimMail ==
  ASSUME TypeInv, MailInv, NEW w \in Waits, ClaimEvent(w), order' = order
  PROVE  LET e == rec'[w].ev IN
         /\ MailInv'
         /\ e \in Publishers /\ Buffered(e) /\ claim[e] = None
         /\ claim' = [claim EXCEPT ![e] = w]
         /\ rec' = [rec EXCEPT ![w] = [st |-> "delivered", ev |-> e,
                                       age |-> "new"]]
         /\ \A f \in Publishers : Buffered(f)' <=> Buffered(f) /\ f # e
<1> DEFINE i == Oldest(Takeable(w))
           e == mailbox[i]
<1>1. /\ mailbox \in Seq(Publishers) /\ Len(mailbox) \in Nat
      /\ DOMAIN mailbox = 1..Len(mailbox)
      /\ claim \in [Publishers -> Waits \cup {None}] /\ None \notin Waits
      /\ MailboxTypeOK
  BY MailTypes
<1>2. i \in 1..Len(mailbox) /\ e \in Publishers
  BY <1>1, PositionsOK DEF ClaimEvent, Takeable
<1>3. /\ mailbox' = RemoveAt(mailbox, i)
      /\ claim' = [claim EXCEPT ![e] = w]
      /\ rec' = [rec EXCEPT ![w] = [st |-> "delivered", ev |-> e,
                                    age |-> "new"]]
  BY DEF ClaimEvent
<1> HIDE DEF i
<1>4. rec'[w].ev = e
  BY <1>1, <1>3 DEF MailboxTypeOK
<1>5. InOrder(mailbox)
  BY DEF MailInv
<1>6. InOrder(mailbox)' /\ \A f : Buffered(f)' <=> Buffered(f) /\ f # e
  BY <1>2, <1>3, <1>5, RemoveKeepsOrder DEF InOrder, Buffered
<1>7. Buffered(e)
  BY <1>2, BufferedAt
<1> HIDE DEF e
<1>8. claim[e] = None
  BY <1>1, <1>2, <1>7 DEF MailInv
<1>9. \A f \in Publishers :
         /\ Buffered(f)' \/ claim'[f] # None => order'[f] > 0
         /\ claim'[f] # None => ~Buffered(f)'
  BY <1>1, <1>2, <1>3, <1>6, <1>7 DEF MailInv
<1>10. MailInv'
  BY <1>6, <1>9 DEF MailInv
<1> QED
  BY <1>2, <1>3, <1>4, <1>6, <1>7, <1>8, <1>10

LEMMA RestoreMail ==
  ASSUME TypeInv, MailInv, NEW w \in Waits, NEW e \in Publishers,
         RestoreDelivery(w, e), order' = order
  PROVE  /\ MailInv'
         /\ claim[e] = w => \A f \in Publishers : Buffered(f)' <=> Buffered(f) \/ f = e
<1>1. /\ claim \in [Publishers -> Waits \cup {None}] /\ None \notin Waits
  BY MailTypes
<1>2. CASE claim[e] # w
  BY <1>2 DEF RestoreDelivery, MailInv, InOrder, Buffered
<1>3. CASE claim[e] = w
  <2>1. /\ mailbox' = PutBack(e) /\ claim' = [claim EXCEPT ![e] = None]
        /\ ~Buffered(e) /\ order[e] > 0
    BY <1>1, <1>3 DEF RestoreDelivery, MailInv
  <2>2. InOrder(mailbox)' /\ \A f : Buffered(f)' <=> Buffered(f) \/ f = e
    BY <2>1, PutBackKeepsOrder DEF InOrder, Buffered
  <2>3. \A f \in Publishers :
         /\ Buffered(f)' \/ claim'[f] # None => order'[f] > 0
         /\ claim'[f] # None => ~Buffered(f)'
    BY <1>1, <1>3, <2>1, <2>2 DEF MailInv
  <2> QED
    BY <2>2, <2>3 DEF MailInv
<1> QED
  BY <1>2, <1>3

(* Claims only go, and the mailbox stays or is emptied.                    *)
LEMMA DropMail ==
  ASSUME TypeInv, MailInv, mailbox' \in {mailbox, <<>>}, order' = order,
         \A f \in Publishers : claim'[f] \in {claim[f], None}
  PROVE  /\ MailInv'
         /\ mailbox' = <<>> => \A f \in Publishers : ~Buffered(f)'
<1>1. CASE mailbox' = mailbox
  BY <1>1, BufferedAt DEF MailInv, InOrder, Buffered, Range
<1>2. CASE mailbox' = <<>>
  <2>1. Len(mailbox') = 0 /\ DOMAIN mailbox' = {}
    BY <1>2
  <2>2. \A f : ~Buffered(f)'
    BY <2>1 DEF Buffered, Range
  <2>3. InOrder(mailbox)'
    BY <2>1 DEF InOrder
  <2> QED
    BY <2>2, <2>3 DEF MailInv
<1> QED
  BY <1>1, <1>2

LEMMA WithoutMail ==
  ASSUME TypeInv, MailInv, NEW e \in Publishers, mailbox' = Without(e),
         UNCHANGED <<order, claim>>
  PROVE  MailInv' /\ \A f \in Publishers : Buffered(f)' <=> Buffered(f) /\ f # e
<1> DEFINE entries == {i \in DOMAIN mailbox : mailbox[i] = e}
<1>1. /\ DOMAIN mailbox = 1..Len(mailbox) /\ MailboxTypeOK /\ InOrder(mailbox)
  BY MailTypes DEF MailInv
<1>2. CASE entries = {}
  <2>1. mailbox' = mailbox
    BY <1>2 DEF Without
  <2>2. ~Buffered(e)
    BY <1>1, <1>2, BufferedAt
  <2> QED
    BY <2>1, <2>2 DEF MailInv, InOrder, Buffered
<1>3. CASE entries # {}
  <2>1. Oldest(entries) \in entries /\ Oldest(entries) \in 1..Len(mailbox)
    BY <1>1, <1>3, PositionsOK
  <2>2. mailbox' = RemoveAt(mailbox, Oldest(entries))
    BY <1>3 DEF Without
  <2>3. mailbox[Oldest(entries)] = e
    BY <2>1
  <2> HIDE DEF entries
  <2>4. InOrder(mailbox)' /\ \A f : Buffered(f)' <=> Buffered(f) /\ f # e
    BY <1>1, <2>1, <2>2, <2>3, RemoveKeepsOrder DEF InOrder, Buffered
  <2> QED
    BY <2>4 DEF MailInv
<1> QED
  BY <1>2, <1>3

LEMMA MailSame ==
  ASSUME MailInv, UNCHANGED <<mailbox, order, claim>>
  PROVE  MailInv'
BY DEF MailInv, InOrder, Buffered

(* Every call goes through one of these.                                   *)
LEMMA MailNext ==
  ASSUME TypeInv, MailInv, [Next]_vars
  PROVE  MailInv'
<1>1. CASE UNCHANGED vars
  BY <1>1, MailSame DEF vars, mailVars
<1>2. CASE RunNext
  <2>1. CASE \E n \in Nodes : Park(n) \/ CreateEventWait(n)
    BY <2>1, MailSame DEF Park, CreateEventWait, SameRun
  <2>2. CASE Complete \/ Cancel
    <3>1. mailbox' = <<>> /\ order' = order /\ \A f \in Publishers : claim'[f] = None
      BY <2>2 DEF Complete, Cancel, StoreOver
    <3> QED
      BY <3>1, DropMail
  <2>3. CASE Fail \/ Retry
    BY <2>3, MailSame DEF Fail, Retry
  <2> QED
    BY <1>2, <2>1, <2>2, <2>3 DEF RunNext
<1>3. CASE RouseNext
  <2>1. ASSUME NEW k \in Keepers, NEW p \in Procs, StartDrain(k, p)
        PROVE  UNCHANGED <<mailbox, order, claim>>
    BY <2>1
    DEF StartDrain, Rouse, SameStore, SameRun, Unfaulted
  <2>2. ASSUME NEW k \in Keepers, NEW p \in Procs, NEW w \in Waits,
               StartExpiry(k, p, w)
        PROVE  UNCHANGED <<mailbox, order, claim>>
    BY <2>2
    DEF StartExpiry, Rouse, SameStore, SameRun, Unfaulted
  <2>3. ASSUME NEW k \in Keepers, NEW p \in Procs, NEW w \in Waits,
               NEW e \in Publishers \cup {None}, StartRetry(k, p, w, e)
        PROVE  UNCHANGED <<mailbox, order, claim>>
    BY <2>3
    DEF StartRetry, Rouse, SameStore, SameRun
  <2> QED
    BY <1>3, <2>1, <2>2, <2>3, MailSame DEF RouseNext
<1>4. ASSUME NEW e \in Publishers, PublishStep(e) PROVE MailInv'
  <2>1. CASE AppendRunEvent(e)
    <3>1. order[e] = 0
      BY <2>1, TaskFields DEF AppendRunEvent, At, Tasks, TaskOK
    <3>2. Append1(e) \/ UNCHANGED <<mailbox, order, claim>>
      BY <2>1 DEF AppendRunEvent, SameStore
    <3> QED
      BY <3>1, <3>2, AppendMail, MailSame
  <2>2. CASE RemoveRunEvent(e)
    BY <2>2, WithoutMail DEF RemoveRunEvent, SameRun
  <2>3. CASE Reread(e) \/ Judge(e) \/ ReadNode(e) \/ ReadReceipt(e) \/ Latest(e)
    BY <2>3, MailSame
    DEF Reread, Judge, ReadNode, ReadReceipt, Latest, SameStore, SameRun
  <2> QED
    BY <1>4, <2>1, <2>2, <2>3 DEF PublishStep
<1>5. ASSUME NEW e \in Publishers, NEW p \in Procs, Publish(e, p) PROVE MailInv'
  BY <1>5, MailSame DEF Publish, SameStore
<1>6. ASSUME NEW t \in Tasks, Step(t) PROVE MailInv'
  <2>0. TaskOK(t, task[t]) /\ task[t] \in TaskState
    BY TaskFields
  <2>1. CASE Restore(t) \/ RollBack(t) \/ (Retire(t) /\ ~IsTimed(t))
    <3>1. Cur(t) \in Waits /\ Ev(t) \in Publishers
      BY <2>0, <2>1
      DEF Restore, RollBack, Retire, At, IsTimed, Cur, Ev, TaskOK, TaskState,
          WaitLabels, EventLabels
    <3>2. RestoreDelivery(Cur(t), Ev(t)) /\ order' = order
      BY <2>1 DEF Restore, RollBack, Retire, SameRun
    <3> QED
      BY <3>1, <3>2, RestoreMail
  <2>2. CASE Finalize(t)
    <3>1. Ev(t) \in Publishers
      BY <2>0, <2>2 DEF Finalize, Ev, TaskOK, EventLabels
    <3>2. FinalizeDelivery(Ev(t), At(t, "finalize")) /\ order' = order
      BY <2>2 DEF Finalize, SameRun
    <3>3. mailbox' = mailbox /\ claim' \in {claim, [claim EXCEPT ![Ev(t)] = None]}
      BY <3>2 DEF FinalizeDelivery
    <3>4. \A f \in Publishers : claim'[f] \in {claim[f], None}
      BY <3>1, <3>3, MailTypes
    <3> QED
      BY <3>2, <3>3, <3>4, DropMail
  <2>3. CASE DrainWait(t)
    <3>1. order' = order
      BY <2>3 DEF DrainWait, SameRun
    <3>2. (\E x \in task[t].todo : ClaimEvent(x[1])) \/ SameStore
      BY <2>3 DEF DrainWait
    <3>3. \A x \in task[t].todo : x[1] \in Waits
      BY <2>0 DEF TaskState
    <3>4. CASE SameStore
      BY <3>1, <3>4, MailSame DEF SameStore
    <3> QED
      BY <3>1, <3>2, <3>3, <3>4, ClaimMail
  <2>4. CASE \/ OpenSession(t) \/ Recover(t) \/ Inspect(t)
             \/ Scan(t) \/ EndPass(t) \/ Deliver(t) \/ Patch(t) \/ ResumeRun(t)
             \/ (Retire(t) /\ IsTimed(t)) \/ CancelStale(t)
    BY <2>4, MailSame
    DEF OpenSession, Recover, Inspect, Scan, EndPass, Deliver, Patch, ResumeRun,
        Retire, CancelStale, SameStore, SameRun
  <2>5. CASE \/ RetryCommitted(t) \/ CheckDeadline(t) \/ ResolveDeadline(t)
             \/ LookAgain(t) \/ FailRead(t) \/ FailCas(t) \/ EndTimed(t)
    BY <2>5, MailSame
    DEF RetryCommitted, CheckDeadline, ResolveDeadline, LookAgain, FailRead,
        FailCas, EndTimed, SameStore, SameRun
  <2> QED
    BY <1>6, <2>1, <2>2, <2>3, <2>4, <2>5 DEF Step
<1>7. ASSUME NEW t \in Tasks, Disturb(t) PROVE MailInv'
  BY <1>7, MailSame
  DEF Disturb, DeliverFails, PatchRejected, ResumeRefused, SameStore, SameRun
<1>8. ASSUME NEW w \in Waits, CleanUp(w) PROVE MailInv'
  BY <1>8, MailSame DEF CleanUp, SameRun
<1>9. CASE Time
  BY <1>9, MailSame DEF Time, Deadline, ClaimAges, SameStore, SameRun
<1>10. ASSUME NEW p \in Procs, Crash(p) PROVE MailInv'
  BY <1>10, MailSame DEF Crash, SameStore, SameRun
<1> QED
  BY <1>1, <1>2, <1>3, <1>4, <1>5, <1>6, <1>7, <1>8, <1>9, <1>10 DEF Next

LEMMA MailInit ==
  ASSUME Init PROVE MailInv
<1>1. /\ mailbox = <<>> /\ order = [e \in Publishers |-> 0]
      /\ claim = [e \in Publishers |-> None]
  BY DEF Init, MailboxInit
<1>2. Len(mailbox) = 0 /\ DOMAIN mailbox = {}
  BY <1>1
<1>3. \A e : ~Buffered(e)
  BY <1>2 DEF Buffered, Range
<1> QED
  BY <1>1, <1>2, <1>3 DEF MailInv, InOrder

(* The mailbox is in the order of publication at all times, with any       *)
(* number of publishers and processes, whatever claims are given back in   *)
(* whatever order, also by an actor that was overtaken (PutBack of         *)
(* restoreRunEventDelivery next to appendRunEvent and removeRunEvent).     *)
THEOREM MailboxOrdered == Spec => []MailInOrder
<1>1. TypeInv /\ MailInv => MailInOrder
  BY MailTypes DEF MailInv, InOrder, MailInOrder
<1>2. Init => TypeInv /\ MailInv
  BY TypeInit, MailInit
<1>3. TypeInv /\ MailInv /\ [Next]_vars => (TypeInv /\ MailInv)'
  BY TypeNext, MailNext
<1> QED
  BY <1>1, <1>2, <1>3, PTL DEF Spec

---------------------------------------------------------------------------
(* Orderly executions: no claim ages while its holder is at work, the      *)
(* owner of the run does not change, no backend call is rejected, and      *)
(* either no process dies or there are no more than two of them, so that   *)
(* one recovers alone.  The run may fail, be retried, cancelled and        *)
(* completed at any time.  Each condition is needed by one of the four     *)
(* properties below: without it the code loses, repeats or replaces a      *)
(* delivery.                                                               *)

Orderly ==
  /\ ~Async /\ ~Churn /\ MaxFaults = 0
  /\ MaxCrashes = 0 \/ \A p, q, r \in Procs : p = q \/ q = r \/ p = r

\* Where an actor has a claim in hand, and where the wait is still open.
Holding == {"inspect", "restore", "deliver", "patch", "resume", "finalize",
            "discard", "rollback", "expired", "failRead", "failCas",
            "finTimed", "restTimed"}
OpenLabels == {"deliver", "patch", "rollback", "restore", "expired",
               "failRead", "failCas", "restTimed"}

Open(w) == CurrentExecution(w) /\ node[NodeOf(w)].st = "running"

Kept(w) == \E t \in Tasks : task[t].pc \in Holding /\ task[t].cur = w

Landed(e) == \E w \in Waits : got[w] = e

(* An event claimed for w: w is open, or completed with this event.        *)
Placed(w, e) ==
  \/ Open(w)
  \/ CurrentExecution(w) /\ node[NodeOf(w)].st = "completed" /\ got[w] = e

TimedPlaced(w) ==
  \/ w[2] < node[NodeOf(w)].inst
  \/ /\ CurrentExecution(w)
     /\ node[NodeOf(w)].st \in {"running", CommittedStatus(w, None)}

(* The claim is there, or was dropped with the run.                        *)
EventHand(w, e) ==
  /\ rec[w].st = "delivered" /\ rec[w].ev \in {e, None}
  /\ NodeOf(w) \notin Delays /\ Placed(w, e)
  /\ order[e] > 0 /\ ~Buffered(e)
  /\ claim[e] = w \/ (claim[e] = None /\ status \in Over)

HandOK(a) ==
  a.pc \in Holding =>
    /\ IF a.ev = None THEN TimedClaim(a.cur) ELSE EventHand(a.cur, a.ev)
    /\ rec[a.cur].age \notin {"due", "lapsed"}
    /\ a.pc \in OpenLabels => Open(a.cur)
    /\ a.pc \in {"resume", "finalize"} /\ a.ev # None => got[a.cur] = a.ev
    /\ a.pc \in {"deliver", "patch", "resume"} /\ a.ev = None =>
         NodeOf(a.cur) \in Delays
    /\ a.pc \in {"expired", "failRead", "failCas"} => NodeOf(a.cur) \notin Delays

LabelOK(a) ==
  /\ a.pc \notin {"retire", "cancel", "retry"}
  /\ a.pc \in {"discard", "remove"} => status \in Over

HandInv == \A t \in Tasks : HandOK(task[t]) /\ LabelOK(task[t])

SoleInv ==
  \A t, u \in Tasks :
    /\ task[t].pc \in Holding /\ task[u].pc \in Holding
    /\ task[t].cur = task[u].cur
    => t = u

ClaimInv ==
  /\ \A e \in Publishers : claim[e] # None =>
       /\ rec[claim[e]].st = "delivered" /\ rec[claim[e]].ev = e
       /\ NodeOf(claim[e]) \notin Delays /\ Placed(claim[e], e)
       /\ \A w \in Waits : got[w] = e => w = claim[e]
  /\ \A w \in Waits : TimedClaim(w) => TimedPlaced(w)
  /\ \A w \in Waits : rec[w].st = "pending" => Open(w)

GotInv ==
  /\ \A w \in Waits : got[w] # None =>
       CurrentExecution(w) /\ node[NodeOf(w)].st = "completed"
  /\ \A w, v \in Waits : got[w] = got[v] /\ got[w] # None => w = v
  /\ \A e \in Publishers : Landed(e) => order[e] > 0 /\ ~Buffered(e)
  /\ \A e \in heard \cup receipts : Landed(e)

Conserved ==
  status \notin Over =>
    \A e \in Publishers : order[e] > 0 =>
      Buffered(e) \/ claim[e] # None \/ Landed(e)

Claimed(w) == TimedClaim(w) \/ \E e \in Publishers : claim[e] = w

(* A wait that a recovery has listed is not opened again before it comes   *)
(* to it.                                                                  *)
Listed(w) == rec[w].st # "pending" /\ (status \notin Over => LiveRecord(w))

TodoOK(a) ==
  a.pass = "recovering" =>
    /\ a.todo # {} => alive # Procs
    /\ \A x \in a.todo : Listed(x[1]) /\ ~Kept(x[1])
    /\ \A x, y \in a.todo : x[1] = y[1] => x = y

RecoverInv ==
  /\ alive # Procs => \A p, q \in alive : p = q
  /\ \A w \in Waits : Claimed(w) /\ ~Kept(w) => alive # Procs
  /\ \A t \in Tasks : TodoOK(task[t])
  /\ \A t, u \in Tasks :
       /\ task[t].pass = "recovering" /\ task[u].pass = "recovering"
       /\ task[t].home = task[u].home
       => t = u

OrderlyInv ==
  /\ timers = {} /\ HandInv /\ SoleInv /\ ClaimInv /\ GotInv /\ Conserved
  /\ RecoverInv

(* Frames: what does not change                                            *)

LEMMA HandSame ==
  ASSUME NEW a, HandOK(a),
         UNCHANGED <<rec, mailbox, claim, status, node, got, order>>
  PROVE  HandOK(a)'
BY DEF HandOK, TimedClaim, EventHand, Placed, Open, CurrentExecution, Buffered

LEMMA StoreSame ==
  ASSUME ClaimInv, GotInv, Conserved,
         UNCHANGED <<rec, mailbox, claim, receipts, status, node, got, order>>,
         \A e \in heard' : Landed(e)
  PROVE  ClaimInv' /\ GotInv' /\ Conserved'
<1>1. ClaimInv'
  BY DEF ClaimInv, Placed, TimedPlaced, TimedClaim, Open, CurrentExecution
<1>2. GotInv'
  BY DEF GotInv, Landed, Buffered, CurrentExecution
<1>3. Conserved'
  BY DEF Conserved, Landed, Buffered
<1> QED
  BY <1>1, <1>2, <1>3

LEMMA Became ==
  ASSUME TypeInv, NEW t \in Tasks, NEW a, Become(t, a)
  PROVE  \A u \in Tasks : task'[u] = IF u = t THEN a ELSE task[u]
BY DEF TypeInv, TypeOK, Become

(* An actor moves on with the claim in its hand, or without one.           *)
LEMMA MovesTo ==
  ASSUME TypeInv, OrderlyInv, NEW t \in Tasks, NEW a, Become(t, a),
         UNCHANGED <<rec, mailbox, claim, receipts, status, node, got, order,
                     alive, timers>>,
         \A e \in heard' : Landed(e),
         a.pc \in Holding <=> task[t].pc \in Holding,
         a.pc \in Holding => a.cur = task[t].cur,
         HandOK(a), LabelOK(a),
         TodoOK(a),
         \A u \in Tasks : u # t /\ a.pass = "recovering"
           /\ task[u].pass = "recovering" => task[u].home # a.home
  PROVE  OrderlyInv'
<1>1. \A u \in Tasks : task'[u] = IF u = t THEN a ELSE task[u]
  BY Became
<1>2. \A w : Kept(w)' <=> Kept(w)
  <2> SUFFICES ASSUME NEW w PROVE Kept(w)' <=> Kept(w)
    OBVIOUS
  <2>1. \A u \in Tasks : (task'[u].pc \in Holding /\ task'[u].cur = w) <=>
                         (task[u].pc \in Holding /\ task[u].cur = w)
    BY <1>1
  <2> QED
    BY <2>1 DEF Kept
<1>3. HandInv'
  <2> SUFFICES ASSUME NEW u \in Tasks PROVE (HandOK(task[u]) /\ LabelOK(task[u]))'
    BY DEF HandInv
  <2>1. HandOK(task[u]) /\ LabelOK(task[u])
    BY DEF OrderlyInv, HandInv
  <2>2. HandOK(task'[u]) /\ LabelOK(task'[u])
    BY <1>1, <2>1
  <2>3. HandOK(task[u])'
    BY <2>2, HandSame
  <2> QED
    BY <2>2, <2>3 DEF LabelOK
<1>4. SoleInv'
  BY <1>1 DEF OrderlyInv, SoleInv
<1>5. ClaimInv' /\ GotInv' /\ Conserved'
  BY StoreSame DEF OrderlyInv
<1>6. \A w \in Waits : (Claimed(w)' <=> Claimed(w)) /\ (Listed(w)' <=> Listed(w))
  BY DEF Claimed, Listed, LiveRecord, TimedClaim
<1>7. RecoverInv'
  <2>1. \A w \in Waits : Claimed(w)' /\ ~Kept(w)' => alive' # Procs
    BY <1>2, <1>6 DEF OrderlyInv, RecoverInv
  <2>2. ASSUME NEW u \in Tasks PROVE TodoOK(task[u])'
    <3>1. TodoOK(task[u]) /\ task[u] \in TaskState
      BY TaskFields DEF OrderlyInv, RecoverInv
    <3>2. TodoOK(task'[u])
      BY <1>1, <3>1
    <3>3. \A w : Listed(w)' <=> Listed(w)
      BY DEF Listed, LiveRecord, TimedClaim
    <3> QED
      BY <1>2, <3>2, <3>3 DEF TodoOK
  <2>3. \A u, v \in Tasks :
          /\ task'[u].pass = "recovering" /\ task'[v].pass = "recovering"
          /\ task'[u].home = task'[v].home
          => u = v
    BY <1>1 DEF OrderlyInv, RecoverInv
  <2> QED
    BY <2>1, <2>2, <2>3 DEF OrderlyInv, RecoverInv
<1> QED
  BY <1>3, <1>4, <1>5, <1>7 DEF OrderlyInv

LEMMA Moves ==
  ASSUME TypeInv, OrderlyInv, NEW t \in Tasks, NEW a, Become(t, a),
         UNCHANGED <<rec, mailbox, claim, receipts, status, node, got, order,
                     alive, timers>>,
         \A e \in heard' : Landed(e),
         a.pc \in Holding <=> task[t].pc \in Holding,
         a.pc \in Holding => a.cur = task[t].cur,
         HandOK(a), LabelOK(a),
         a.pass = "recovering" =>
           /\ task[t].pass = "recovering" /\ a.todo \subseteq task[t].todo
           /\ a.home = task[t].home
  PROVE  OrderlyInv'
<1>1. TodoOK(a)
  BY DEF OrderlyInv, RecoverInv, TodoOK
<1>2. \A u \in Tasks : u # t /\ a.pass = "recovering"
        /\ task[u].pass = "recovering" => task[u].home # a.home
  BY DEF OrderlyInv, RecoverInv
<1> QED
  BY <1>1, <1>2, MovesTo

(* What an actor does to a wait w and an event e leaves alone what another *)
(* actor has in hand.                                                      *)
LEMMA OtherHand ==
  ASSUME NEW w \in Waits, NEW e \in Publishers \cup {None}, NEW a \in TaskState,
         HandOK(a), a.pc \in Holding => a.cur # w /\ a.cur \in Waits,
         a.pc \in Holding /\ e # None => a.ev # e,
         UNCHANGED <<status, node, got, order>>,
         \A v \in Waits : v # w => rec'[v] = rec[v],
         \A f \in Publishers : f # e =>
           claim'[f] = claim[f] /\ (Buffered(f)' <=> Buffered(f))
  PROVE  HandOK(a)'
<1> SUFFICES ASSUME a.pc \in Holding PROVE HandOK(a)'
  BY DEF HandOK
<1>1. rec'[a.cur] = rec[a.cur]
  OBVIOUS
<1>2. ASSUME a.ev # None PROVE EventHand(a.cur, a.ev)'
  <2>1. a.ev \in Publishers /\ a.ev # e
    BY <1>2 DEF TaskState
  <2>2. EventHand(a.cur, a.ev)
    BY <1>2 DEF HandOK
  <2> QED
    BY <1>1, <2>1, <2>2 DEF EventHand, Placed, Open, CurrentExecution
<1>3. ASSUME a.ev = None PROVE TimedClaim(a.cur)'
  BY <1>1, <1>3 DEF HandOK, TimedClaim
<1> QED
  BY <1>1, <1>2, <1>3 DEF HandOK, Open, CurrentExecution

(* An actor takes a claim into its hand, or lets go of it.                 *)
LEMMA Touches ==
  ASSUME TypeInv, OrderlyInv, NEW t \in Tasks, NEW a, Become(t, a),
         NEW w \in Waits, NEW e \in Publishers \cup {None},
         UNCHANGED <<status, node, got, order, alive, timers>>,
         \A v \in Waits : v # w => rec'[v] = rec[v],
         \A f \in Publishers : f # e =>
           claim'[f] = claim[f] /\ (Buffered(f)' <=> Buffered(f)),
         e # None => claim'[e] \in {w, None},
         \A u \in Tasks : u # t /\ task[u].pc \in Holding =>
           task[u].cur # w /\ (e # None => task[u].ev # e),
         \A u \in Tasks : u # t /\ task[u].pass = "recovering" =>
           \A x \in task[u].todo : x[1] # w,
         task[t].pc \in Holding => task[t].cur = w,
         a.pc \in Holding => a.cur = w,
         HandOK(a)', LabelOK(a),
         a.pass = "recovering" =>
           /\ task[t].pass = "recovering" /\ a.todo \subseteq task[t].todo
           /\ a.home = task[t].home /\ \A x \in a.todo : x[1] # w,
         Claimed(w)' /\ a.pc \notin Holding => alive # Procs
  PROVE  timers' = {} /\ HandInv' /\ SoleInv' /\ RecoverInv'
<1>1. \A u \in Tasks : task'[u] = IF u = t THEN a ELSE task[u]
  BY Became
<1>2. \A v \in Waits : v # w => (Kept(v)' <=> Kept(v))
  <2> SUFFICES ASSUME NEW v \in Waits, v # w PROVE Kept(v)' <=> Kept(v)
    OBVIOUS
  <2>1. \A u \in Tasks : (task'[u].pc \in Holding /\ task'[u].cur = v) <=>
                         (task[u].pc \in Holding /\ task[u].cur = v)
    BY <1>1
  <2> QED
    BY <2>1 DEF Kept
<1>3. HandInv'
  <2> SUFFICES ASSUME NEW u \in Tasks PROVE (HandOK(task[u]) /\ LabelOK(task[u]))'
    BY DEF HandInv
  <2>1. HandOK(task[u]) /\ LabelOK(task[u])
    BY DEF OrderlyInv, HandInv
  <2>2. LabelOK(task[u])'
    BY <1>1, <2>1 DEF LabelOK
  <2>3. CASE u = t
    BY <1>1, <2>2, <2>3
  <2>4. CASE u # t
    <3>1. task[u] \in TaskState /\ TaskOK(u, task[u]) /\ task'[u] = task[u]
      BY <1>1, <2>4, TaskFields
    <3>2. task[u].pc \in Holding => task[u].cur # w /\ task[u].cur \in Waits
      BY <2>4, <3>1 DEF TaskOK, Holding, WaitLabels
    <3>3. HandOK(task'[u]) /\ task'[u] \in TaskState
          /\ (task'[u].pc \in Holding => task'[u].cur # w /\ task'[u].cur \in Waits)
          /\ (task'[u].pc \in Holding /\ e # None => task'[u].ev # e)
      BY <2>1, <2>4, <3>1, <3>2
    <3>4. HandOK(task[u])'
      BY <3>3, OtherHand
    <3> QED
      BY <2>2, <3>4
  <2> QED
    BY <2>3, <2>4
<1>4. SoleInv'
  <2> SUFFICES ASSUME NEW u \in Tasks, NEW v \in Tasks,
                      task'[u].pc \in Holding, task'[v].pc \in Holding,
                      task'[u].cur = task'[v].cur
               PROVE  u = v
    BY DEF SoleInv
  <2> QED
    BY <1>1 DEF OrderlyInv, SoleInv
<1>5. \A v \in Waits : v # w =>
        (Claimed(v)' => Claimed(v)) /\ (Listed(v)' <=> Listed(v))
  <2> SUFFICES ASSUME NEW v \in Waits, v # w
               PROVE  (Claimed(v)' => Claimed(v)) /\ (Listed(v)' <=> Listed(v))
    OBVIOUS
  <2>1. (TimedClaim(v)' <=> TimedClaim(v)) /\ (Listed(v)' <=> Listed(v))
    BY DEF Listed, LiveRecord, TimedClaim
  <2>2. None \notin Waits /\ None \notin Publishers
    BY MailTypes
  <2>3. \A f \in Publishers : claim'[f] = v => claim[f] = v
    BY <2>2
  <2> QED
    BY <2>1, <2>3 DEF Claimed
<1>6. RecoverInv'
  <2>1. ASSUME NEW v \in Waits, Claimed(v)', ~Kept(v)' PROVE alive' # Procs
    <3>1. CASE v = w
      <4>1. a.pc \notin Holding
        BY <1>1, <2>1, <3>1 DEF Kept
      <4> QED
        BY <2>1, <3>1, <4>1
    <3>2. CASE v # w
      BY <1>2, <1>5, <2>1, <3>2 DEF OrderlyInv, RecoverInv
    <3> QED
      BY <3>1, <3>2
  <2>2. ASSUME NEW u \in Tasks PROVE TodoOK(task[u])'
    <3>1. TodoOK(task[u]) /\ task[u] \in TaskState
      BY TaskFields DEF OrderlyInv, RecoverInv
    <3>2. task'[u].pass = "recovering" =>
            /\ task[u].pass = "recovering" /\ task'[u].todo \subseteq task[u].todo
            /\ \A x \in task'[u].todo : x[1] # w
      BY <1>1
    <3>3. \A x \in task[u].todo : x[1] \in Waits
      BY <3>1 DEF TaskState
    <3> QED
      BY <1>2, <1>5, <3>1, <3>2, <3>3 DEF TodoOK
  <2>3. \A u, v \in Tasks :
          /\ task'[u].pass = "recovering" /\ task'[v].pass = "recovering"
          /\ task'[u].home = task'[v].home
          => u = v
    BY <1>1 DEF OrderlyInv, RecoverInv
  <2> QED
    BY <2>1, <2>2, <2>3 DEF OrderlyInv, RecoverInv
<1> QED
  BY <1>3, <1>4, <1>6 DEF OrderlyInv

(* What the calls do to the claims                                         *)

LEMMA RecStore ==
  ASSUME ClaimInv, GotInv, Conserved, NEW w \in Waits, claim \in [Publishers -> Waits \cup {None}],
         UNCHANGED <<mailbox, claim, receipts, heard, status, node, got, order>>,
         \A v \in Waits : v # w => rec'[v] = rec[v],
         \A f \in Publishers : claim[f] = w =>
           rec'[w].st = "delivered" /\ rec'[w].ev = f,
         TimedClaim(w)' => TimedPlaced(w),
         rec'[w].st = "pending" => Open(w)
  PROVE  ClaimInv' /\ GotInv' /\ Conserved'
<1>1. \A v \in Waits : (Open(v)' <=> Open(v)) /\ (TimedPlaced(v)' <=> TimedPlaced(v))
                       /\ \A e : Placed(v, e)' <=> Placed(v, e)
  BY DEF Open, TimedPlaced, Placed, CurrentExecution
<1>2. \A v \in Waits : v # w => (TimedClaim(v)' <=> TimedClaim(v))
  BY DEF TimedClaim
<1>3. ASSUME NEW e \in Publishers, claim'[e] # None
      PROVE  /\ rec'[claim'[e]].st = "delivered" /\ rec'[claim'[e]].ev = e
             /\ NodeOf(claim'[e]) \notin Delays /\ Placed(claim[e], e)'
             /\ \A v \in Waits : got'[v] = e => v = claim'[e]
  <2>1. claim'[e] = claim[e] /\ claim[e] \in Waits
    BY <1>3
  <2>2. /\ rec[claim[e]].st = "delivered" /\ rec[claim[e]].ev = e
        /\ NodeOf(claim[e]) \notin Delays /\ Placed(claim[e], e)
        /\ \A v \in Waits : got[v] = e => v = claim[e]
    BY <1>3, <2>1 DEF ClaimInv
  <2>3. Placed(claim[e], e)'
    BY <2>2 DEF Placed, Open, CurrentExecution
  <2> QED
    BY <2>1, <2>2, <2>3
<1>4. ClaimInv'
  BY <1>1, <1>2, <1>3 DEF ClaimInv
<1>5. GotInv'
  BY DEF GotInv, Landed, Buffered, CurrentExecution
<1>6. Conserved'
  BY DEF Conserved, Landed, Buffered
<1> QED
  BY <1>4, <1>5, <1>6

LEMMA ClaimStore ==
  ASSUME TypeInv, MailInv, ClaimInv, GotInv, Conserved, NEW w \in Waits,
         ClaimEvent(w), NodeOf(w) \notin Delays,
         UNCHANGED <<status, node, got, order, heard>>
  PROVE  ClaimInv' /\ GotInv' /\ Conserved'
<1> DEFINE e == rec'[w].ev
<1>1. /\ e \in Publishers /\ Buffered(e) /\ claim[e] = None
      /\ claim' = [claim EXCEPT ![e] = w]
      /\ rec' = [rec EXCEPT ![w] = [st |-> "delivered", ev |-> e, age |-> "new"]]
      /\ \A f \in Publishers : Buffered(f)' <=> Buffered(f) /\ f # e
  BY ClaimMail
<1>2. /\ rec[w].st = "pending" /\ receipts' = receipts
  BY DEF ClaimEvent
<1>3. /\ claim \in [Publishers -> Waits \cup {None}] /\ None \notin Waits
      /\ MailboxTypeOK
  BY MailTypes
<1> HIDE DEF e
<1>4. /\ rec'[w].st = "delivered" /\ rec'[w].ev = e
      /\ \A v \in Waits : v # w => rec'[v] = rec[v]
      /\ \A f \in Publishers : claim'[f] = IF f = e THEN w ELSE claim[f]
  BY <1>1, <1>3 DEF MailboxTypeOK
<1>5. \A v \in Waits : (Open(v)' <=> Open(v)) /\ (TimedPlaced(v)' <=> TimedPlaced(v))
  BY DEF Open, TimedPlaced, CurrentExecution
<1>6. \A v \in Waits : got[v] # e
  BY <1>1 DEF GotInv, Landed
<1>7. Open(w)
  BY <1>2 DEF ClaimInv
<1>8. ASSUME NEW f \in Publishers, claim'[f] # None
      PROVE  /\ rec'[claim'[f]].st = "delivered" /\ rec'[claim'[f]].ev = f
             /\ NodeOf(claim'[f]) \notin Delays /\ Placed(claim[f], f)'
             /\ \A v \in Waits : got'[v] = f => v = claim'[f]
  <2>1. CASE f = e
    <3>1. claim'[f] = w
      BY <1>4, <2>1
    <3>2. Placed(claim[f], f)'
      BY <1>7, <3>1 DEF Placed, Open, CurrentExecution
    <3> QED
      BY <1>4, <1>6, <2>1, <3>1, <3>2
  <2>2. CASE f # e
    <3>1. claim'[f] = claim[f] /\ claim[f] \in Waits
      BY <1>3, <1>4, <1>8, <2>2
    <3>2. /\ rec[claim[f]].st = "delivered" /\ rec[claim[f]].ev = f
          /\ NodeOf(claim[f]) \notin Delays /\ Placed(claim[f], f)
          /\ \A v \in Waits : got[v] = f => v = claim[f]
      BY <1>8, <3>1 DEF ClaimInv
    <3>3. claim[f] # w
      BY <1>2, <3>2
    <3>4. Placed(claim[f], f)'
      BY <3>1, <3>2 DEF Placed, Open, CurrentExecution
    <3> QED
      BY <1>4, <3>1, <3>2, <3>3, <3>4
  <2> QED
    BY <2>1, <2>2
<1>9. \A v \in Waits : TimedClaim(v)' => TimedPlaced(v)'
  <2> SUFFICES ASSUME NEW v \in Waits, TimedClaim(v)' PROVE TimedPlaced(v)
    BY <1>5
  <2>1. v # w
    BY <1>4 DEF TimedClaim
  <2>2. TimedClaim(v)
    BY <1>4, <2>1 DEF TimedClaim
  <2> QED
    BY <2>2 DEF ClaimInv
<1>10. \A v \in Waits : rec'[v].st = "pending" => Open(v)'
  BY <1>4, <1>5 DEF ClaimInv
<1>11. ClaimInv'
  BY <1>8, <1>9, <1>10 DEF ClaimInv
<1>12. GotInv'
  BY <1>1, <1>2 DEF GotInv, Landed, CurrentExecution
<1>13. Conserved'
  BY <1>1, <1>3, <1>4 DEF Conserved, Landed
<1> QED
  BY <1>11, <1>12, <1>13

LEMMA RestoreStore ==
  ASSUME TypeInv, MailInv, ClaimInv, GotInv, Conserved,
         NEW w \in Waits, NEW e \in Publishers, RestoreDelivery(w, e), Open(w),
         UNCHANGED <<status, node, got, order, heard>>
  PROVE  ClaimInv' /\ GotInv' /\ Conserved'
<1>1. CASE claim[e] # w
  <2>1. UNCHANGED <<rec, mailbox, claim, receipts>>
    BY <1>1 DEF RestoreDelivery
  <2>2. \A f \in heard' : Landed(f)
    BY DEF GotInv
  <2> QED
    BY <2>1, <2>2, StoreSame
<1>2. CASE claim[e] = w
  <2>1. /\ rec' = [rec EXCEPT ![w] = Reopened(w)]
        /\ claim' = [claim EXCEPT ![e] = None] /\ receipts' = receipts
    BY <1>2 DEF RestoreDelivery
  <2>2. /\ claim \in [Publishers -> Waits \cup {None}] /\ None \notin Waits
        /\ MailboxTypeOK
    BY MailTypes
  <2>3. \A f \in Publishers : Buffered(f)' <=> Buffered(f) \/ f = e
    BY <1>2, RestoreMail
  <2>4. /\ rec[w].st = "delivered" /\ rec[w].ev = e
        /\ \A v \in Waits : got[v] = e => v = w
    BY <1>2, <2>2 DEF ClaimInv
  <2>5. got[w] = None /\ ~Landed(e)
    <3>1. node[NodeOf(w)].st = "running"
      BY DEF Open
    <3>2. got[w] = None
      BY <3>1 DEF GotInv
    <3> QED
      BY <2>4, <3>2, NoneAssumption DEF Landed
  <2>6. /\ rec'[w] = [st |-> "pending", ev |-> None, age |-> "none"]
        /\ \A v \in Waits : v # w => rec'[v] = rec[v]
        /\ \A f \in Publishers : claim'[f] = IF f = e THEN None ELSE claim[f]
    BY <2>1, <2>2, <2>4 DEF MailboxTypeOK, Reopened
  <2>7. \A v \in Waits : (Open(v)' <=> Open(v)) /\ (TimedPlaced(v)' <=> TimedPlaced(v))
    BY DEF Open, TimedPlaced, CurrentExecution
  <2>8. ASSUME NEW f \in Publishers, claim'[f] # None
        PROVE  /\ rec'[claim'[f]].st = "delivered" /\ rec'[claim'[f]].ev = f
               /\ NodeOf(claim'[f]) \notin Delays /\ Placed(claim[f], f)'
               /\ \A v \in Waits : got'[v] = f => v = claim'[f]
    <3>1. f # e /\ claim'[f] = claim[f] /\ claim[f] \in Waits
      BY <2>2, <2>6, <2>8
    <3>2. /\ rec[claim[f]].st = "delivered" /\ rec[claim[f]].ev = f
          /\ NodeOf(claim[f]) \notin Delays /\ Placed(claim[f], f)
          /\ \A v \in Waits : got[v] = f => v = claim[f]
      BY <2>8, <3>1 DEF ClaimInv
    <3>3. claim[f] # w
      BY <2>4, <3>1, <3>2
    <3>4. Placed(claim[f], f)'
      BY <3>1, <3>2 DEF Placed, Open, CurrentExecution
    <3> QED
      BY <2>6, <3>1, <3>2, <3>3, <3>4
  <2>9. \A v \in Waits : TimedClaim(v)' => TimedPlaced(v)'
    <3> SUFFICES ASSUME NEW v \in Waits, TimedClaim(v)' PROVE TimedPlaced(v)
      BY <2>7
    <3>1. v # w
      BY <2>6 DEF TimedClaim
    <3>2. TimedClaim(v)
      BY <2>6, <3>1 DEF TimedClaim
    <3> QED
      BY <3>2 DEF ClaimInv
  <2>10. \A v \in Waits : rec'[v].st = "pending" => Open(v)'
    BY <2>6, <2>7 DEF ClaimInv
  <2>11. ClaimInv'
    BY <2>8, <2>9, <2>10 DEF ClaimInv
  <2>12. GotInv'
    BY <2>1, <2>3, <2>5 DEF GotInv, Landed, CurrentExecution
  <2>13. Conserved'
    BY <2>3, <2>6 DEF Conserved, Landed
  <2> QED
    BY <2>11, <2>12, <2>13
<1> QED
  BY <1>1, <1>2

LEMMA FinalizeStore ==
  ASSUME TypeInv, ClaimInv, GotInv, Conserved,
         NEW w \in Waits, NEW e \in Publishers, NEW d,
         FinalizeDelivery(e, d), claim[e] \in {w, None},
         d => got[w] = e, ~d => status \in Over,
         UNCHANGED <<status, node, got, order, heard>>
  PROVE  ClaimInv' /\ GotInv' /\ Conserved'
<1>1. CASE claim[e] = None
  <2>1. UNCHANGED <<rec, mailbox, claim, receipts>>
    BY <1>1 DEF FinalizeDelivery
  <2>2. \A f \in heard' : Landed(f)
    BY DEF GotInv
  <2> QED
    BY <2>1, <2>2, StoreSame
<1>2. CASE claim[e] # None
  <2>0. claim[e] = w
    BY <1>2
  <2>1. /\ rec' = [rec EXCEPT ![w].ev = None, ![w].age = "none"]
        /\ receipts' = IF d THEN receipts \cup {e} ELSE receipts
        /\ claim' = [claim EXCEPT ![e] = None] /\ mailbox' = mailbox
    BY <1>2, <2>0 DEF FinalizeDelivery
  <2>2. /\ claim \in [Publishers -> Waits \cup {None}] /\ None \notin Waits
        /\ MailboxTypeOK
    BY MailTypes
  <2>4. /\ rec[w].st = "delivered" /\ rec[w].ev = e /\ NodeOf(w) \notin Delays
    BY <1>2, <2>0, <2>2 DEF ClaimInv
  <2>6. /\ rec'[w].st = "delivered"
        /\ \A v \in Waits : v # w => rec'[v] = rec[v]
        /\ \A f \in Publishers : claim'[f] = IF f = e THEN None ELSE claim[f]
    BY <2>1, <2>2, <2>4 DEF MailboxTypeOK
  <2>7. \A v \in Waits : (Open(v)' <=> Open(v)) /\ (TimedPlaced(v)' <=> TimedPlaced(v))
    BY DEF Open, TimedPlaced, CurrentExecution
  <2>8. ASSUME NEW f \in Publishers, claim'[f] # None
        PROVE  /\ rec'[claim'[f]].st = "delivered" /\ rec'[claim'[f]].ev = f
               /\ NodeOf(claim'[f]) \notin Delays /\ Placed(claim[f], f)'
               /\ \A v \in Waits : got'[v] = f => v = claim'[f]
    <3>1. f # e /\ claim'[f] = claim[f] /\ claim[f] \in Waits
      BY <2>2, <2>6, <2>8
    <3>2. /\ rec[claim[f]].st = "delivered" /\ rec[claim[f]].ev = f
          /\ NodeOf(claim[f]) \notin Delays /\ Placed(claim[f], f)
          /\ \A v \in Waits : got[v] = f => v = claim[f]
      BY <2>8, <3>1 DEF ClaimInv
    <3>3. claim[f] # w
      BY <2>4, <3>1, <3>2
    <3>4. Placed(claim[f], f)'
      BY <3>1, <3>2 DEF Placed, Open, CurrentExecution
    <3> QED
      BY <2>6, <3>1, <3>2, <3>3, <3>4
  <2>9. \A v \in Waits : TimedClaim(v)' => TimedPlaced(v)'
    <3> SUFFICES ASSUME NEW v \in Waits, TimedClaim(v)' PROVE TimedPlaced(v)
      BY <2>7
    <3>1. v # w
      BY <2>4, <2>6 DEF TimedClaim
    <3>2. TimedClaim(v)
      BY <2>6, <3>1 DEF TimedClaim
    <3> QED
      BY <3>2 DEF ClaimInv
  <2>10. \A v \in Waits : rec'[v].st = "pending" => Open(v)'
    BY <2>6, <2>7 DEF ClaimInv
  <2>11. ClaimInv'
    BY <2>8, <2>9, <2>10 DEF ClaimInv
  <2>12. GotInv'
    <3>1. \A f \in heard' \cup receipts' : Landed(f)
      BY <2>1 DEF GotInv, Landed
    <3> QED
      BY <2>1, <3>1 DEF GotInv, Landed, CurrentExecution, Buffered
  <2>13. Conserved'
    <3> SUFFICES ASSUME status \notin Over, NEW f \in Publishers, order[f] > 0
                 PROVE  Buffered(f)' \/ claim'[f] # None \/ Landed(f)'
      BY DEF Conserved
    <3>1. Buffered(f) \/ claim[f] # None \/ Landed(f)
      BY DEF Conserved
    <3>2. got[w] = e
      OBVIOUS
    <3> QED
      BY <2>1, <2>6, <3>1, <3>2 DEF Landed, Buffered
  <2> QED
    BY <2>11, <2>12, <2>13
<1> QED
  BY <1>1, <1>2

(* A claim is taken up and let go of.                                      *)

LEMMA HolderFacts ==
  ASSUME TypeInv, OrderlyInv, NEW t \in Tasks, task[t].pc \in Holding
  PROVE  /\ task[t] \in TaskState /\ TaskOK(t, task[t])
         /\ Cur(t) \in Waits /\ Ev(t) \in Publishers \cup {None}
         /\ HandOK(task[t]) /\ LabelOK(task[t])
         /\ \A u \in Tasks : u # t /\ task[u].pc \in Holding => task[u].cur # Cur(t)
         /\ \A u \in Tasks : task[u].pass = "recovering" =>
              \A x \in task[u].todo : x[1] # Cur(t)
<1>1. task[t] \in TaskState /\ TaskOK(t, task[t])
  BY TaskFields
<1>2. Cur(t) \in Waits /\ Ev(t) \in Publishers \cup {None}
  BY <1>1 DEF Cur, Ev, TaskOK, TaskState, Holding, WaitLabels
<1>3. HandOK(task[t]) /\ LabelOK(task[t])
  BY DEF OrderlyInv, HandInv
<1>4. \A u \in Tasks : u # t /\ task[u].pc \in Holding => task[u].cur # Cur(t)
  BY DEF OrderlyInv, SoleInv, Cur
<1>5. Kept(Cur(t))
  BY DEF Kept, Cur
<1>6. \A u \in Tasks : task[u].pass = "recovering" =>
        \A x \in task[u].todo : x[1] # Cur(t)
  BY <1>5 DEF OrderlyInv, RecoverInv, TodoOK
<1> QED
  BY <1>1, <1>2, <1>3, <1>4, <1>6

LEMMA NextWaitFree ==
  ASSUME TypeInv, NEW t \in Tasks, NextWait(t)
  PROVE  \E a : /\ Become(t, a) /\ a.pc \notin Holding /\ LabelOK(a)
                /\ a.pass = "recovering" =>
                     /\ task[t].pass = "recovering" /\ a.todo = task[t].todo
                     /\ a.home = task[t].home
<1> DEFINE next(label) == [task[t] EXCEPT !.pc = label, !.cur = None,
                                          !.ev = None]
<1>1. task[t] \in TaskState
  BY TaskFields
<1>2. ASSUME NEW l \in {"recover", "pass"}
      PROVE  /\ next(l).pc = l /\ next(l).pass = task[t].pass
             /\ next(l).todo = task[t].todo /\ next(l).home = task[t].home
  BY <1>1 DEF TaskState
<1>3. Resting.pc = "idle" /\ Resting.pass = "no"
  BY DEF Resting
<1>4. \/ Become(t, next("recover")) \/ Become(t, next("pass"))
      \/ Become(t, Resting)
  BY <1>1 DEF NextWait, TaskState
<1> HIDE DEF next
<1> QED
  BY <1>2, <1>3, <1>4 DEF Holding, LabelOK

LEMMA FreeHand ==
  ASSUME NEW a, a.pc \notin Holding PROVE HandOK(a) /\ HandOK(a)'
BY DEF HandOK

LEMMA RestoreOrderly ==
  ASSUME TypeInv, MailInv, OrderlyInv, NEW t \in Tasks, Restore(t) \/ RollBack(t)
  PROVE  OrderlyInv'
<1>0. task[t].pc \in {"restore", "rollback"}
  BY DEF Restore, RollBack, At
<1>2. task[t].pc \in Holding /\ task[t].pc \in OpenLabels
  BY <1>0 DEF Holding, OpenLabels
<1> PICK w \in Waits, e \in Publishers : w = Cur(t) /\ e = Ev(t)
  BY <1>0, <1>2, HolderFacts DEF TaskOK, EventLabels, Ev
<1>1. RestoreDelivery(w, e) /\ NextWait(t) /\ SameRun /\ Unfaulted
  BY DEF Restore, RollBack
<1>3. /\ w \in Waits /\ HandOK(task[t]) /\ TaskOK(t, task[t])
      /\ \A u \in Tasks : u # t /\ task[u].pc \in Holding => task[u].cur # w
      /\ \A u \in Tasks : task[u].pass = "recovering" =>
           \A x \in task[u].todo : x[1] # w
  BY <1>2, HolderFacts
<1>4. e \in Publishers /\ e # None
  BY NoneAssumption
<1>5. Open(w) /\ EventHand(w, e)
  BY <1>2, <1>3, <1>4 DEF HandOK, Cur, Ev
<1>6. UNCHANGED <<status, node, got, order, heard, alive, timers>>
  BY <1>1 DEF SameRun, Unfaulted
<1>7. ClaimInv' /\ GotInv' /\ Conserved'
  BY <1>1, <1>3, <1>4, <1>5, <1>6, RestoreStore DEF OrderlyInv
<1>8. PICK a : /\ Become(t, a) /\ a.pc \notin Holding /\ LabelOK(a)
               /\ a.pass = "recovering" =>
                    /\ task[t].pass = "recovering" /\ a.todo = task[t].todo
                    /\ a.home = task[t].home
  BY <1>1, NextWaitFree
<1>9. HandOK(a)'
  BY <1>8, FreeHand
<1>10. /\ claim \in [Publishers -> Waits \cup {None}] /\ None \notin Waits
       /\ MailboxTypeOK /\ None \notin Publishers
  BY MailTypes
<1>11. \A f \in Publishers : claim[f] = w => f = e
  BY <1>4, <1>5, <1>10 DEF OrderlyInv, ClaimInv, EventHand
<1>12. task[t].cur = w
  BY DEF Cur
<1>13. CASE claim[e] = w
  <2>1. /\ rec' = [rec EXCEPT ![w] = Reopened(w)]
        /\ claim' = [claim EXCEPT ![e] = None]
    BY <1>1, <1>13 DEF RestoreDelivery
  <2>2. /\ \A v \in Waits : v # w => rec'[v] = rec[v]
        /\ rec'[w].st = "pending"
        /\ \A f \in Publishers : claim'[f] = IF f = e THEN None ELSE claim[f]
    BY <1>3, <1>5, <1>10, <2>1 DEF MailboxTypeOK, Reopened, EventHand
  <2>3. \A f \in Publishers : f # e => (Buffered(f)' <=> Buffered(f))
    BY <1>1, <1>3, <1>4, <1>6, <1>13, RestoreMail
  <2>4. ~Claimed(w)'
    BY <1>3, <1>10, <1>11, <2>2 DEF Claimed, TimedClaim
  <2>5. \A u \in Tasks : u # t /\ task[u].pc \in Holding => task[u].ev # e
    <3> SUFFICES ASSUME NEW u \in Tasks, u # t, task[u].pc \in Holding,
                        task[u].ev = e
                 PROVE  FALSE
      OBVIOUS
    <3>1. EventHand(task[u].cur, e)
      BY <1>4 DEF OrderlyInv, HandInv, HandOK
    <3> QED
      BY <1>3, <1>10, <1>13, <3>1 DEF EventHand
  <2>6. timers' = {} /\ HandInv' /\ SoleInv' /\ RecoverInv'
    BY <1>3, <1>4, <1>6, <1>8, <1>9, <1>12, <2>2, <2>3, <2>4, <2>5, Touches
  <2> QED
    BY <1>7, <2>6 DEF OrderlyInv
<1>14. CASE claim[e] # w
  <2>1. UNCHANGED <<rec, mailbox, claim, receipts>>
    BY <1>1, <1>14 DEF RestoreDelivery
  <2>2. \A f \in Publishers : Buffered(f)' <=> Buffered(f)
    BY <2>1 DEF Buffered
  <2>3. ~Claimed(w)'
    BY <1>5, <1>11, <1>14, <2>1 DEF Claimed, TimedClaim, EventHand
  <2>4. timers' = {} /\ HandInv' /\ SoleInv' /\ RecoverInv'
    BY <1>3, <1>6, <1>8, <1>9, <1>12, <2>1, <2>2, <2>3, Touches
  <2> QED
    BY <1>7, <2>4 DEF OrderlyInv
<1> QED
  BY <1>13, <1>14

LEMMA FinalizeOrderly ==
  ASSUME TypeInv, MailInv, OrderlyInv, NEW t \in Tasks, Finalize(t)
  PROVE  OrderlyInv'
<1>0. task[t].pc \in {"finalize", "discard"}
  BY DEF Finalize
<1>2. task[t].pc \in Holding
  BY <1>0 DEF Holding
<1> PICK w \in Waits, e \in Publishers, d \in BOOLEAN :
      w = Cur(t) /\ e = Ev(t) /\ d = At(t, "finalize")
  BY <1>0, <1>2, HolderFacts DEF TaskOK, EventLabels, Ev, At
<1>1. FinalizeDelivery(e, d) /\ NextWait(t) /\ SameRun /\ Unfaulted
  BY DEF Finalize
<1>3. /\ w \in Waits /\ HandOK(task[t]) /\ TaskOK(t, task[t]) /\ LabelOK(task[t])
      /\ \A u \in Tasks : u # t /\ task[u].pc \in Holding => task[u].cur # w
      /\ \A u \in Tasks : task[u].pass = "recovering" =>
           \A x \in task[u].todo : x[1] # w
  BY <1>2, HolderFacts
<1>4. e \in Publishers /\ e # None
  BY NoneAssumption
<1>5. EventHand(w, e) /\ (d => got[w] = e) /\ (~d => status \in Over)
  BY <1>0, <1>2, <1>3, <1>4 DEF HandOK, LabelOK, Cur, Ev, At
<1>6. UNCHANGED <<status, node, got, order, heard, alive, timers>>
  BY <1>1 DEF SameRun, Unfaulted
<1>7. ClaimInv' /\ GotInv' /\ Conserved'
  <2>1. claim[e] \in {w, None}
    BY <1>5 DEF EventHand
  <2> QED
    BY <1>1, <1>3, <1>4, <1>5, <1>6, <2>1, FinalizeStore DEF OrderlyInv
<1>8. PICK a : /\ Become(t, a) /\ a.pc \notin Holding /\ LabelOK(a)
               /\ a.pass = "recovering" =>
                    /\ task[t].pass = "recovering" /\ a.todo = task[t].todo
                    /\ a.home = task[t].home
  BY <1>1, NextWaitFree
<1>9. HandOK(a)'
  BY <1>8, FreeHand
<1>10. /\ claim \in [Publishers -> Waits \cup {None}] /\ None \notin Waits
       /\ MailboxTypeOK /\ None \notin Publishers
  BY MailTypes
<1>11. \A f \in Publishers : claim[f] = w => f = e
  BY <1>4, <1>5, <1>10 DEF OrderlyInv, ClaimInv, EventHand
<1>12. task[t].cur = w
  BY DEF Cur
<1>13. CASE claim[e] = w
  <2>1. /\ rec' = [rec EXCEPT ![w].ev = None, ![w].age = "none"]
        /\ claim' = [claim EXCEPT ![e] = None] /\ mailbox' = mailbox
    BY <1>1, <1>3, <1>10, <1>13 DEF FinalizeDelivery
  <2>2. /\ \A v \in Waits : v # w => rec'[v] = rec[v]
        /\ rec'[w].age = "none"
        /\ \A f \in Publishers : claim'[f] = IF f = e THEN None ELSE claim[f]
    BY <1>3, <1>10, <2>1 DEF MailboxTypeOK
  <2>3. \A f \in Publishers : f # e => (Buffered(f)' <=> Buffered(f))
    BY <2>1 DEF Buffered
  <2>4. ~Claimed(w)'
    BY <1>3, <1>10, <1>11, <2>2 DEF Claimed, TimedClaim
  <2>5. \A u \in Tasks : u # t /\ task[u].pc \in Holding => task[u].ev # e
    <3> SUFFICES ASSUME NEW u \in Tasks, u # t, task[u].pc \in Holding,
                        task[u].ev = e
                 PROVE  FALSE
      OBVIOUS
    <3>1. EventHand(task[u].cur, e)
      BY <1>4 DEF OrderlyInv, HandInv, HandOK
    <3> QED
      BY <1>3, <1>10, <1>13, <3>1 DEF EventHand
  <2>6. timers' = {} /\ HandInv' /\ SoleInv' /\ RecoverInv'
    BY <1>3, <1>4, <1>6, <1>8, <1>9, <1>12, <2>2, <2>3, <2>4, <2>5, Touches
  <2> QED
    BY <1>7, <2>6 DEF OrderlyInv
<1>14. CASE claim[e] # w
  <2>0. claim[e] = None
    BY <1>5, <1>14 DEF EventHand
  <2>1. UNCHANGED <<rec, mailbox, claim, receipts>>
    BY <1>1, <2>0 DEF FinalizeDelivery
  <2>2. \A f \in Publishers : Buffered(f)' <=> Buffered(f)
    BY <2>1 DEF Buffered
  <2>3. ~Claimed(w)'
    BY <1>5, <1>11, <1>14, <2>1 DEF Claimed, TimedClaim, EventHand
  <2>4. timers' = {} /\ HandInv' /\ SoleInv' /\ RecoverInv'
    BY <1>3, <1>6, <1>8, <1>9, <1>12, <2>1, <2>2, <2>3, Touches
  <2> QED
    BY <1>7, <2>4 DEF OrderlyInv
<1> QED
  BY <1>13, <1>14

LEMMA EndTimedOrderly ==
  ASSUME TypeInv, MailInv, OrderlyInv, NEW t \in Tasks, EndTimed(t)
  PROVE  OrderlyInv'
<1>0. task[t].pc \in {"finTimed", "restTimed"}
  BY DEF EndTimed, At
<1>2. task[t].pc \in Holding
  BY <1>0 DEF Holding
<1> PICK w \in Waits : w = Cur(t)
  BY <1>2, HolderFacts
<1>1. /\ NextWait(t) /\ SameRun /\ Unfaulted
      /\ UNCHANGED <<mailbox, claim, receipts>>
      /\ \/ rec' = [rec EXCEPT ![w].age = "none"]
         \/ task[t].pc = "restTimed" /\ rec' = [rec EXCEPT ![w] = Reopened(w)]
  BY DEF EndTimed, At, FinalizeTimed, RestoreRecord
<1>3. /\ w \in Waits /\ HandOK(task[t]) /\ TaskOK(t, task[t])
      /\ \A u \in Tasks : u # t /\ task[u].pc \in Holding => task[u].cur # w
      /\ \A u \in Tasks : task[u].pass = "recovering" =>
           \A x \in task[u].todo : x[1] # w
  BY <1>2, HolderFacts
<1>4. TimedClaim(w) /\ (task[t].pc = "restTimed" => Open(w))
  BY <1>0, <1>2, <1>3 DEF HandOK, OpenLabels, TaskOK, FreeLabels, Cur
<1>5. UNCHANGED <<status, node, got, order, heard, alive, timers>>
  BY <1>1 DEF SameRun, Unfaulted
<1>6. PICK a : /\ Become(t, a) /\ a.pc \notin Holding /\ LabelOK(a)
               /\ a.pass = "recovering" =>
                    /\ task[t].pass = "recovering" /\ a.todo = task[t].todo
                    /\ a.home = task[t].home
  BY <1>1, NextWaitFree
<1>7. HandOK(a)'
  BY <1>6, FreeHand
<1>8. /\ claim \in [Publishers -> Waits \cup {None}] /\ None \notin Waits
      /\ MailboxTypeOK
  BY MailTypes
<1>9. task[t].cur = w
  BY DEF Cur
<1>10. \A f \in Publishers : claim[f] # w
  BY <1>4, <1>8 DEF OrderlyInv, ClaimInv, TimedClaim
<1>11. /\ \A v \in Waits : v # w => rec'[v] = rec[v]
       /\ rec'[w].age = "none"
       /\ rec'[w].st = "pending" => Open(w)
  <2>1. CASE rec' = [rec EXCEPT ![w].age = "none"]
    BY <1>3, <1>4, <1>8, <2>1 DEF MailboxTypeOK, TimedClaim
  <2>2. CASE task[t].pc = "restTimed" /\ rec' = [rec EXCEPT ![w] = Reopened(w)]
    BY <1>3, <1>4, <1>8, <2>2 DEF MailboxTypeOK, TimedClaim, Reopened
  <2> QED
    BY <1>1, <2>1, <2>2
<1>12. ~TimedClaim(w)'
  BY <1>11 DEF TimedClaim
<1>13. ~Claimed(w)'
  BY <1>1, <1>10, <1>12 DEF Claimed
<1>14. ClaimInv' /\ GotInv' /\ Conserved'
  BY <1>1, <1>3, <1>5, <1>8, <1>10, <1>11, <1>12, RecStore DEF OrderlyInv
<1>15. \A f \in Publishers : Buffered(f)' <=> Buffered(f)
  BY <1>1 DEF Buffered
<1>16. timers' = {} /\ HandInv' /\ SoleInv' /\ RecoverInv'
  BY <1>1, <1>3, <1>5, <1>6, <1>7, <1>9, <1>11, <1>13, <1>15, Touches
<1> QED
  BY <1>14, <1>16 DEF OrderlyInv

LEMMA RecoverOrderly ==
  ASSUME TypeInv, MailInv, OrderlyInv, NEW t \in Tasks, Recover(t)
  PROVE  OrderlyInv'
<1>1. /\ task[t].pc = "recover" /\ task[t] \in TaskState /\ TaskOK(t, task[t])
      /\ UNCHANGED <<mailbox, claim, receipts>> /\ SameRun /\ Unfaulted
      /\ task[t].pass = "recovering"
  BY TaskFields DEF Recover, At, TaskOK
<1>2. UNCHANGED <<status, node, got, order, heard, alive, timers>>
  BY <1>1 DEF SameRun, Unfaulted
<1>3. (\A e \in heard' : Landed(e)) /\ task[t].pc \notin Holding
  BY <1>1, <1>2 DEF OrderlyInv, GotInv, Holding
<1>4. CASE task[t].todo = {}
  <2> DEFINE a == [task[t] EXCEPT !.pc = "scan", !.pass = "passing"]
  <2>1. Become(t, a) /\ rec' = rec
    BY <1>1, <1>4 DEF Recover
  <2>2. a.pc = "scan" /\ a.pass = "passing"
    BY <1>1 DEF TaskState
  <2> HIDE DEF a
  <2>3. a.pc \notin Holding /\ LabelOK(a) /\ HandOK(a)
    BY <2>2, FreeHand DEF Holding, LabelOK
  <2> QED
    BY <1>1, <1>2, <1>3, <2>1, <2>2, <2>3, Moves
<1>5. ASSUME NEW x \in task[t].todo,
             LET rest == [task[t] EXCEPT !.todo = @ \ {x}] IN
             IF Reservable(x[1], x[2])
             THEN /\ rec' = [rec EXCEPT ![x[1]].age = "reserved"]
                  /\ Become(t, [rest EXCEPT !.pc = "inspect", !.cur = x[1],
                                            !.ev = x[2]])
             ELSE Become(t, rest) /\ UNCHANGED rec
      PROVE  OrderlyInv'
  <2> DEFINE rest == [task[t] EXCEPT !.todo = @ \ {x}]
  <2>1. x[1] \in Waits /\ x[2] \in Publishers \cup {None}
    BY <1>1 DEF TaskState
  <2>2. /\ rest \in TaskState /\ rest.pc = "recover" /\ rest.todo = task[t].todo \ {x}
        /\ rest.pass = "recovering" /\ rest.home = task[t].home
    BY <1>1 DEF TaskState
  <2>3. CASE ~Reservable(x[1], x[2])
    <3>1. Become(t, rest) /\ rec' = rec
      BY <1>5, <2>3
    <3> HIDE DEF rest
    <3>2. rest.pc \notin Holding /\ LabelOK(rest) /\ HandOK(rest)
      BY <2>2, FreeHand DEF Holding, LabelOK
    <3> QED
      BY <1>1, <1>2, <1>3, <2>2, <3>1, <3>2, Moves
  <2>4. CASE Reservable(x[1], x[2])
    <3> PICK w \in Waits, e \in Publishers \cup {None} : w = x[1] /\ e = x[2]
      BY <2>1
    <3>1. rec' = [rec EXCEPT ![w].age = "reserved"]
      BY <1>5, <2>4
    <3>2. PICK a : /\ Become(t, a) /\ a.pc = "inspect" /\ a.cur = w /\ a.ev = e
                   /\ a.pass = "recovering" /\ a.home = task[t].home
                   /\ a.todo = task[t].todo \ {x}
      <4> DEFINE b == [rest EXCEPT !.pc = "inspect", !.cur = w, !.ev = e]
      <4>1. Become(t, b)
        BY <1>5, <2>4
      <4> HIDE DEF rest
      <4>2. /\ b.pc = "inspect" /\ b.cur = w /\ b.ev = e /\ b.pass = "recovering"
            /\ b.home = task[t].home /\ b.todo = task[t].todo \ {x}
        BY <2>2 DEF TaskState
      <4> HIDE DEF b
      <4> QED
        BY <4>1, <4>2
    <3> HIDE DEF rest
    <3>3. IF e = None THEN TimedClaim(w) ELSE claim[e] = w
      BY <2>4 DEF Reservable
    <3>4. /\ claim \in [Publishers -> Waits \cup {None}] /\ None \notin Waits
          /\ MailboxTypeOK /\ None \notin Publishers
      BY MailTypes
    <3>5. /\ \A v \in Waits : v # w => rec'[v] = rec[v]
          /\ rec'[w].age = "reserved" /\ rec'[w].st = rec[w].st
          /\ rec'[w].ev = rec[w].ev
      BY <3>1, <3>4 DEF MailboxTypeOK
    <3>6. ~Kept(w) /\ task[t].todo # {}
          /\ \A y \in task[t].todo \ {x} : y[1] # w
      BY <1>1 DEF OrderlyInv, RecoverInv, TodoOK
    <3>7. \A u \in Tasks : u # t /\ task[u].pc \in Holding => task[u].cur # w
      BY <3>6 DEF Kept
    <3>8. \A u \in Tasks : u # t /\ task[u].pass = "recovering" =>
            \A y \in task[u].todo : y[1] # w
      <4> SUFFICES ASSUME NEW u \in Tasks, u # t, task[u].pass = "recovering",
                          task[u].todo # {}
                   PROVE  FALSE
        OBVIOUS
      <4>1. TaskOK(u, task[u])
        BY TaskFields
      <4>2. task[u].home \in alive /\ task[t].home \in alive
        BY <1>1, <4>1 DEF TaskOK, RecoverLabels
      <4>3. alive # Procs
        BY DEF OrderlyInv, RecoverInv, TodoOK
      <4>4. task[u].home = task[t].home
        BY <4>2, <4>3 DEF OrderlyInv, RecoverInv
      <4> QED
        BY <1>1, <4>4 DEF OrderlyInv, RecoverInv
    <3>9. HandOK(a)'
      <4>1. ASSUME e # None PROVE EventHand(w, e)'
        <5>1. claim[e] = w /\ e \in Publishers
          BY <3>3, <4>1
        <5>2. EventHand(w, e)
          BY <3>4, <5>1 DEF OrderlyInv, ClaimInv, EventHand, MailInv
        <5> QED
          BY <1>1, <1>2, <3>5, <5>2
          DEF EventHand, Placed, Open, CurrentExecution, Buffered
      <4>2. ASSUME e = None PROVE TimedClaim(w)'
        BY <3>3, <3>5, <4>2 DEF TimedClaim
      <4> QED
        BY <3>2, <3>5, <4>1, <4>2 DEF HandOK, OpenLabels
    <3>10. a.pc \in Holding /\ LabelOK(a)
      BY <3>2 DEF Holding, LabelOK
    <3>11. \A f \in Publishers : claim'[f] = claim[f] /\ (Buffered(f)' <=> Buffered(f))
      BY <1>1 DEF Buffered
    <3>12. timers' = {} /\ HandInv' /\ SoleInv' /\ RecoverInv'
      <4>1. a.pass = "recovering" =>
              /\ task[t].pass = "recovering" /\ a.todo \subseteq task[t].todo
              /\ a.home = task[t].home /\ \A y \in a.todo : y[1] # w
        BY <1>1, <3>2, <3>6
      <4>2. None \in Publishers \cup {None}
        OBVIOUS
      <4> QED
        BY <1>2, <1>3, <3>2, <3>5, <3>7, <3>8, <3>9, <3>10, <3>11, <4>1,
           <4>2, Touches
    <3>13. ClaimInv' /\ GotInv' /\ Conserved'
      <4>1. \A f \in Publishers : claim[f] = w =>
              rec'[w].st = "delivered" /\ rec'[w].ev = f
        BY <3>4, <3>5 DEF OrderlyInv, ClaimInv
      <4>2. TimedClaim(w)' => TimedPlaced(w)
        <5>1. CASE e = None
          BY <3>3, <5>1 DEF OrderlyInv, ClaimInv
        <5>2. CASE e # None
          BY <3>3, <3>4, <3>5, <5>2 DEF OrderlyInv, ClaimInv, TimedClaim
        <5> QED
          BY <5>1, <5>2
      <4>3. rec'[w].st = "pending" => Open(w)
        BY <3>5 DEF OrderlyInv, ClaimInv
      <4> QED
        BY <1>1, <1>2, <3>4, <3>5, <4>1, <4>2, <4>3, RecStore DEF OrderlyInv
    <3> QED
      BY <3>12, <3>13 DEF OrderlyInv
  <2> QED
    BY <2>3, <2>4
<1> QED
  BY <1>4, <1>5 DEF Recover

(* A pending wait is in nobody's hand and on nobody's list.                *)
LEMMA PendingFree ==
  ASSUME TypeInv, OrderlyInv, NEW w \in Waits, rec[w].st = "pending"
  PROVE  /\ \A u \in Tasks : task[u].pc \in Holding => task[u].cur # w
         /\ \A u \in Tasks : task[u].pass = "recovering" =>
              \A x \in task[u].todo : x[1] # w
         /\ Open(w)
         /\ \A f \in Publishers : claim[f] # w
<1>1. \A u \in Tasks : task[u].pc \in Holding => task[u].cur # w
  BY DEF OrderlyInv, HandInv, HandOK, TimedClaim, EventHand
<1>2. \A u \in Tasks : task[u].pass = "recovering" =>
        \A x \in task[u].todo : x[1] # w
  BY DEF OrderlyInv, RecoverInv, TodoOK, Listed
<1>3. \A f \in Publishers : claim[f] # w
  <2>1. w # None
    BY NoneAssumption
  <2> QED
    BY <2>1 DEF OrderlyInv, ClaimInv
<1> QED
  BY <1>1, <1>2, <1>3 DEF OrderlyInv, ClaimInv

LEMMA DrainWaitOrderly ==
  ASSUME TypeInv, MailInv, OrderlyInv, NEW t \in Tasks, DrainWait(t)
  PROVE  OrderlyInv'
<1>1. /\ task[t].pc = "pass" /\ task[t] \in TaskState /\ TaskOK(t, task[t])
      /\ SameRun /\ Unfaulted /\ task[t].pass = "passing"
  BY TaskFields DEF DrainWait, At, TaskOK
<1>2. UNCHANGED <<status, node, got, order, heard, alive, timers>>
  BY <1>1 DEF SameRun, Unfaulted
<1>3. (\A e \in heard' : Landed(e)) /\ task[t].pc \notin Holding
  BY <1>1, <1>2 DEF OrderlyInv, GotInv, Holding
<1>4. PICK x \in task[t].todo :
       LET w == x[1]
           rest == [task[t] EXCEPT !.todo = @ \ {x}]
       IN \/ /\ NodeOf(w) \notin Delays /\ ClaimEvent(w)
             /\ Become(t, [rest EXCEPT !.pc = "deliver", !.cur = w,
                                       !.ev = rec'[w].ev])
          \/ /\ \/ NodeOf(w) \in Delays
                \/ rec[w].st # "pending" \/ Takeable(w) = {}
             /\ Become(t, IF NodeOf(w) \in Timed \ Delays /\ due
                             /\ task[t].goal = None
                          THEN [rest EXCEPT !.pc = "resolve", !.cur = w]
                          ELSE rest)
             /\ SameStore
  BY DEF DrainWait
<1> DEFINE rest == [task[t] EXCEPT !.todo = @ \ {x}]
<1> PICK w \in Waits : w = x[1]
  BY <1>1 DEF TaskState
<1> DEFINE b == [rest EXCEPT !.pc = "resolve", !.cur = w]
<1>5. rest \in TaskState /\ rest.pc = "pass" /\ rest.pass = "passing"
  BY <1>1 DEF TaskState
<1>6. \/ NodeOf(w) \notin Delays /\ ClaimEvent(w)
         /\ Become(t, [rest EXCEPT !.pc = "deliver", !.cur = w, !.ev = rec'[w].ev])
      \/ Become(t, b) /\ SameStore
      \/ Become(t, rest) /\ SameStore
  BY <1>4
<1> HIDE DEF rest
<1>7. b.pc = "resolve" /\ b.pass = "passing"
  BY <1>5 DEF TaskState
<1> HIDE DEF b
<1>8. CASE SameStore /\ (Become(t, b) \/ Become(t, rest))
  <2>1. /\ b.pc \notin Holding /\ LabelOK(b) /\ HandOK(b)
        /\ rest.pc \notin Holding /\ LabelOK(rest) /\ HandOK(rest)
    BY <1>5, <1>7, FreeHand DEF Holding, LabelOK
  <2> QED
    BY <1>2, <1>3, <1>5, <1>7, <1>8, <2>1, Moves DEF SameStore
<1>9. CASE NodeOf(w) \notin Delays /\ ClaimEvent(w)
         /\ Become(t, [rest EXCEPT !.pc = "deliver", !.cur = w, !.ev = rec'[w].ev])
  <2>1. rec'[w].ev \in Publishers
    BY <1>2, <1>9, ClaimMail
  <2> PICK e \in Publishers : e = rec'[w].ev
    BY <2>1
  <2>3. PICK a : /\ Become(t, a) /\ a.pc = "deliver" /\ a.cur = w /\ a.ev = e
                 /\ a.pass = "passing"
    <3> DEFINE c == [rest EXCEPT !.pc = "deliver", !.cur = w, !.ev = e]
    <3>1. Become(t, c)
      BY <1>9
    <3>2. c.pc = "deliver" /\ c.cur = w /\ c.ev = e /\ c.pass = "passing"
      BY <1>5 DEF TaskState
    <3> HIDE DEF c
    <3> QED
      BY <3>1, <3>2
  <2>4. /\ Buffered(e) /\ claim[e] = None
        /\ claim' = [claim EXCEPT ![e] = w]
        /\ rec' = [rec EXCEPT ![w] = [st |-> "delivered", ev |-> e, age |-> "new"]]
        /\ \A f \in Publishers : Buffered(f)' <=> Buffered(f) /\ f # e
        /\ MailInv'
    BY <1>2, <1>9, ClaimMail
  <2>5. /\ claim \in [Publishers -> Waits \cup {None}] /\ None \notin Waits
        /\ MailboxTypeOK /\ None \notin Publishers
    BY MailTypes
  <2>6. rec[w].st = "pending"
    BY <1>9 DEF ClaimEvent
  <2>7. /\ rec'[w].st = "delivered" /\ rec'[w].ev = e /\ rec'[w].age = "new"
        /\ \A v \in Waits : v # w => rec'[v] = rec[v]
        /\ \A f \in Publishers : claim'[f] = IF f = e THEN w ELSE claim[f]
    BY <2>4, <2>5 DEF MailboxTypeOK
  <2>8. /\ \A u \in Tasks : task[u].pc \in Holding => task[u].cur # w
        /\ \A u \in Tasks : task[u].pass = "recovering" =>
             \A y \in task[u].todo : y[1] # w
        /\ Open(w)
    BY <2>6, PendingFree
  <2>9. \A u \in Tasks : task[u].pc \in Holding => task[u].ev # e
    BY <2>4, <2>5 DEF OrderlyInv, HandInv, HandOK, EventHand
  <2>10. EventHand(w, e)'
    <3>1. order'[e] > 0 /\ ~Buffered(e)'
      BY <2>4, <2>5, <2>7, <1>2 DEF MailInv
    <3>2. Placed(w, e)'
      BY <1>2, <2>8 DEF Placed, Open, CurrentExecution
    <3> QED
      BY <1>9, <2>7, <3>1, <3>2 DEF EventHand
  <2>11. HandOK(a)'
    BY <1>2, <2>3, <2>5, <2>7, <2>8, <2>10 DEF HandOK, Open, CurrentExecution
  <2>12. a.pc \in Holding /\ LabelOK(a)
    BY <2>3 DEF Holding, LabelOK
  <2>13. timers' = {} /\ HandInv' /\ SoleInv' /\ RecoverInv'
    <3>1. \A f \in Publishers : f # e =>
            claim'[f] = claim[f] /\ (Buffered(f)' <=> Buffered(f))
      BY <2>4, <2>7
    <3>2. UNCHANGED <<status, node, got, order, alive, timers>>
      BY <1>2
    <3>3. claim'[e] = w
      BY <2>7
    <3> QED
      BY <1>2, <1>3, <2>3, <2>7, <2>8, <2>9, <2>11, <2>12, <3>1, <3>2, <3>3, Touches
  <2>14. ClaimInv' /\ GotInv' /\ Conserved'
    BY <1>2, <1>9, ClaimStore DEF OrderlyInv
  <2> QED
    BY <2>13, <2>14 DEF OrderlyInv
<1> QED
  BY <1>6, <1>8, <1>9

LEMMA ResolveDeadlineOrderly ==
  ASSUME TypeInv, MailInv, OrderlyInv, NEW t \in Tasks, ResolveDeadline(t)
  PROVE  OrderlyInv'
<1>1. /\ task[t].pc = "resolve" /\ task[t] \in TaskState /\ TaskOK(t, task[t])
      /\ UNCHANGED <<mailbox, claim, receipts>> /\ SameRun /\ Unfaulted
  BY TaskFields DEF ResolveDeadline, At
<1>2. UNCHANGED <<status, node, got, order, heard, alive, timers>>
  BY <1>1 DEF SameRun, Unfaulted
<1>3. (\A e \in heard' : Landed(e)) /\ task[t].pc \notin Holding
  BY <1>1, <1>2 DEF OrderlyInv, GotInv, Holding
<1>4. CASE NextWait(t) /\ UNCHANGED rec
  <2>1. PICK a : /\ Become(t, a) /\ a.pc \notin Holding /\ LabelOK(a)
                 /\ a.pass = "recovering" =>
                      /\ task[t].pass = "recovering" /\ a.todo = task[t].todo
                      /\ a.home = task[t].home
    BY <1>4, NextWaitFree
  <2>2. HandOK(a)
    BY <2>1, FreeHand
  <2> QED
    BY <1>1, <1>2, <1>3, <1>4, <2>1, <2>2, Moves
<1>5. CASE ExpiryClaims(Cur(t))
  <2>1. Cur(t) \in Waits /\ task[t].ev = None /\ task[t].pass # "recovering"
    BY <1>1 DEF TaskOK, Cur, WaitLabels, FreeLabels, RecoverLabels
  <2> PICK w \in Waits : w = Cur(t)
    BY <2>1
  <2>2. rec[w].st = "pending"
    BY <1>5 DEF ExpiryClaims
  <2>3. PICK l \in {"deliver", "expired"}, s \in {"delivered", "expired"} :
          /\ ResolveRecord(w, s) /\ Goto(t, l)
          /\ NodeOf(w) \in Delays => l = "deliver" /\ s = "delivered"
          /\ NodeOf(w) \notin Delays => l = "expired" /\ s = "expired"
    BY <1>5 DEF ResolveDeadline
  <2>5. PICK a : /\ Become(t, a) /\ a.pc = l /\ a.cur = w /\ a.ev = None
                 /\ a.pass # "recovering"
    <3> DEFINE c == [task[t] EXCEPT !.pc = l]
    <3>1. Become(t, c)
      BY <2>3 DEF Goto
    <3>2. c.pc = l /\ c.cur = w /\ c.ev = None /\ c.pass # "recovering"
      BY <1>1, <2>1 DEF TaskState, Cur
    <3> HIDE DEF c
    <3> QED
      BY <3>1, <3>2
  <2>6. /\ claim \in [Publishers -> Waits \cup {None}] /\ None \notin Waits
        /\ MailboxTypeOK /\ None \notin Publishers
    BY MailTypes
  <2>7. /\ rec'[w].st = s /\ rec'[w].age = "new"
        /\ \A v \in Waits : v # w => rec'[v] = rec[v]
    BY <2>3, <2>6 DEF MailboxTypeOK, ResolveRecord
  <2>8. /\ \A u \in Tasks : task[u].pc \in Holding => task[u].cur # w
        /\ \A u \in Tasks : task[u].pass = "recovering" =>
             \A y \in task[u].todo : y[1] # w
        /\ Open(w) /\ \A f \in Publishers : claim[f] # w
    BY <2>2, PendingFree
  <2>9. TimedClaim(w)'
    BY <2>3, <2>7 DEF TimedClaim
  <2>10. HandOK(a)'
    BY <1>2, <2>3, <2>5, <2>7, <2>8, <2>9 DEF HandOK, Open, CurrentExecution
  <2>11. a.pc \in Holding /\ LabelOK(a)
    BY <2>3, <2>5 DEF Holding, LabelOK
  <2>12. \A f \in Publishers : claim'[f] = claim[f] /\ (Buffered(f)' <=> Buffered(f))
    BY <1>1 DEF Buffered
  <2>13. timers' = {} /\ HandInv' /\ SoleInv' /\ RecoverInv'
    <3>1. None \in Publishers \cup {None}
      OBVIOUS
    <3> QED
      BY <1>2, <1>3, <2>5, <2>7, <2>8, <2>10, <2>11, <2>12, <3>1, Touches
  <2>14. ClaimInv' /\ GotInv' /\ Conserved'
    <3>1. TimedPlaced(w) /\ rec'[w].st # "pending"
      BY <2>7, <2>8 DEF TimedPlaced, Open
    <3> QED
      BY <1>1, <1>2, <2>6, <2>7, <2>8, <3>1, RecStore DEF OrderlyInv
  <2> QED
    BY <2>13, <2>14 DEF OrderlyInv
<1> QED
  BY <1>4, <1>5 DEF ResolveDeadline

(* Steps of one actor that leave the store and the run alone.              *)

Quiet == UNCHANGED <<rec, mailbox, claim, receipts, status, node, got, order,
                     alive, timers>>

LEMMA QuietSteps ==
  ASSUME SameStore, UNCHANGED <<status, node, got, order>>, UNCHANGED <<alive, timers>>
  PROVE  Quiet
BY DEF Quiet, SameStore

LEMMA HeardLanded ==
  ASSUME OrderlyInv, UNCHANGED heard PROVE \A e \in heard' : Landed(e)
BY DEF OrderlyInv, GotInv

LEMMA FreeMoves ==
  ASSUME TypeInv, OrderlyInv, NEW t \in Tasks, NEW a, Become(t, a),
         Quiet, UNCHANGED heard, task[t].pc \notin Holding,
         a.pc \notin Holding, LabelOK(a),
         a.pass = "recovering" =>
           /\ task[t].pass = "recovering" /\ a.todo = task[t].todo
           /\ a.home = task[t].home
  PROVE  OrderlyInv'
<1>1. HandOK(a)
  BY FreeHand
<1>2. UNCHANGED <<rec, mailbox, claim, receipts, status, node, got, order,
                  alive, timers>>
  BY DEF Quiet
<1>3. \A e \in heard' : Landed(e)
  BY HeardLanded
<1> QED
  BY <1>1, <1>2, <1>3, Moves

LEMMA FreeEnds ==
  ASSUME TypeInv, OrderlyInv, NEW t \in Tasks, Quiet, UNCHANGED heard,
         task[t].pc \notin Holding,
         Become(t, Resting) \/ \E o : Ends(t, o)
  PROVE  OrderlyInv'
<1>1. PICK a : Become(t, a) /\ a.pc \in {"idle", "done"} /\ a.pass = "no"
  <2>1. Resting.pc = "idle" /\ Resting.pass = "no"
    BY DEF Resting
  <2>2. \A o : Answer(t, o).pc = "done" /\ Answer(t, o).pass = "no"
    BY DEF Answer, Resting
  <2> QED
    BY <2>1, <2>2 DEF Ends
<1>2. a.pc \notin Holding /\ LabelOK(a)
  BY <1>1 DEF Holding, LabelOK
<1> QED
  BY <1>1, <1>2, FreeMoves

LEMMA GoesState ==
  ASSUME TypeInv, NEW t \in Tasks, NEW l \in Labels, Goto(t, l)
  PROVE  \E a : /\ Become(t, a) /\ a.pc = l /\ a.cur = Cur(t) /\ a.ev = Ev(t)
                /\ a.pass = task[t].pass /\ a.todo = task[t].todo
                /\ a.home = task[t].home
<1> DEFINE a == [task[t] EXCEPT !.pc = l]
<1>1. task[t] \in TaskState
  BY TaskFields
<1>2. Become(t, a)
  BY DEF Goto
<1>3. /\ a.pc = l /\ a.cur = Cur(t) /\ a.ev = Ev(t) /\ a.pass = task[t].pass
      /\ a.todo = task[t].todo /\ a.home = task[t].home
  BY <1>1 DEF TaskState, Cur, Ev
<1> HIDE DEF a
<1> QED
  BY <1>2, <1>3

LEMMA FreeGoes ==
  ASSUME TypeInv, OrderlyInv, NEW t \in Tasks, NEW l \in Labels, Goto(t, l),
         Quiet, UNCHANGED heard, task[t].pc \notin Holding, l \notin Holding,
         l \notin {"retire", "cancel", "retry"},
         l \in {"discard", "remove"} => status \in Over
  PROVE  OrderlyInv'
<1>1. PICK a : /\ Become(t, a) /\ a.pc = l
               /\ a.pass = task[t].pass /\ a.todo = task[t].todo
               /\ a.home = task[t].home
  BY GoesState
<1>2. LabelOK(a)
  BY <1>1 DEF LabelOK
<1> QED
  BY <1>1, <1>2, FreeMoves

(* With a claim in hand from one label to another.                         *)
LEMMA HandGoes ==
  ASSUME TypeInv, OrderlyInv, NEW t \in Tasks, NEW l \in Holding, Goto(t, l),
         Quiet, task[t].pc \in Holding, \A e \in heard' : Landed(e),
         l \in OpenLabels => Open(Cur(t)),
         l \in {"resume", "finalize"} /\ Ev(t) # None => got[Cur(t)] = Ev(t),
         l \in {"deliver", "patch", "resume"} /\ Ev(t) = None =>
           NodeOf(Cur(t)) \in Delays,
         l \in {"expired", "failRead", "failCas"} => NodeOf(Cur(t)) \notin Delays,
         l = "discard" => status \in Over
  PROVE  OrderlyInv'
<1>0. l \in Labels
  BY DEF Holding, Labels
<1>1. PICK a : /\ Become(t, a) /\ a.pc = l /\ a.cur = Cur(t) /\ a.ev = Ev(t)
               /\ a.pass = task[t].pass /\ a.todo = task[t].todo
               /\ a.home = task[t].home
  BY <1>0, GoesState
<1>2. LabelOK(a)
  BY <1>1 DEF LabelOK, Holding
<1>3. HandOK(task[t])
  BY HolderFacts
<1>4. HandOK(a)
  BY <1>1, <1>3 DEF HandOK, Cur, Ev
<1>5. UNCHANGED <<rec, mailbox, claim, receipts, status, node, got, order,
                  alive, timers>>
  BY DEF Quiet
<1> QED
  BY <1>1, <1>2, <1>4, <1>5, Moves DEF Cur

LEMMA PublishMoves ==
  ASSUME TypeInv, OrderlyInv, NEW e \in Publishers,
         \/ Reread(e) \/ Judge(e) \/ ReadNode(e) \/ ReadReceipt(e) \/ Latest(e)
  PROVE  OrderlyInv'
<1>0. e \in Tasks
  BY DEF Tasks
<1>1. /\ task[e].pc \notin Holding /\ SameStore /\ SameRun /\ Unfaulted
  BY DEF Reread, Judge, ReadNode, ReadReceipt, Latest, At, Holding
<1>2. Quiet /\ UNCHANGED heard
  BY <1>1, QuietSteps DEF SameRun, Unfaulted
<1>3. \/ \E o : Ends(e, o)
      \/ \E l \in {"drain", "readReceipt", "latest"} : Goto(e, l)
      \/ status \in Over /\ Goto(e, "remove")
      \/ Take(e, "readNode", claim[e], e)
  BY DEF Reread, Judge, ReadNode, ReadReceipt, Latest
<1>4. CASE \E o : Ends(e, o)
  BY <1>0, <1>1, <1>2, <1>4, FreeEnds
<1>5. CASE \E l \in {"drain", "readReceipt", "latest"} : Goto(e, l)
  <2>1. PICK l \in {"drain", "readReceipt", "latest"} : Goto(e, l)
    BY <1>5
  <2>2. l \in Labels /\ l \notin Holding
        /\ l \notin {"retire", "cancel", "retry", "discard", "remove"}
    BY DEF Labels, Holding
  <2> QED
    BY <1>0, <1>1, <1>2, <2>1, <2>2, FreeGoes
<1>6. CASE status \in Over /\ Goto(e, "remove")
  <2>1. "remove" \in Labels /\ "remove" \notin Holding
        /\ "remove" \notin {"retire", "cancel", "retry"}
    BY DEF Labels, Holding
  <2> QED
    BY <1>0, <1>1, <1>2, <1>6, <2>1, FreeGoes
<1>7. CASE Take(e, "readNode", claim[e], e)
  <2> DEFINE a == [task[e] EXCEPT !.pc = "readNode", !.cur = claim[e], !.ev = e]
  <2>1. task[e] \in TaskState
    BY <1>0, TaskFields
  <2>2. Become(e, a)
    BY <1>7 DEF Take
  <2>3. /\ a.pc = "readNode" /\ a.pass = task[e].pass /\ a.todo = task[e].todo
        /\ a.home = task[e].home
    BY <2>1 DEF TaskState
  <2> HIDE DEF a
  <2>4. a.pc \notin Holding /\ LabelOK(a)
    BY <2>3 DEF Holding, LabelOK
  <2> QED
    BY <1>0, <1>1, <1>2, <2>2, <2>3, <2>4, FreeMoves
<1> QED
  BY <1>3, <1>4, <1>5, <1>6, <1>7

LEMMA StartsOrderly ==
  ASSUME TypeInv, OrderlyInv,
         \/ \E e \in Publishers, p \in Procs : Publish(e, p)
         \/ \E k \in Keepers, p \in Procs : StartDrain(k, p)
         \/ \E k \in Keepers, p \in Procs, w \in Waits : StartExpiry(k, p, w)
  PROVE  OrderlyInv'
<1> DEFINE Starts(t, a) ==
             /\ task[t].pc = "idle" /\ Become(t, a) /\ a.pass = "no"
             /\ a.pc \in {"done", "append", "drain", "resolve"}
             /\ SameStore /\ Unfaulted /\ UNCHANGED <<status, node, got, order>>
<1>0. \E t \in Tasks : \E a : Starts(t, a)
  <2>1. CASE \E e \in Publishers, p \in Procs : Publish(e, p)
    <3>1. PICK e \in Publishers, p \in Procs : Publish(e, p)
      BY <2>1
    <3> DEFINE b == [Resting EXCEPT !.pc = "append", !.home = p,
                                    !.seenFailed = (status = "failed")]
               c == Answer(e, "run-terminal")
    <3>2. Become(e, b) \/ Become(e, c)
      BY <3>1 DEF Publish, Ends
    <3>3. b.pc = "append" /\ b.pass = "no" /\ c.pc = "done" /\ c.pass = "no"
      BY DEF Answer, Resting
    <3> HIDE DEF b, c
    <3>4. /\ e \in Tasks /\ task[e].pc = "idle" /\ SameStore /\ Unfaulted
          /\ UNCHANGED <<status, node, got, order>>
      BY <3>1 DEF Publish, At, Tasks
    <3> QED
      BY <3>2, <3>3, <3>4
  <2>2. CASE \E k \in Keepers, p \in Procs : StartDrain(k, p)
    <3>1. PICK k \in Keepers, p \in Procs : StartDrain(k, p)
      BY <2>2
    <3> DEFINE b == [[Resting EXCEPT !.pc = "drain"] EXCEPT !.home = p]
    <3>2. Become(k, b)
      BY <3>1 DEF StartDrain, Rouse
    <3>3. b.pc = "drain" /\ b.pass = "no"
      BY DEF Resting
    <3> HIDE DEF b
    <3>4. /\ k \in Tasks /\ task[k].pc = "idle" /\ SameStore /\ Unfaulted
          /\ UNCHANGED <<status, node, got, order>>
      BY <3>1 DEF StartDrain, Rouse, At, Tasks, SameRun
    <3> QED
      BY <3>2, <3>3, <3>4
  <2>3. CASE \E k \in Keepers, p \in Procs, w \in Waits : StartExpiry(k, p, w)
    <3>1. PICK k \in Keepers, p \in Procs, w \in Waits : StartExpiry(k, p, w)
      BY <2>3
    <3> DEFINE b == [[Resting EXCEPT !.pc = "resolve", !.cur = w] EXCEPT !.home = p]
               c == [[Resting EXCEPT !.pc = "drain", !.goal = w] EXCEPT !.home = p]
    <3>2. Become(k, b) \/ Become(k, c)
      BY <3>1 DEF StartExpiry, Rouse
    <3>3. b.pc = "resolve" /\ b.pass = "no" /\ c.pc = "drain" /\ c.pass = "no"
      BY DEF Resting
    <3> HIDE DEF b, c
    <3>4. /\ k \in Tasks /\ task[k].pc = "idle" /\ SameStore /\ Unfaulted
          /\ UNCHANGED <<status, node, got, order>>
      BY <3>1 DEF StartExpiry, Rouse, At, Tasks, SameRun
    <3> QED
      BY <3>2, <3>3, <3>4
  <2> QED
    BY <2>1, <2>2, <2>3
<1>1. PICK t \in Tasks : \E a : Starts(t, a)
  BY <1>0
<1>3. PICK a : Starts(t, a)
  BY <1>1
<1>2. Quiet /\ UNCHANGED heard
  BY <1>3, QuietSteps DEF Unfaulted
<1>4. task[t].pc \notin Holding /\ a.pc \notin Holding /\ LabelOK(a)
  BY <1>3 DEF Holding, LabelOK
<1> QED
  BY <1>2, <1>3, <1>4, FreeMoves

(* Scan, EndPass, CheckDeadline                                            *)
LEMMA PassMoves ==
  ASSUME TypeInv, OrderlyInv, NEW t \in Tasks,
         Scan(t) \/ EndPass(t) \/ CheckDeadline(t)
  PROVE  OrderlyInv'
<1>0. task[t] \in TaskState /\ TaskOK(t, task[t])
  BY TaskFields
<1>1. /\ task[t].pc \in {"scan", "pass", "check"}
      /\ SameStore /\ SameRun /\ Unfaulted
  BY DEF Scan, EndPass, CheckDeadline, At
<1>2. Quiet /\ UNCHANGED heard
  BY <1>1, QuietSteps DEF SameRun, Unfaulted
<1>3. task[t].pc \notin Holding /\ task[t].pass # "recovering"
  BY <1>0, <1>1 DEF Holding, TaskOK
<1>4. CASE CheckDeadline(t)
  <2>1. Goto(t, "resolve") \/ Become(t, Resting)
    BY <1>4 DEF CheckDeadline
  <2>2. "resolve" \in Labels /\ "resolve" \notin Holding
        /\ "resolve" \notin {"retire", "cancel", "retry", "discard", "remove"}
    BY DEF Labels, Holding
  <2> QED
    BY <1>2, <1>3, <2>1, <2>2, FreeGoes, FreeEnds
<1>5. CASE Scan(t) \/ EndPass(t)
  <2> DEFINE b == [task[t] EXCEPT !.pc = "pass",
                     !.todo = {<<w, None>> : w \in {v \in Waits :
                                                     rec[v].st = "pending"}}]
             out == [task[t] EXCEPT !.pass = "no", !.goal = None]
             c == [out EXCEPT !.pc = "judge"]
             d == [out EXCEPT !.pc = "check", !.cur = task[t].goal]
  <2>1. Become(t, b) \/ Become(t, c) \/ Become(t, d) \/ Become(t, Resting)
    BY <1>5 DEF Scan, EndPass
  <2>2. b.pc = "pass" /\ b.pass = task[t].pass
    BY <1>0 DEF TaskState
  <2>3. out \in TaskState /\ out.pass = "no"
    BY <1>0 DEF TaskState
  <2> HIDE DEF out
  <2>4. c.pc = "judge" /\ c.pass = "no" /\ d.pc = "check" /\ d.pass = "no"
    BY <2>3 DEF TaskState
  <2> HIDE DEF b, c, d
  <2>5. /\ b.pc \notin Holding /\ c.pc \notin Holding /\ d.pc \notin Holding
        /\ LabelOK(b) /\ LabelOK(c) /\ LabelOK(d)
    BY <2>2, <2>4 DEF Holding, LabelOK
  <2>6. CASE Become(t, b)
    BY <1>2, <1>3, <2>2, <2>5, <2>6, FreeMoves
  <2>7. CASE Become(t, c)
    BY <1>2, <1>3, <2>4, <2>5, <2>7, FreeMoves
  <2>8. CASE Become(t, d)
    BY <1>2, <1>3, <2>4, <2>5, <2>8, FreeMoves
  <2>9. CASE Become(t, Resting)
    BY <1>2, <1>3, <2>9, FreeEnds
  <2> QED
    BY <2>1, <2>6, <2>7, <2>8, <2>9
<1> QED
  BY <1>4, <1>5
(* OpenSession: what a recovery lists is in nobody's hand.                 *)
LEMMA OpenSessionOrderly ==
  ASSUME TypeInv, OrderlyInv, NEW t \in Tasks, OpenSession(t)
  PROVE  OrderlyInv'
<1>0. task[t] \in TaskState /\ TaskOK(t, task[t])
  BY TaskFields
<1>1. task[t].pc = "drain" /\ SameStore /\ SameRun /\ Unfaulted
  BY DEF OpenSession, At
<1>2. Quiet /\ UNCHANGED heard
  BY <1>1, QuietSteps DEF SameRun, Unfaulted
<1>3. task[t].pc \notin Holding
  BY <1>1 DEF Holding
<1>4. CASE SessionOpen(task[t].home)
  <2> DEFINE a == [task[t] EXCEPT !.pc = "scan", !.pass = "passing"]
  <2>1. Become(t, a)
    BY <1>4 DEF OpenSession
  <2>2. a.pc = "scan" /\ a.pass = "passing"
    BY <1>0 DEF TaskState
  <2> HIDE DEF a
  <2>3. a.pc \notin Holding /\ LabelOK(a)
    BY <2>2 DEF Holding, LabelOK
  <2> QED
    BY <1>2, <1>3, <2>1, <2>2, <2>3, FreeMoves
<1>5. CASE ~SessionOpen(task[t].home)
  <2> DEFINE b == [task[t] EXCEPT !.pc = "recover", !.pass = "recovering",
                                  !.todo = Abandoned(task[t].home)]
  <2>1. Become(t, b)
    BY <1>5 DEF OpenSession
  <2>2. /\ b.pc = "recover" /\ b.pass = "recovering" /\ b.home = task[t].home
        /\ b.todo = Abandoned(task[t].home)
    BY <1>0 DEF TaskState
  <2> HIDE DEF b
  <2>3. b.pc \notin Holding /\ LabelOK(b) /\ HandOK(b)
    BY <2>2, FreeHand DEF Holding, LabelOK
  <2>4. /\ claim \in [Publishers -> Waits \cup {None}] /\ None \notin Waits
        /\ MailboxTypeOK /\ None \notin Publishers
    BY MailTypes
  <2>5. ASSUME NEW x \in b.todo
        PROVE  /\ x[1] \in Waits /\ x[2] \in Publishers \cup {None}
               /\ x = <<x[1], x[2]>> /\ rec[x[1]].age \in {"due", "lapsed"}
               /\ x[2] = None => TimedClaim(x[1])
               /\ x[2] # None => /\ claim[x[2]] = x[1] /\ rec[x[1]].ev = x[2]
                                 /\ rec[x[1]].st = "delivered"
                                 /\ NodeOf(x[1]) \notin Delays
    <3>1. /\ x \in Waits \X (Publishers \cup {None})
          /\ rec[x[1]].age \in {"due", "lapsed"}
          /\ IF x[2] = None THEN TimedClaim(x[1]) ELSE claim[x[2]] = x[1]
      BY <2>2 DEF Abandoned
    <3>2. x[1] \in Waits /\ x[2] \in Publishers \cup {None} /\ x = <<x[1], x[2]>>
      BY <3>1
    <3>3. ASSUME x[2] # None
          PROVE  /\ claim[x[2]] = x[1] /\ rec[x[1]].ev = x[2]
                 /\ rec[x[1]].st = "delivered" /\ NodeOf(x[1]) \notin Delays
      BY <2>4, <3>1, <3>2, <3>3 DEF OrderlyInv, ClaimInv
    <3> QED
      BY <3>1, <3>2, <3>3
  <2>6. TodoOK(b)
    <3>1. ASSUME NEW x \in b.todo
          PROVE  Listed(x[1]) /\ ~Kept(x[1]) /\ alive # Procs
      <4>1. Listed(x[1])
        BY <2>5 DEF Listed, LiveRecord, TimedClaim
      <4>2. ~Kept(x[1])
        BY <2>5 DEF Kept, OrderlyInv, HandInv, HandOK
      <4>3. Claimed(x[1])
        BY <2>5 DEF Claimed
      <4> QED
        BY <2>5, <4>1, <4>2, <4>3 DEF OrderlyInv, RecoverInv
    <3>2. ASSUME NEW x \in b.todo, NEW y \in b.todo, x[1] = y[1]
          PROVE  x = y
      <4>1. x[2] = y[2]
        BY <2>5, <3>2 DEF TimedClaim
      <4> QED
        BY <2>5, <3>2, <4>1
    <3> QED
      BY <3>1, <3>2 DEF TodoOK
  <2>7. \A u \in Tasks : u # t /\ b.pass = "recovering"
          /\ task[u].pass = "recovering" => task[u].home # b.home
    BY <1>5, <2>2 DEF SessionOpen
  <2>8. UNCHANGED <<rec, mailbox, claim, receipts, status, node, got, order,
                    alive, timers>>
    BY <1>2 DEF Quiet
  <2>9. \A e \in heard' : Landed(e)
    BY <1>2, HeardLanded
  <2> QED
    BY <1>3, <2>1, <2>3, <2>6, <2>7, <2>8, <2>9, MovesTo
<1> QED
  BY <1>4, <1>5

LEMMA InspectOrderly ==
  ASSUME TypeInv, OrderlyInv, NEW t \in Tasks, Inspect(t)
  PROVE  OrderlyInv'
<1>1. task[t].pc = "inspect" /\ SameStore /\ SameRun /\ Unfaulted
  BY DEF Inspect, At
<1>2. Quiet /\ \A e \in heard' : Landed(e)
  BY <1>1, QuietSteps, HeardLanded DEF SameRun, Unfaulted
<1>3. task[t].pc \in Holding
  BY <1>1 DEF Holding
<1>4. /\ Cur(t) \in Waits /\ Ev(t) \in Publishers \cup {None}
      /\ HandOK(task[t])
  BY <1>3, HolderFacts
<1>5. IF Ev(t) = None THEN TimedClaim(Cur(t)) ELSE EventHand(Cur(t), Ev(t))
  BY <1>3, <1>4 DEF HandOK, Cur, Ev
<1>6. CASE Ev(t) # None
  <2>1. Placed(Cur(t), Ev(t))
    BY <1>5, <1>6 DEF EventHand
  <2>2. PICK l \in {"finalize", "discard", "restore"} :
          /\ Goto(t, l)
          /\ l = "discard" => status \in Over
          /\ l = "finalize" =>
               \/ node[NodeOf(Cur(t))].st = "completed"
               \/ ~CurrentExecution(Cur(t))
          /\ l = "restore" => node[NodeOf(Cur(t))].st # "completed"
    BY <1>6 DEF Inspect, IsTimed, CommittedStatus
  <2>3. l = "finalize" => got[Cur(t)] = Ev(t)
    BY <2>1, <2>2 DEF Placed, Open
  <2>4. l = "restore" => Open(Cur(t))
    BY <2>1, <2>2 DEF Placed
  <2>5. l \in Holding
    BY DEF Holding
  <2> QED
    BY <1>2, <1>3, <1>6, <2>2, <2>3, <2>4, <2>5, HandGoes DEF OpenLabels
<1>7. CASE Ev(t) = None
  <2>1. TimedPlaced(Cur(t))
    BY <1>4, <1>5, <1>7 DEF OrderlyInv, ClaimInv
  <2>2. PICK l \in {"finTimed", "restTimed"} :
          /\ Goto(t, l)
          /\ l = "restTimed" =>
               /\ CurrentExecution(Cur(t))
               /\ node[NodeOf(Cur(t))].st # CommittedStatus(Cur(t), None)
    BY <1>7 DEF Inspect, IsTimed
  <2>3. l = "restTimed" => Open(Cur(t))
    <3>1. CurrentExecution(Cur(t)) => ~(Cur(t)[2] < node[NodeOf(Cur(t))].inst)
      <4>1. Cur(t)[2] \in Nat
        BY <1>4 DEF Waits, Instances
      <4> QED
        BY <4>1 DEF CurrentExecution
    <3> QED
      BY <2>1, <2>2, <3>1 DEF TimedPlaced, Open
  <2>4. l \in Holding
    BY DEF Holding
  <2> QED
    BY <1>2, <1>3, <1>7, <2>2, <2>3, <2>4, HandGoes DEF OpenLabels
<1> QED
  BY <1>6, <1>7

LEMMA HandMoves ==
  ASSUME TypeInv, OrderlyInv, NEW t \in Tasks,
         Deliver(t) \/ LookAgain(t) \/ FailRead(t)
  PROVE  OrderlyInv'
<1>1. /\ task[t].pc \in {"deliver", "expired", "failRead"}
      /\ SameStore /\ SameRun /\ Unfaulted
  BY DEF Deliver, LookAgain, FailRead, At
<1>2. Quiet /\ \A e \in heard' : Landed(e)
  BY <1>1, QuietSteps, HeardLanded DEF SameRun, Unfaulted
<1>3. task[t].pc \in Holding /\ task[t].pc \in OpenLabels
  BY <1>1 DEF Holding, OpenLabels
<1>4. /\ Cur(t) \in Waits /\ HandOK(task[t])
  BY <1>3, HolderFacts
<1>5. /\ Open(Cur(t))
      /\ task[t].pc = "deliver" /\ Ev(t) = None => NodeOf(Cur(t)) \in Delays
      /\ task[t].pc \in {"expired", "failRead"} => NodeOf(Cur(t)) \notin Delays
  BY <1>3, <1>4 DEF HandOK, Cur, Ev
<1>6. CASE Deliver(t)
  <2>1. PICK l \in {"restTimed", "rollback", "finTimed", "discard", "patch"} :
          Goto(t, l) /\ (l = "discard" => status \in Over)
    BY <1>5, <1>6 DEF Deliver, Open
  <2>2. l \in Holding /\ task[t].pc = "deliver"
    BY <1>6 DEF Holding, Deliver, At
  <2> QED
    BY <1>2, <1>3, <1>5, <2>1, <2>2, HandGoes
<1>7. CASE LookAgain(t) \/ FailRead(t)
  <2>1. PICK l \in {"restTimed", "failRead", "finTimed", "failCas"} : Goto(t, l)
    BY <1>7 DEF LookAgain, FailRead
  <2>2. l \in Holding /\ task[t].pc \in {"expired", "failRead"}
    BY <1>7 DEF Holding, LookAgain, FailRead, At
  <2> QED
    BY <1>2, <1>3, <1>5, <2>1, <2>2, HandGoes
<1> QED
  BY <1>6, <1>7

LEMMA ResumeRunOrderly ==
  ASSUME TypeInv, OrderlyInv, NEW t \in Tasks, ResumeRun(t)
  PROVE  OrderlyInv'
<1>1. /\ task[t].pc = "resume" /\ SameStore /\ SameRun
      /\ UNCHANGED <<alive, timers>> /\ heard' = Hear(t)
  BY DEF ResumeRun, At
<1>2. Quiet
  BY <1>1, QuietSteps DEF SameRun
<1>3. task[t].pc \in Holding
  BY <1>1 DEF Holding
<1>4. /\ Cur(t) \in Waits /\ HandOK(task[t])
  BY <1>3, HolderFacts
<1>5. Ev(t) # None => got[Cur(t)] = Ev(t)
  BY <1>1, <1>3, <1>4 DEF HandOK, Cur, Ev
<1>6. \A e \in heard' : Landed(e)
  <2>1. None \notin Publishers
    BY MailTypes
  <2>2. Ev(t) \in Publishers => Landed(Ev(t))
    BY <1>4, <1>5, <2>1 DEF Landed
  <2> QED
    BY <1>1, <2>2 DEF OrderlyInv, GotInv, Hear
<1>7. PICK l \in {"finTimed", "finalize"} : Goto(t, l)
  BY DEF ResumeRun
<1>8. l \in Holding /\ l \notin OpenLabels
  BY DEF Holding, OpenLabels
<1> QED
  BY <1>2, <1>3, <1>5, <1>6, <1>7, <1>8, HandGoes

(* Under orderly execution nothing is stale and nothing fails.             *)
LEMMA NeverOrderly ==
  ASSUME TypeInv, OrderlyInv, Orderly, NEW t \in Tasks
  PROVE  ~(\/ Retire(t) \/ CancelStale(t) \/ RetryCommitted(t) \/ Disturb(t)
           \/ \E p \in Procs, w \in Waits, e \in Publishers \cup {None} :
                StartRetry(t, p, w, e))
<1>1. LabelOK(task[t]) /\ timers = {}
  BY DEF OrderlyInv, HandInv
<1>2. ~(Retire(t) \/ CancelStale(t) \/ RetryCommitted(t))
  BY <1>1 DEF Retire, CancelStale, RetryCommitted, At, LabelOK
<1>3. ~Fault /\ ~Churn
  BY DEF Orderly, Fault, TypeInv, TypeOK
<1>4. ~Disturb(t)
  BY <1>3 DEF Disturb, DeliverFails, PatchRejected, ResumeRefused
<1>5. ASSUME NEW p \in Procs, NEW w \in Waits, NEW e \in Publishers \cup {None}
      PROVE  ~StartRetry(t, p, w, e)
  BY <1>1 DEF StartRetry
<1> QED
  BY <1>2, <1>4, <1>5
(* Steps that change the run.                                              *)

LEMMA Carried ==
  ASSUME TypeInv, OrderlyInv, UNCHANGED <<alive, timers>>,
         \A u \in Tasks :
           /\ task'[u].pc \in Holding <=> task[u].pc \in Holding
           /\ task'[u].pc \in Holding => task'[u].cur = task[u].cur
           /\ task'[u].pass = "recovering" =>
                /\ task[u].pass = "recovering" /\ task'[u].home = task[u].home
                /\ task'[u].todo = task[u].todo,
         \A w \in Waits : Claimed(w)' => Claimed(w),
         \A w \in Waits : Listed(w) => Listed(w)'
  PROVE  timers' = {} /\ SoleInv' /\ RecoverInv'
<1>1. \A w : Kept(w)' <=> Kept(w)
  BY DEF Kept
<1>2. SoleInv'
  BY DEF OrderlyInv, SoleInv
<1>3. ASSUME NEW u \in Tasks PROVE TodoOK(task[u])'
  <2>1. TodoOK(task[u]) /\ task[u] \in TaskState
    BY TaskFields DEF OrderlyInv, RecoverInv
  <2>2. \A x \in task[u].todo : x[1] \in Waits
    BY <2>1 DEF TaskState
  <2> QED
    BY <1>1, <2>1, <2>2 DEF TodoOK
<1>4. RecoverInv'
  BY <1>1, <1>3 DEF OrderlyInv, RecoverInv
<1> QED
  BY <1>2, <1>4 DEF OrderlyInv

LEMMA HandKept ==
  ASSUME NEW a, HandOK(a), UNCHANGED <<rec, mailbox, claim, order>>,
         status' \in Over <=> status \in Over,
         got'[a.cur] = got[a.cur],
         Open(a.cur) => Open(a.cur)',
         \A e : Placed(a.cur, e) => Placed(a.cur, e)'
  PROVE  HandOK(a)'
<1> SUFFICES ASSUME a.pc \in Holding PROVE HandOK(a)'
  BY DEF HandOK
<1>1. ASSUME a.ev # None PROVE EventHand(a.cur, a.ev)'
  BY <1>1 DEF HandOK, EventHand, Buffered
<1>2. ASSUME a.ev = None PROVE TimedClaim(a.cur)'
  BY <1>2 DEF HandOK, TimedClaim
<1> QED
  BY <1>1, <1>2 DEF HandOK

(* The nodes move on, and no execution that is open or settled is lost.    *)
LEMMA Grows ==
  ASSUME TypeInv, OrderlyInv,
         UNCHANGED <<rec, mailbox, claim, receipts, got, order, task, alive,
                     timers, heard>>,
         status' \in Over <=> status \in Over,
         \A w \in Waits : Open(w) => Open(w)',
         \A w \in Waits : CurrentExecution(w) /\ node[NodeOf(w)].st = "completed"
           => CurrentExecution(w)' /\ node'[NodeOf(w)].st = "completed",
         \A w \in Waits : TimedPlaced(w) => TimedPlaced(w)'
  PROVE  OrderlyInv'
<1>0. /\ claim \in [Publishers -> Waits \cup {None}]
  BY MailTypes
<1>1. \A w \in Waits : \A e : Placed(w, e) => Placed(w, e)'
  BY DEF Placed
<1>2. HandInv'
  <2> SUFFICES ASSUME NEW u \in Tasks PROVE (HandOK(task[u]) /\ LabelOK(task[u]))'
    BY DEF HandInv
  <2>1. HandOK(task'[u]) /\ LabelOK(task'[u]) /\ TaskOK(u, task'[u])
    BY TaskFields DEF OrderlyInv, HandInv
  <2>2. CASE task'[u].pc \in Holding
    <3>1. task'[u].cur \in Waits
      BY <2>1, <2>2 DEF TaskOK, Holding, WaitLabels
    <3>2. HandOK(task[u])'
      BY <1>1, <2>1, <3>1, HandKept
    <3> QED
      BY <2>1, <3>2 DEF LabelOK
  <2>3. CASE task'[u].pc \notin Holding
    BY <2>1, <2>3 DEF HandOK, LabelOK
  <2> QED
    BY <2>2, <2>3
<1>3. ClaimInv'
  <2>1. ASSUME NEW e \in Publishers, claim'[e] # None
        PROVE  /\ rec'[claim'[e]].st = "delivered" /\ rec'[claim'[e]].ev = e
               /\ NodeOf(claim'[e]) \notin Delays /\ Placed(claim[e], e)'
               /\ \A v \in Waits : got'[v] = e => v = claim'[e]
    <3>1. PICK w \in Waits : w = claim[e] /\ w = claim'[e]
      BY <1>0, <2>1
    <3>2. /\ rec[w].st = "delivered" /\ rec[w].ev = e
          /\ NodeOf(w) \notin Delays /\ Placed(w, e)
          /\ \A v \in Waits : got[v] = e => v = w
      BY <2>1, <3>1 DEF OrderlyInv, ClaimInv
    <3>3. Placed(w, e)'
      BY <1>1, <3>2
    <3> QED
      BY <3>1, <3>2, <3>3
  <2>2. \A w \in Waits : TimedClaim(w)' => TimedPlaced(w)'
    BY DEF OrderlyInv, ClaimInv, TimedClaim
  <2>3. \A w \in Waits : rec'[w].st = "pending" => Open(w)'
    BY DEF OrderlyInv, ClaimInv
  <2> QED
    BY <2>1, <2>2, <2>3 DEF ClaimInv
<1>4. GotInv' /\ Conserved'
  BY DEF OrderlyInv, GotInv, Conserved, Landed, Buffered
<1>5. timers' = {} /\ SoleInv' /\ RecoverInv'
  <2>1. \A w \in Waits : (Claimed(w)' => Claimed(w)) /\ (Listed(w) => Listed(w)')
    BY DEF Claimed, Listed, LiveRecord, TimedClaim
  <2> QED
    BY <2>1, Carried
<1> QED
  BY <1>2, <1>3, <1>4, <1>5 DEF OrderlyInv

LEMMA NodeTypes ==
  ASSUME TypeInv
  PROVE  /\ \A w \in Waits : /\ NodeOf(w) \in Nodes /\ w[2] \in Nat
                             /\ w = <<NodeOf(w), w[2]>>
         /\ \A n \in Nodes : node[n].inst \in Nat
         /\ node \in [Nodes -> [st : {"idle", "running", "completed", "failed"},
                                inst : Instances]]
         /\ got \in [Waits -> Publishers \cup {None}]
<1>1. /\ node \in [Nodes -> [st : {"idle", "running", "completed", "failed"},
                             inst : Instances]]
      /\ got \in [Waits -> Publishers \cup {None}]
  BY DEF TypeInv, TypeOK, MailboxTypeOK
<1>2. Instances \subseteq Nat
  BY DEF Instances
<1>3. \A n \in Nodes : node[n].inst \in Nat
  BY <1>1, <1>2
<1>4. ASSUME NEW w \in Waits
      PROVE  NodeOf(w) \in Nodes /\ w[2] \in Nat /\ w = <<NodeOf(w), w[2]>>
  <2>1. w \in Nodes \X Instances
    BY DEF Waits
  <2>2. w[1] \in Nodes /\ w[2] \in Instances /\ w = <<w[1], w[2]>>
    BY <2>1
  <2> QED
    BY <1>2, <2>2 DEF NodeOf
<1> QED
  BY <1>1, <1>3, <1>4

LEMMA ParkOrderly ==
  ASSUME TypeInv, OrderlyInv, NEW n \in Nodes, Park(n) PROVE OrderlyInv'
<1>1. /\ node[n].st = "idle" /\ node' = [node EXCEPT ![n].st = "running"]
      /\ UNCHANGED <<rec, mailbox, claim, receipts, got, order, task, alive,
                     timers, heard, status>>
  BY DEF Park, waitVars
<1>2. node'[n].inst = node[n].inst /\ \A m \in Nodes : m # n => node'[m] = node[m]
  BY <1>1, NodeTypes
<1>3. \A w \in Waits : /\ CurrentExecution(w)' <=> CurrentExecution(w)
                       /\ node'[NodeOf(w)].inst = node[NodeOf(w)].inst
                       /\ node[NodeOf(w)].st # "idle" =>
                            node'[NodeOf(w)].st = node[NodeOf(w)].st
  BY <1>1, <1>2, NodeTypes DEF CurrentExecution
<1>4. \A w \in Waits : CommittedStatus(w, None) # "idle"
  BY DEF CommittedStatus
<1> QED
  BY <1>1, <1>3, <1>4, Grows DEF Open, TimedPlaced, CommittedStatus

LEMMA RetryOrderly ==
  ASSUME TypeInv, OrderlyInv, Retry PROVE OrderlyInv'
<1>1. /\ status = "failed" /\ status' = "active"
      /\ node' = [n \in Nodes |->
                   IF node[n].st = "failed"
                   THEN [st |-> "idle", inst |-> node[n].inst + 1] ELSE node[n]]
      /\ UNCHANGED <<rec, mailbox, claim, receipts, got, order, task, alive,
                     timers, heard>>
  BY DEF Retry
<1>2. \A n \in Nodes : \/ node'[n] = node[n]
                       \/ /\ node[n].st = "failed"
                          /\ node'[n].inst = node[n].inst + 1
  BY <1>1
<1>3. \A w \in Waits : node[NodeOf(w)].st # "failed" =>
                         node'[NodeOf(w)] = node[NodeOf(w)]
  BY <1>2, NodeTypes
<1>4. \A w \in Waits : (Open(w) => Open(w)')
        /\ (CurrentExecution(w) /\ node[NodeOf(w)].st = "completed"
             => CurrentExecution(w)' /\ node'[NodeOf(w)].st = "completed")
  BY <1>3 DEF Open, CurrentExecution
<1>5. ASSUME NEW w \in Waits, TimedPlaced(w) PROVE TimedPlaced(w)'
  <2>1. CASE node'[NodeOf(w)] = node[NodeOf(w)]
    BY <1>5, <2>1 DEF TimedPlaced, CurrentExecution, CommittedStatus
  <2>2. CASE node'[NodeOf(w)].inst = node[NodeOf(w)].inst + 1
    <3>1. w[2] <= node[NodeOf(w)].inst /\ w[2] \in Nat /\ node[NodeOf(w)].inst \in Nat
      BY <1>5, NodeTypes DEF TimedPlaced, CurrentExecution
    <3> QED
      BY <2>2, <3>1 DEF TimedPlaced
  <2> QED
    BY <1>2, <2>1, <2>2, NodeTypes
<1>6. status' \in Over <=> status \in Over
  BY <1>1 DEF Over
<1> QED
  BY <1>1, <1>4, <1>5, <1>6, Grows

LEMMA StillOrderly ==
  ASSUME TypeInv, OrderlyInv, Fail \/ Deadline \/ UNCHANGED vars
  PROVE  OrderlyInv'
<1>1. /\ UNCHANGED <<rec, mailbox, claim, receipts, got, order, task, alive,
                     timers, heard, node>>
      /\ status' \in Over <=> status \in Over
  BY DEF Fail, Deadline, vars, mailVars, waitVars, SameStore, Over
<1> QED
  BY <1>1, Grows DEF Open, CurrentExecution, TimedPlaced, CommittedStatus
(* An open execution is settled.  No other execution of the node is.       *)
LEMMA SettledOthers ==
  ASSUME TypeInv, NEW w \in Waits, Open(w), NEW s,
         node' = [node EXCEPT ![NodeOf(w)].st = s],
         \A v \in Waits : v # w => got'[v] = got[v]
  PROVE  /\ node'[NodeOf(w)].st = s /\ node'[NodeOf(w)].inst = w[2]
         /\ node[NodeOf(w)].st = "running"
         /\ \A v \in Waits : CurrentExecution(v)' <=> CurrentExecution(v)
         /\ \A v \in Waits : v # w =>
              /\ (Open(v) <=> Open(v)') /\ (TimedPlaced(v) <=> TimedPlaced(v)')
              /\ \A e : Placed(v, e) <=> Placed(v, e)'
              /\ CurrentExecution(v) => node'[NodeOf(v)] = node[NodeOf(v)]
<1>1. /\ NodeOf(w) \in Nodes /\ node[NodeOf(w)].inst = w[2]
      /\ node[NodeOf(w)].st = "running"
  BY NodeTypes DEF Open, CurrentExecution
<1>2. /\ node'[NodeOf(w)].st = s /\ node'[NodeOf(w)].inst = node[NodeOf(w)].inst
      /\ \A m \in Nodes : m # NodeOf(w) => node'[m] = node[m]
  BY <1>1, NodeTypes
<1>3. \A v \in Waits : node'[NodeOf(v)].inst = node[NodeOf(v)].inst
  BY <1>2, NodeTypes
<1>4. \A v \in Waits : CurrentExecution(v)' <=> CurrentExecution(v)
  BY <1>3 DEF CurrentExecution
<1>5. ASSUME NEW v \in Waits, v # w, CurrentExecution(v)
      PROVE  node'[NodeOf(v)] = node[NodeOf(v)]
  <2>1. NodeOf(v) # NodeOf(w)
    BY <1>1, <1>5, NodeTypes DEF CurrentExecution
  <2> QED
    BY <1>2, <2>1, NodeTypes
<1>6. ASSUME NEW v \in Waits, v # w
      PROVE  /\ (Open(v) <=> Open(v)') /\ (TimedPlaced(v) <=> TimedPlaced(v)')
             /\ \A e : Placed(v, e) <=> Placed(v, e)'
  <2>1. Open(v) <=> Open(v)'
    BY <1>4, <1>5, <1>6 DEF Open
  <2>2. TimedPlaced(v) <=> TimedPlaced(v)'
    BY <1>3, <1>4, <1>5, <1>6 DEF TimedPlaced, CommittedStatus
  <2>3. \A e : Placed(v, e) <=> Placed(v, e)'
    BY <1>4, <1>5, <1>6, <2>1 DEF Placed
  <2> QED
    BY <2>1, <2>2, <2>3
<1> QED
  BY <1>1, <1>2, <1>4, <1>5, <1>6

(* What the holder of the claim of an open wait does to its node.          *)
LEMMA SettleHands ==
  ASSUME TypeInv, OrderlyInv, NEW t \in Tasks, task[t].pc \in Holding,
         NEW w \in Waits, w = Cur(t), Open(w), NEW s,
         node' = [node EXCEPT ![NodeOf(w)].st = s],
         \A v \in Waits : v # w => got'[v] = got[v],
         UNCHANGED <<rec, mailbox, claim, receipts, order, alive, timers>>,
         status' \in Over <=> status \in Over,
         NEW l \in Holding, Goto(t, l), l # "discard",
         NEW a, Become(t, a), a.pc = l, a.cur = w, HandOK(a)'
  PROVE  timers' = {} /\ HandInv' /\ SoleInv' /\ RecoverInv'
<1>1. \A u \in Tasks : task'[u] = IF u = t THEN a ELSE task[u]
  BY Became
<1>2. PICK b : /\ Become(t, b) /\ b.pc = l /\ b.cur = Cur(t) /\ b.ev = Ev(t)
               /\ b.pass = task[t].pass /\ b.todo = task[t].todo
               /\ b.home = task[t].home
  BY GoesState DEF Holding, Labels
<1>3. a = b
  BY <1>1, <1>2, Became
<1>4. HandInv'
  <2> SUFFICES ASSUME NEW u \in Tasks PROVE (HandOK(task[u]) /\ LabelOK(task[u]))'
    BY DEF HandInv
  <2>1. HandOK(task[u]) /\ LabelOK(task[u]) /\ TaskOK(u, task[u])
    BY TaskFields DEF OrderlyInv, HandInv
  <2>2. CASE u = t
    <3>1. LabelOK(a)'
      BY DEF LabelOK, Holding
    <3> QED
      BY <1>1, <2>2, <3>1 DEF LabelOK
  <2>3. CASE u # t
    <3>1. task'[u] = task[u]
      BY <1>1, <2>3
    <3>2. LabelOK(task[u])'
      BY <2>1, <3>1 DEF LabelOK
    <3>3. HandOK(task'[u])
      BY <2>1, <3>1
    <3>4. CASE task'[u].pc \in Holding
      <4>1. task'[u].cur \in Waits /\ task'[u].cur # w
        BY <2>1, <2>3, <3>1, <3>4, HolderFacts DEF TaskOK, Holding, WaitLabels
      <4>2. /\ Open(task'[u].cur) => Open(task[u].cur)'
            /\ \A e : Placed(task'[u].cur, e) => Placed(task[u].cur, e)'
        BY <4>1, SettledOthers
      <4>3. HandOK(task[u])'
        BY <3>3, <4>1, <4>2, HandKept
      <4> QED
        BY <3>2, <4>3
    <3>5. CASE task'[u].pc \notin Holding
      BY <3>2, <3>5 DEF HandOK
    <3> QED
      BY <3>4, <3>5
  <2> QED
    BY <2>2, <2>3
<1>5. timers' = {} /\ SoleInv' /\ RecoverInv'
  <2>1. \A v \in Waits : (Claimed(v)' => Claimed(v)) /\ (Listed(v) => Listed(v)')
    BY DEF Claimed, Listed, LiveRecord, TimedClaim
  <2>2. \A u \in Tasks :
           /\ task'[u].pc \in Holding <=> task[u].pc \in Holding
           /\ task'[u].pc \in Holding => task'[u].cur = task[u].cur
           /\ task'[u].pass = "recovering" =>
                /\ task[u].pass = "recovering" /\ task'[u].home = task[u].home
                /\ task'[u].todo = task[u].todo
    BY <1>1, <1>2, <1>3 DEF Cur
  <2> QED
    BY <2>1, <2>2, Carried
<1> QED
  BY <1>4, <1>5

LEMMA PatchOrderly ==
  ASSUME TypeInv, MailInv, OrderlyInv, ~Churn, NEW t \in Tasks, Patch(t)
  PROVE  OrderlyInv'
<1>1. /\ task[t].pc = "patch" /\ SameStore /\ Unfaulted
      /\ UNCHANGED <<status, order>>
  BY DEF Patch, At
<1>2. task[t].pc \in Holding /\ task[t].pc \in OpenLabels
  BY <1>1 DEF Holding, OpenLabels
<1>3. /\ Cur(t) \in Waits /\ Ev(t) \in Publishers \cup {None}
      /\ HandOK(task[t])
  BY <1>2, HolderFacts
<1>4. /\ Open(Cur(t))
      /\ Ev(t) = None => NodeOf(Cur(t)) \in Delays /\ TimedClaim(Cur(t))
      /\ Ev(t) # None => EventHand(Cur(t), Ev(t))
      /\ rec[Cur(t)].age \notin {"due", "lapsed"}
  BY <1>1, <1>2, <1>3 DEF HandOK, Cur, Ev
<1>5. CASE Goto(t, "deliver") /\ UNCHANGED <<node, got>>
  <2>1. Quiet /\ \A e \in heard' : Landed(e)
    BY <1>1, <1>5, QuietSteps, HeardLanded DEF Unfaulted
  <2>2. "deliver" \in Holding
    BY DEF Holding
  <2> QED
    BY <1>2, <1>4, <1>5, <2>1, <2>2, HandGoes
<1>6. CASE status = "active" /\ SettleNode(Cur(t), Ev(t)) /\ Goto(t, "resume")
  <2> PICK w \in Waits, e \in Publishers \cup {None} : w = Cur(t) /\ e = Ev(t)
    BY <1>3
  <2>1. /\ UNCHANGED <<rec, mailbox, claim, receipts, status, order, alive,
                       timers, heard>>
        /\ status \notin Over
    BY <1>1, <1>6 DEF SameStore, Unfaulted, Over
  <2>2. w = <<NodeOf(w), node[NodeOf(w)].inst>>
    BY <1>4, NodeTypes DEF Open, CurrentExecution
  <2>3. /\ node' = [node EXCEPT ![NodeOf(w)].st = "completed"]
        /\ got' = [got EXCEPT ![w] = e]
    BY <1>6, <2>2 DEF SettleNode
  <2>4. got'[w] = e /\ \A v \in Waits : v # w => got'[v] = got[v]
    BY <2>3, NodeTypes
  <2>5. /\ node'[NodeOf(w)].st = "completed" /\ node'[NodeOf(w)].inst = w[2]
        /\ node[NodeOf(w)].st = "running"
        /\ \A v \in Waits : CurrentExecution(v)' <=> CurrentExecution(v)
        /\ \A v \in Waits : v # w =>
             /\ (Open(v) <=> Open(v)') /\ (TimedPlaced(v) <=> TimedPlaced(v)')
             /\ \A f : Placed(v, f) <=> Placed(v, f)'
             /\ CurrentExecution(v) => node'[NodeOf(v)] = node[NodeOf(v)]
    BY <1>4, <2>3, <2>4, SettledOthers
  <2>6. got[w] = None /\ CurrentExecution(w)'
    BY <1>4, <2>5 DEF OrderlyInv, GotInv, Open, CurrentExecution
  <2>7. e # None => Placed(w, e)' /\ claim[e] = w /\ ~Buffered(e) /\ order[e] > 0
                    /\ e \in Publishers /\ EventHand(w, e)
    BY <1>4, <2>1, <2>4, <2>5, <2>6 DEF Placed, EventHand
  <2>8. PICK a : /\ Become(t, a) /\ a.pc = "resume" /\ a.cur = w /\ a.ev = e
    <3>1. "resume" \in Labels
      BY DEF Labels
    <3> QED
      BY <1>6, <3>1, GoesState
  <2>9. HandOK(a)'
    <3>1. ASSUME e # None PROVE EventHand(w, e)'
      <4>1. EventHand(w, e) /\ Placed(w, e)'
        BY <2>7, <3>1
      <4> QED
        BY <2>1, <4>1 DEF EventHand, Buffered
    <3>2. ASSUME e = None PROVE TimedClaim(w)' /\ NodeOf(w) \in Delays
      BY <1>4, <2>1, <3>2 DEF TimedClaim
    <3>3. rec'[w].age \notin {"due", "lapsed"} /\ got'[w] = e
      BY <1>4, <2>1, <2>4
    <3>4. a.pc \notin OpenLabels /\ a.pc \notin {"expired", "failRead", "failCas"}
      BY <2>8 DEF OpenLabels
    <3> QED
      BY <2>8, <3>1, <3>2, <3>3, <3>4 DEF HandOK
  <2>10. timers' = {} /\ HandInv' /\ SoleInv' /\ RecoverInv'
    <3>1. "resume" \in Holding
      BY DEF Holding
    <3> QED
      BY <1>2, <1>4, <1>6, <2>1, <2>3, <2>4, <2>8, <2>9, <3>1, SettleHands
  <2>11. \A f \in Publishers : claim[f] = w => f = e
    <3> SUFFICES ASSUME NEW f \in Publishers, claim[f] = w PROVE f = e
      OBVIOUS
    <3>1. rec[w].ev = f /\ NodeOf(w) \notin Delays /\ f # None
      BY MailTypes DEF OrderlyInv, ClaimInv
    <3> QED
      BY <1>4, <2>7, <3>1 DEF EventHand
  <2>12. ClaimInv'
    <3>1. ASSUME NEW f \in Publishers, claim'[f] # None
          PROVE  /\ rec'[claim'[f]].st = "delivered" /\ rec'[claim'[f]].ev = f
                 /\ NodeOf(claim'[f]) \notin Delays /\ Placed(claim[f], f)'
                 /\ \A v \in Waits : got'[v] = f => v = claim'[f]
      <4>1. PICK x \in Waits : x = claim[f] /\ x = claim'[f]
        BY <2>1, <3>1, MailTypes
      <4>2. /\ rec[x].st = "delivered" /\ rec[x].ev = f
            /\ NodeOf(x) \notin Delays /\ Placed(x, f)
            /\ \A v \in Waits : got[v] = f => v = x
        BY <2>1, <3>1, <4>1 DEF OrderlyInv, ClaimInv
      <4>3. Placed(x, f)'
        <5>1. CASE x = w
          BY <2>1, <2>7, <2>11, <4>1, <5>1, MailTypes
        <5>2. CASE x # w
          BY <2>5, <4>2, <5>2
        <5> QED
          BY <5>1, <5>2
      <4>4. \A v \in Waits : got'[v] = f => v = x
        <5>1. f # None
          BY MailTypes
        <5> QED
          BY <2>4, <2>7, <4>1, <4>2, <5>1
      <4> QED
        BY <2>1, <4>1, <4>2, <4>3, <4>4
    <3>2. ASSUME NEW v \in Waits, TimedClaim(v)' PROVE TimedPlaced(v)'
      <4>1. TimedClaim(v)
        BY <2>1, <3>2 DEF TimedClaim
      <4>2. CASE v = w
        <5>1. NodeOf(w) \in Delays
          BY <1>4, <2>7, <4>1, <4>2 DEF TimedClaim, EventHand
        <5> QED
          BY <2>5, <2>6, <4>2, <5>1 DEF TimedPlaced, CommittedStatus
      <4>3. CASE v # w
        BY <2>5, <4>1, <4>3 DEF OrderlyInv, ClaimInv
      <4> QED
        BY <4>2, <4>3
    <3>3. \A v \in Waits : rec'[v].st = "pending" => Open(v)'
      <4>1. rec[w].st # "pending"
        BY <1>4, <2>7 DEF TimedClaim, EventHand
      <4> QED
        BY <2>1, <2>5, <4>1 DEF OrderlyInv, ClaimInv
    <3> QED
      BY <3>1, <3>2, <3>3 DEF ClaimInv
  <2>13. \A f \in Publishers : Landed(f)' <=> Landed(f) \/ f = e
    <3>1. \A f \in Publishers : f # None
      BY MailTypes
    <3> QED
      BY <2>4, <2>6, <3>1 DEF Landed
  <2>14. GotInv'
    <3>1. \A v \in Waits : got'[v] # None =>
            CurrentExecution(v)' /\ node'[NodeOf(v)].st = "completed"
      BY <2>4, <2>5, <2>6 DEF OrderlyInv, GotInv
    <3>2. \A v, x \in Waits : got'[v] = got'[x] /\ got'[v] # None => v = x
      <4>1. \A v \in Waits : got[v] = e /\ e # None => v = w
        BY <2>7, MailTypes DEF OrderlyInv, ClaimInv
      <4> QED
        BY <2>4, <4>1 DEF OrderlyInv, GotInv
    <3>3. \A f \in Publishers : Landed(f)' => order'[f] > 0 /\ ~Buffered(f)'
      BY <2>1, <2>7, <2>13, MailTypes DEF OrderlyInv, GotInv, Buffered
    <3>4. \A f \in heard' \cup receipts' : Landed(f)'
      <4>1. heard \cup receipts \subseteq Publishers
        BY DEF TypeInv, TypeOK, MailboxTypeOK
      <4> QED
        BY <2>1, <2>13, <4>1 DEF OrderlyInv, GotInv
    <3> QED
      BY <3>1, <3>2, <3>3, <3>4 DEF GotInv
  <2>15. Conserved'
    BY <2>1, <2>13 DEF OrderlyInv, Conserved, Buffered
  <2> QED
    BY <2>10, <2>12, <2>14, <2>15 DEF OrderlyInv
<1> QED
  BY <1>5, <1>6 DEF Patch
LEMMA FailCasOrderly ==
  ASSUME TypeInv, MailInv, OrderlyInv, NEW t \in Tasks, FailCas(t)
  PROVE  OrderlyInv'
<1>1. /\ task[t].pc = "failCas" /\ SameStore /\ Unfaulted
      /\ UNCHANGED <<got, order>>
  BY DEF FailCas, At
<1>2. task[t].pc \in Holding /\ task[t].pc \in OpenLabels
  BY <1>1 DEF Holding, OpenLabels
<1>3. Cur(t) \in Waits /\ HandOK(task[t]) /\ TaskOK(t, task[t])
  BY <1>2, HolderFacts
<1>4. /\ Open(Cur(t)) /\ Ev(t) = None /\ NodeOf(Cur(t)) \notin Delays
      /\ TimedClaim(Cur(t)) /\ rec[Cur(t)].age \notin {"due", "lapsed"}
  BY <1>1, <1>2, <1>3 DEF HandOK, Cur, Ev, TaskOK, FreeLabels
<1>5. CASE Goto(t, "restTimed") /\ UNCHANGED <<status, node>>
  <2>1. Quiet /\ \A e \in heard' : Landed(e)
    BY <1>1, <1>5, QuietSteps, HeardLanded DEF Unfaulted
  <2>2. "restTimed" \in Holding
    BY DEF Holding
  <2> QED
    BY <1>2, <1>4, <1>5, <2>1, <2>2, HandGoes
<1>6. CASE /\ status = "active" /\ status' = "failed"
           /\ node' = [node EXCEPT ![NodeOf(Cur(t))].st = "failed"]
           /\ Goto(t, "finTimed")
  <2> PICK w \in Waits : w = Cur(t)
    BY <1>3
  <2>1. /\ UNCHANGED <<rec, mailbox, claim, receipts, got, order, alive,
                       timers, heard>>
        /\ status \notin Over /\ status' \notin Over
    BY <1>1, <1>6 DEF SameStore, Unfaulted, Over
  <2>2. /\ node' = [node EXCEPT ![NodeOf(w)].st = "failed"]
        /\ \A v \in Waits : v # w => got'[v] = got[v]
    BY <1>6, <2>1
  <2>3. /\ node'[NodeOf(w)].st = "failed" /\ node'[NodeOf(w)].inst = w[2]
        /\ node[NodeOf(w)].st = "running"
        /\ \A v \in Waits : CurrentExecution(v)' <=> CurrentExecution(v)
        /\ \A v \in Waits : v # w =>
             /\ (Open(v) <=> Open(v)') /\ (TimedPlaced(v) <=> TimedPlaced(v)')
             /\ \A f : Placed(v, f) <=> Placed(v, f)'
             /\ CurrentExecution(v) => node'[NodeOf(v)] = node[NodeOf(v)]
    BY <1>4, <2>2, SettledOthers
  <2>4. PICK a : Become(t, a) /\ a.pc = "finTimed" /\ a.cur = w /\ a.ev = None
    <3>1. "finTimed" \in Labels
      BY DEF Labels
    <3> QED
      BY <1>4, <1>6, <3>1, GoesState
  <2>5. HandOK(a)'
    <3>1. TimedClaim(w)' /\ rec'[w].age \notin {"due", "lapsed"}
      BY <1>4, <2>1 DEF TimedClaim
    <3> QED
      BY <2>4, <3>1 DEF HandOK, OpenLabels
  <2>6. timers' = {} /\ HandInv' /\ SoleInv' /\ RecoverInv'
    <3>1. "finTimed" \in Holding
      BY DEF Holding
    <3> QED
      BY <1>2, <1>4, <1>6, <2>1, <2>2, <2>4, <2>5, <3>1, SettleHands
  <2>7. \A f \in Publishers : claim[f] # w
    BY <1>4, MailTypes DEF OrderlyInv, ClaimInv, TimedClaim
  <2>8. ClaimInv'
    <3>1. ASSUME NEW f \in Publishers, claim'[f] # None
          PROVE  /\ rec'[claim'[f]].st = "delivered" /\ rec'[claim'[f]].ev = f
                 /\ NodeOf(claim'[f]) \notin Delays /\ Placed(claim[f], f)'
                 /\ \A v \in Waits : got'[v] = f => v = claim'[f]
      <4>1. PICK x \in Waits : x = claim[f] /\ x = claim'[f]
        BY <2>1, <3>1, MailTypes
      <4>2. /\ rec[x].st = "delivered" /\ rec[x].ev = f
            /\ NodeOf(x) \notin Delays /\ Placed(x, f)
            /\ \A v \in Waits : got[v] = f => v = x
        BY <2>1, <3>1, <4>1 DEF OrderlyInv, ClaimInv
      <4>3. Placed(x, f)'
        BY <2>3, <2>7, <4>1, <4>2
      <4> QED
        BY <2>1, <4>1, <4>2, <4>3
    <3>2. ASSUME NEW v \in Waits, TimedClaim(v)' PROVE TimedPlaced(v)'
      <4>1. TimedClaim(v)
        BY <2>1, <3>2 DEF TimedClaim
      <4>2. CASE v = w
        BY <1>4, <2>3, <4>2 DEF TimedPlaced, CommittedStatus, CurrentExecution
      <4>3. CASE v # w
        BY <2>3, <4>1, <4>3 DEF OrderlyInv, ClaimInv
      <4> QED
        BY <4>2, <4>3
    <3>3. \A v \in Waits : rec'[v].st = "pending" => Open(v)'
      <4>1. rec[w].st # "pending"
        BY <1>4 DEF TimedClaim
      <4> QED
        BY <2>1, <2>3, <4>1 DEF OrderlyInv, ClaimInv
    <3> QED
      BY <3>1, <3>2, <3>3 DEF ClaimInv
  <2>9. GotInv'
    <3>1. \A v \in Waits : got'[v] # None =>
            CurrentExecution(v)' /\ node'[NodeOf(v)].st = "completed"
      BY <2>1, <2>3 DEF OrderlyInv, GotInv
    <3> QED
      BY <2>1, <3>1 DEF OrderlyInv, GotInv, Landed, Buffered
  <2>10. Conserved'
    BY <2>1 DEF OrderlyInv, Conserved, Landed, Buffered
  <2> QED
    BY <2>6, <2>8, <2>9, <2>10 DEF OrderlyInv
<1> QED
  BY <1>5, <1>6 DEF FailCas

(* A step changes the record of a wait that nobody has in hand.            *)
LEMMA RecTouch ==
  ASSUME TypeInv, OrderlyInv, NEW w \in Waits,
         UNCHANGED <<mailbox, claim, receipts, heard, status, node, got, order,
                     task, alive, timers>>,
         \A v \in Waits : v # w => rec'[v] = rec[v],
         \A f \in Publishers : claim[f] = w =>
           rec'[w].st = "delivered" /\ rec'[w].ev = f,
         TimedClaim(w)' => TimedClaim(w),
         rec'[w].st = "pending" => Open(w),
         ~Kept(w), Listed(w) => Listed(w)'
  PROVE  OrderlyInv'
<1>1. ClaimInv' /\ GotInv' /\ Conserved'
  <2>1. TimedClaim(w)' => TimedPlaced(w)
    BY DEF OrderlyInv, ClaimInv
  <2> QED
    BY <2>1, MailTypes, RecStore DEF OrderlyInv
<1>2. HandInv'
  <2> SUFFICES ASSUME NEW u \in Tasks PROVE (HandOK(task[u]) /\ LabelOK(task[u]))'
    BY DEF HandInv
  <2>1. /\ HandOK(task'[u]) /\ LabelOK(task'[u]) /\ TaskOK(u, task'[u])
        /\ task'[u] \in TaskState
    BY TaskFields DEF OrderlyInv, HandInv
  <2>2. task'[u].pc \in Holding => task'[u].cur # w /\ task'[u].cur \in Waits
    BY <2>1 DEF Kept, TaskOK, Holding, WaitLabels
  <2>3. \A f \in Publishers : claim'[f] = claim[f] /\ (Buffered(f)' <=> Buffered(f))
    BY DEF Buffered
  <2>4. HandOK(task[u])'
    <3>1. None \in Publishers \cup {None}
      OBVIOUS
    <3> QED
      BY <2>1, <2>2, <2>3, <3>1, OtherHand
  <2> QED
    BY <2>1, <2>4 DEF LabelOK
<1>3. timers' = {} /\ SoleInv' /\ RecoverInv'
  <2>1. \A v \in Waits : (Claimed(v)' => Claimed(v)) /\ (Listed(v) => Listed(v)')
    BY DEF Claimed, Listed, LiveRecord, TimedClaim
  <2> QED
    BY <2>1, Carried
<1> QED
  BY <1>1, <1>2, <1>3 DEF OrderlyInv

LEMMA CreateOrderly ==
  ASSUME TypeInv, MailInv, OrderlyInv, NEW n \in Nodes, CreateEventWait(n)
  PROVE  OrderlyInv'
<1>1. <<n, node[n].inst>> \in Waits
  BY NodeTypes DEF Waits
<1> PICK w \in Waits : w = <<n, node[n].inst>>
  BY <1>1
<1>2. /\ status = "active" /\ node[n].st = "running" /\ ~LiveRecord(w)
      /\ rec' = [rec EXCEPT ![w] = [NoRecord EXCEPT !.st = "pending"]]
      /\ UNCHANGED <<mailbox, claim, receipts, heard, status, node, got, order,
                     task, alive, timers>>
  BY DEF CreateEventWait, SameRun, waitVars
<1>3. rec'[w].st = "pending" /\ \A v \in Waits : v # w => rec'[v] = rec[v]
  BY <1>2, MailTypes DEF MailboxTypeOK, NoRecord
<1>4. Open(w) /\ status \notin Over
  BY <1>2 DEF Open, CurrentExecution, NodeOf, Over
<1>5. /\ rec[w].st # "pending" /\ rec[w].ev = None /\ ~TimedClaim(w)
  BY <1>2 DEF LiveRecord
<1>6. \A f \in Publishers : claim[f] # w
  <2> SUFFICES ASSUME NEW f \in Publishers, claim[f] = w PROVE FALSE
    OBVIOUS
  <2>1. f # None /\ w # None
    BY NoneAssumption
  <2>2. rec[w].ev = f
    BY <2>1 DEF OrderlyInv, ClaimInv
  <2> QED
    BY <1>5, <2>1, <2>2
<1>7. ~Kept(w)
  <2> SUFFICES ASSUME NEW u \in Tasks, task[u].pc \in Holding, task[u].cur = w
               PROVE  FALSE
    BY DEF Kept
  <2>1. HandOK(task[u]) /\ task[u].ev \in Publishers \cup {None}
    BY HolderFacts DEF Ev
  <2> QED
    BY <1>4, <1>5, <1>6, <2>1 DEF HandOK, EventHand
<1>8. ~TimedClaim(w)' /\ ~Listed(w)
  BY <1>2, <1>3, <1>4 DEF TimedClaim, Listed
<1> QED
  BY <1>2, <1>3, <1>4, <1>6, <1>7, <1>8, RecTouch

LEMMA CleanUpOrderly ==
  ASSUME TypeInv, OrderlyInv, NEW w \in Waits, CleanUp(w)
  PROVE  OrderlyInv'
<1>1. /\ rec[w].st = "pending" /\ ResolveRecord(w, "cancelled")
      /\ UNCHANGED <<mailbox, claim, receipts, heard, status, node, got, order,
                     task, alive, timers>>
  BY DEF CleanUp, SameRun, waitVars
<1>2. rec'[w].st = "cancelled" /\ \A v \in Waits : v # w => rec'[v] = rec[v]
  BY <1>1, MailTypes DEF MailboxTypeOK, ResolveRecord
<1>3. ~Kept(w) /\ \A f \in Publishers : claim[f] # w
  BY <1>1, PendingFree DEF Kept
<1>4. ~TimedClaim(w)' /\ ~Listed(w)
  BY <1>1, <1>2 DEF TimedClaim, Listed
<1> QED
  BY <1>1, <1>2, <1>3, <1>4, RecTouch

LEMMA ClaimAgesOrderly ==
  ASSUME TypeInv, OrderlyInv, ~Async, NEW w \in Waits, ClaimAges(w)
  PROVE  OrderlyInv'
<1>1. /\ rec[w].age \in {"new", "reserved"} /\ ~Held(w)
      /\ rec' = [rec EXCEPT ![w].age = IF @ = "new" THEN "due" ELSE "lapsed"]
      /\ UNCHANGED <<mailbox, claim, receipts, heard, status, node, got, order,
                     task, alive, timers>>
  BY DEF ClaimAges, SameRun, waitVars
<1>2. /\ rec'[w].st = rec[w].st /\ rec'[w].ev = rec[w].ev /\ rec'[w].age # "none"
      /\ \A v \in Waits : v # w => rec'[v] = rec[v]
  BY <1>1, MailTypes DEF MailboxTypeOK
<1>3. ~Kept(w)
  BY <1>1 DEF Held, Kept, Cur, Holding
<1>4. \A f \in Publishers : claim[f] = w =>
        rec'[w].st = "delivered" /\ rec'[w].ev = f
  BY <1>2, MailTypes DEF OrderlyInv, ClaimInv
<1>5. (TimedClaim(w)' <=> TimedClaim(w)) /\ (Listed(w)' <=> Listed(w))
  BY <1>1, <1>2 DEF TimedClaim, Listed, LiveRecord
<1>6. rec'[w].st = "pending" => Open(w)
  BY <1>2 DEF OrderlyInv, ClaimInv
<1> QED
  BY <1>1, <1>2, <1>3, <1>4, <1>5, <1>6, RecTouch

LEMMA OverOrderly ==
  ASSUME TypeInv, MailInv, OrderlyInv, Complete \/ Cancel
  PROVE  OrderlyInv'
<1>1. PICK s \in Over : StoreOver(s)
  BY DEF Complete, Cancel, Over
<1>2. UNCHANGED <<node, got, order, task, alive, timers, heard>>
  BY DEF Complete, Cancel, waitVars
<1>3. /\ MailboxTypeOK /\ claim \in [Publishers -> Waits \cup {None}]
      /\ None \notin Waits /\ None \notin Publishers
  BY MailTypes
<1>4. /\ status' \in Over /\ mailbox' = <<>>
      /\ \A e \in Publishers : claim'[e] = None /\ ~Buffered(e)'
      /\ \A e \in receipts' :
           \/ e \in receipts
           \/ /\ e \in Publishers /\ claim[e] # None
              /\ node[NodeOf(claim[e])].st = "completed"
  <2>1. /\ status' = s /\ mailbox' = <<>>
        /\ claim' = [e \in Publishers |-> None]
    BY <1>1 DEF StoreOver
  <2>2. receipts' \subseteq receipts \cup
          {e \in Claims : node[NodeOf(claim[e])].st = "completed"}
    BY <1>1 DEF StoreOver
  <2>3. \A e \in Publishers : ~Buffered(e)'
    BY <2>1 DEF Buffered, Range
  <2>4. \A e \in receipts' :
          \/ e \in receipts
          \/ /\ e \in Publishers /\ claim[e] # None
             /\ node[NodeOf(claim[e])].st = "completed"
    <3> SUFFICES ASSUME NEW e \in receipts', e \notin receipts
                 PROVE  e \in Publishers /\ claim[e] # None
                        /\ node[NodeOf(claim[e])].st = "completed"
      OBVIOUS
    <3>1. e \in {f \in Claims : node[NodeOf(claim[f])].st = "completed"}
      BY <2>2
    <3> QED
      BY <3>1 DEF Claims
  <2> QED
    BY <2>1, <2>3, <2>4
<1>5. ASSUME NEW w \in Waits
      PROVE  \/ rec'[w] = rec[w]
             \/ /\ \E e \in Publishers : claim[e] = w
                /\ rec'[w].st = rec[w].st /\ rec'[w].ev = None
                /\ rec'[w].age = "none"
  <2>1. \/ rec'[w] = rec[w]
        \/ /\ \E e \in Claims : claim[e] = w
           /\ rec'[w] = [rec[w] EXCEPT !.ev = None, !.age = "none"]
    BY <1>1 DEF StoreOver
  <2>2. rec[w] \in [st : {"none", "pending", "delivered", "expired", "cancelled"},
                    ev : Publishers \cup {None}, age : Ages]
    BY <1>3, RecordType
  <2> QED
    BY <2>1, <2>2 DEF Claims
<1>6. \A w \in Waits : TimedClaim(w)' <=> TimedClaim(w)
  <2> SUFFICES ASSUME NEW w \in Waits PROVE TimedClaim(w)' <=> TimedClaim(w)
    OBVIOUS
  <2>1. CASE rec'[w] = rec[w]
    BY <2>1 DEF TimedClaim
  <2>2. CASE rec'[w] # rec[w]
    <3>1. /\ rec'[w].age = "none"
          /\ \E e \in Publishers : claim[e] = w
      BY <1>5, <2>2
    <3>2. rec[w].st = "delivered" /\ NodeOf(w) \notin Delays
      BY <1>3, <3>1 DEF OrderlyInv, ClaimInv
    <3> QED
      BY <3>1, <3>2 DEF TimedClaim
  <2> QED
    BY <2>1, <2>2
<1>7. \A w \in Waits : /\ rec'[w].st = rec[w].st /\ rec'[w].ev \in {rec[w].ev, None}
                       /\ rec'[w].age \in {rec[w].age, "none"}
  BY <1>5
<1>8. HandInv'
  <2> SUFFICES ASSUME NEW u \in Tasks PROVE (HandOK(task[u]) /\ LabelOK(task[u]))'
    BY DEF HandInv
  <2>0. PICK a \in TaskState : a = task[u] /\ a = task'[u]
    BY <1>2, TaskFields
  <2>1. HandOK(a) /\ LabelOK(a) /\ TaskOK(u, a)
    BY <2>0, TaskFields DEF OrderlyInv, HandInv
  <2>2. ASSUME a.pc \in Holding PROVE HandOK(a)'
    <3>1. a.cur \in Waits /\ a.ev \in Publishers \cup {None}
      BY <2>1, <2>2 DEF TaskOK, Holding, WaitLabels, TaskState
    <3>2. ASSUME a.ev # None PROVE EventHand(a.cur, a.ev)'
      <4>1. EventHand(a.cur, a.ev)
        BY <2>1, <2>2, <3>2 DEF HandOK
      <4>2. Placed(a.cur, a.ev)'
        BY <1>2, <4>1 DEF EventHand, Placed, Open, CurrentExecution
      <4> QED
        BY <1>2, <1>4, <1>7, <3>1, <3>2, <4>1, <4>2 DEF EventHand
    <3>3. ASSUME a.ev = None PROVE TimedClaim(a.cur)'
      BY <1>6, <2>1, <2>2, <3>1, <3>3 DEF HandOK
    <3>4. rec'[a.cur].age \notin {"due", "lapsed"}
      BY <1>7, <2>1, <2>2, <3>1 DEF HandOK
    <3>5. Open(a.cur) => Open(a.cur)'
      BY <1>2 DEF Open, CurrentExecution
    <3> QED
      BY <1>2, <2>1, <2>2, <3>2, <3>3, <3>4, <3>5 DEF HandOK
  <2>3. HandOK(a)' /\ LabelOK(a)'
    BY <1>4, <2>1, <2>2 DEF HandOK, LabelOK
  <2> QED
    BY <2>0, <2>3
<1>9. ClaimInv'
  <2>1. \A w \in Waits : TimedClaim(w)' => TimedPlaced(w)'
    BY <1>2, <1>6 DEF OrderlyInv, ClaimInv, TimedPlaced, CurrentExecution,
                      CommittedStatus
  <2>2. \A w \in Waits : rec'[w].st = "pending" => Open(w)'
    BY <1>2, <1>7 DEF OrderlyInv, ClaimInv, Open, CurrentExecution
  <2> QED
    BY <1>4, <2>1, <2>2 DEF ClaimInv
<1>10. GotInv'
  <2>1. \A e \in heard' \cup receipts' : Landed(e)
    <3>1. ASSUME NEW e \in Publishers, claim[e] # None,
                 node[NodeOf(claim[e])].st = "completed"
          PROVE  Landed(e)
      BY <1>3, <3>1 DEF OrderlyInv, ClaimInv, Placed, Open, Landed
    <3> QED
      BY <1>2, <1>4, <3>1 DEF OrderlyInv, GotInv
  <2> QED
    BY <1>2, <1>4, <2>1 DEF OrderlyInv, GotInv, Landed, CurrentExecution
<1>11. Conserved'
  BY <1>4 DEF Conserved
<1>12. timers' = {} /\ SoleInv' /\ RecoverInv'
  <2>1. \A w \in Waits : (Claimed(w)' => Claimed(w)) /\ (Listed(w) => Listed(w)')
    BY <1>3, <1>4, <1>6, <1>7 DEF Claimed, Listed
  <2> QED
    BY <1>2, <2>1, Carried
<1> QED
  BY <1>8, <1>9, <1>10, <1>11, <1>12 DEF OrderlyInv
LEMMA AppendOrderly ==
  ASSUME TypeInv, MailInv, OrderlyInv, NEW e \in Publishers, AppendRunEvent(e)
  PROVE  OrderlyInv'
<1>0. e \in Tasks
  BY DEF Tasks
<1>1. /\ task[e].pc = "append" /\ TaskOK(e, task[e])
      /\ UNCHANGED <<status, node, got>> /\ Unfaulted
  BY <1>0, TaskFields DEF AppendRunEvent, At
<1>2. task[e].pc \notin Holding /\ order[e] = 0
  BY <1>1 DEF Holding, TaskOK
<1>3. CASE Ends(e, "rejected") /\ SameStore /\ UNCHANGED order
  <2>1. Quiet /\ UNCHANGED heard
    BY <1>1, <1>3, QuietSteps DEF Unfaulted
  <2> QED
    BY <1>0, <1>2, <1>3, <2>1, FreeEnds
<1>4. CASE Append1(e) /\ Goto(e, IF task[e].seenFailed THEN "reread" ELSE "drain")
  <2>1. PICK l \in {"reread", "drain"} : Goto(e, l)
    BY <1>4
  <2>2. PICK a : /\ Become(e, a) /\ a.pc = l /\ a.pass = task[e].pass
                 /\ a.todo = task[e].todo /\ a.home = task[e].home
    <3>1. l \in Labels
      BY DEF Labels
    <3> QED
      BY <1>0, <2>1, <3>1, GoesState
  <2>3. \A u \in Tasks : task'[u] = IF u = e THEN a ELSE task[u]
    BY <1>0, <2>2, Became
  <2>4. /\ a.pc \notin Holding
        /\ a.pc \notin {"retire", "cancel", "retry", "discard", "remove"}
    BY <2>2 DEF Holding
  <2>5. /\ \A f \in Publishers : Buffered(f)' <=> Buffered(f) \/ f = e
        /\ \A f \in Publishers : (order'[f] > 0) <=> (order[f] > 0 \/ f = e)
        /\ \A f \in Publishers : f # e => order'[f] = order[f]
        /\ ~Buffered(e) /\ claim[e] = None
    BY <1>2, <1>4, AppendMail
  <2>6. UNCHANGED <<rec, claim, receipts, status, node, got, alive, timers, heard>>
    BY <1>1, <1>4 DEF Append1, Unfaulted
  <2>7. ~(0 > 0)
    OBVIOUS
  <2>8. HandInv'
    <3> SUFFICES ASSUME NEW u \in Tasks
                 PROVE  (HandOK(task[u]) /\ LabelOK(task[u]))'
      BY DEF HandInv
    <3>1. CASE u = e
      <4>1. task'[u] = a
        BY <2>3, <3>1
      <4>2. HandOK(task[u])'
        BY <2>4, <4>1 DEF HandOK
      <4> QED
        BY <2>4, <4>1, <4>2 DEF LabelOK
    <3>2. CASE u # e
      <4>0. PICK b \in TaskState : b = task[u] /\ b = task'[u]
        BY <2>3, <3>2, TaskFields
      <4>1. HandOK(b) /\ LabelOK(b)
        BY <4>0 DEF OrderlyInv, HandInv
      <4>2. ASSUME b.pc \in Holding, b.ev # None PROVE EventHand(b.cur, b.ev)'
        <5>1. EventHand(b.cur, b.ev) /\ b.ev \in Publishers
          BY <4>1, <4>2 DEF HandOK, TaskState
        <5>2. b.ev # e
          BY <1>2, <2>7, <5>1 DEF EventHand
        <5>3. Placed(b.cur, b.ev)'
          BY <2>6, <5>1 DEF EventHand, Placed, Open, CurrentExecution
        <5>4. order'[b.ev] > 0 /\ ~Buffered(b.ev)'
          BY <2>5, <5>1, <5>2 DEF EventHand
        <5> QED
          BY <2>6, <5>1, <5>3, <5>4 DEF EventHand
      <4>3. ASSUME b.pc \in Holding, b.ev = None PROVE TimedClaim(b.cur)'
        BY <2>6, <4>1, <4>3 DEF HandOK, TimedClaim
      <4>4. HandOK(b)'
        BY <2>6, <4>1, <4>2, <4>3 DEF HandOK, Open, CurrentExecution
      <4>5. LabelOK(b)'
        BY <2>6, <4>1 DEF LabelOK
      <4> QED
        BY <4>0, <4>4, <4>5
    <3> QED
      BY <3>1, <3>2
  <2>9. ClaimInv'
    BY <2>6 DEF OrderlyInv, ClaimInv, Placed, TimedPlaced, TimedClaim, Open,
                CurrentExecution
  <2>10. \A f : Landed(f)' <=> Landed(f)
    BY <2>6 DEF Landed
  <2>11. GotInv'
    <3>1. \A f \in Publishers : Landed(f)' => order'[f] > 0 /\ ~Buffered(f)'
      <4>1. ~Landed(e)
        BY <1>2, <2>7 DEF OrderlyInv, GotInv
      <4> QED
        BY <2>5, <2>10, <4>1 DEF OrderlyInv, GotInv
    <3> QED
      BY <2>6, <2>10, <3>1 DEF OrderlyInv, GotInv, CurrentExecution
  <2>12. Conserved'
    BY <2>5, <2>6, <2>10 DEF OrderlyInv, Conserved
  <2>13. timers' = {} /\ SoleInv' /\ RecoverInv'
    <3>1. \A w \in Waits : (Claimed(w)' => Claimed(w)) /\ (Listed(w) => Listed(w)')
      BY <2>6 DEF Claimed, Listed, LiveRecord, TimedClaim
    <3>2. \A u \in Tasks :
            /\ task'[u].pc \in Holding <=> task[u].pc \in Holding
            /\ task'[u].pc \in Holding => task'[u].cur = task[u].cur
            /\ task'[u].pass = "recovering" =>
                 /\ task[u].pass = "recovering" /\ task'[u].home = task[u].home
                 /\ task'[u].todo = task[u].todo
      BY <1>2, <2>2, <2>3, <2>4
    <3> QED
      BY <2>6, <3>1, <3>2, Carried
  <2> QED
    BY <2>8, <2>9, <2>11, <2>12, <2>13 DEF OrderlyInv
<1> QED
  BY <1>3, <1>4 DEF AppendRunEvent

LEMMA RemoveOrderly ==
  ASSUME TypeInv, MailInv, OrderlyInv, NEW e \in Publishers, RemoveRunEvent(e)
  PROVE  OrderlyInv'
<1>0. e \in Tasks
  BY DEF Tasks
<1>1. /\ task[e].pc = "remove" /\ mailbox' = Without(e) /\ Ends(e, "run-terminal")
      /\ UNCHANGED <<rec, claim, receipts>> /\ SameRun /\ Unfaulted
  BY DEF RemoveRunEvent, At
<1>2. UNCHANGED <<rec, claim, receipts, status, node, got, order, alive, timers,
                  heard>>
  BY <1>1 DEF SameRun, Unfaulted
<1>3. task[e].pc \notin Holding /\ status \in Over
  BY <1>0, <1>1 DEF Holding, OrderlyInv, HandInv, LabelOK
<1>4. PICK a : Become(e, a) /\ a.pc = "done" /\ a.pass = "no"
  <2>1. /\ Answer(e, "run-terminal").pc = "done"
        /\ Answer(e, "run-terminal").pass = "no"
    BY DEF Answer, Resting
  <2> QED
    BY <1>1, <2>1 DEF Ends
<1>5. \A u \in Tasks : task'[u] = IF u = e THEN a ELSE task[u]
  BY <1>0, <1>4, Became
<1>6. /\ a.pc \notin Holding
      /\ a.pc \notin {"retire", "cancel", "retry", "discard", "remove"}
  BY <1>4 DEF Holding
<1>7. \A f \in Publishers : Buffered(f)' => Buffered(f)
  BY <1>1, <1>2, WithoutMail
<1>8. HandInv'
  <2> SUFFICES ASSUME NEW u \in Tasks PROVE (HandOK(task[u]) /\ LabelOK(task[u]))'
    BY DEF HandInv
  <2>1. CASE u = e
    <3>1. task'[u] = a
      BY <1>5, <2>1
    <3>2. HandOK(task[u])'
      BY <1>6, <3>1 DEF HandOK
    <3> QED
      BY <1>6, <3>1, <3>2 DEF LabelOK
  <2>2. CASE u # e
    <3>0. PICK b \in TaskState : b = task[u] /\ b = task'[u]
      BY <1>5, <2>2, TaskFields
    <3>1. HandOK(b) /\ LabelOK(b)
      BY <3>0 DEF OrderlyInv, HandInv
    <3>2. ASSUME b.pc \in Holding, b.ev # None PROVE EventHand(b.cur, b.ev)'
      <4>1. EventHand(b.cur, b.ev) /\ b.ev \in Publishers
        BY <3>1, <3>2 DEF HandOK, TaskState
      <4> QED
        BY <1>2, <1>7, <4>1 DEF EventHand, Placed, Open, CurrentExecution
    <3>3. ASSUME b.pc \in Holding, b.ev = None PROVE TimedClaim(b.cur)'
      BY <1>2, <3>1, <3>3 DEF HandOK, TimedClaim
    <3>4. HandOK(b)'
      BY <1>2, <3>1, <3>2, <3>3 DEF HandOK, Open, CurrentExecution
    <3>5. LabelOK(b)'
      BY <1>2, <3>1 DEF LabelOK
    <3> QED
      BY <3>0, <3>4, <3>5
  <2> QED
    BY <2>1, <2>2
<1>9. ClaimInv'
  BY <1>2 DEF OrderlyInv, ClaimInv, Placed, TimedPlaced, TimedClaim, Open,
              CurrentExecution
<1>10. GotInv'
  BY <1>2, <1>7 DEF OrderlyInv, GotInv, Landed, CurrentExecution
<1>11. Conserved'
  BY <1>2, <1>3 DEF Conserved
<1>12. timers' = {} /\ SoleInv' /\ RecoverInv'
  <2>1. \A w \in Waits : (Claimed(w)' => Claimed(w)) /\ (Listed(w) => Listed(w)')
    BY <1>2 DEF Claimed, Listed, LiveRecord, TimedClaim
  <2>2. \A u \in Tasks :
          /\ task'[u].pc \in Holding <=> task[u].pc \in Holding
          /\ task'[u].pc \in Holding => task'[u].cur = task[u].cur
          /\ task'[u].pass = "recovering" =>
               /\ task[u].pass = "recovering" /\ task'[u].home = task[u].home
               /\ task'[u].todo = task[u].todo
    BY <1>3, <1>4, <1>5, <1>6
  <2> QED
    BY <1>2, <2>1, <2>2, Carried
<1> QED
  BY <1>8, <1>9, <1>10, <1>11, <1>12 DEF OrderlyInv

(* A process dies: of two, one is left, and no claim that a list names     *)
(* gets a new holder.                                                      *)
LEMMA CrashOrderly ==
  ASSUME TypeInv, OrderlyInv, Orderly, NEW p \in Procs, Crash(p)
  PROVE  OrderlyInv'
<1>1. /\ p \in alive /\ Cardinality(Procs \ alive) < MaxCrashes
      /\ alive' = alive \ {p} /\ timers' = {x \in timers : x[1] # p}
      /\ task' = [t \in Tasks |->
                   IF task[t].home # p THEN task[t]
                   ELSE IF t \in Publishers THEN Answer(t, "lost") ELSE Resting]
      /\ UNCHANGED <<rec, mailbox, claim, receipts, status, node, got, order,
                     heard>>
  BY DEF Crash, SameStore, SameRun
<1>2. MaxCrashes # 0
  <2>1. IsFiniteSet(Procs \ alive)
    BY WaitsAssumption, FS_Subset
  <2>2. Cardinality(Procs \ alive) \in Nat
    BY <2>1, FS_CardinalityType
  <2> QED
    BY <1>1, <2>2
<1>3. \A q, r, s \in Procs : q = r \/ r = s \/ q = s
  BY <1>2 DEF Orderly
<1>4. alive' # Procs /\ alive' \subseteq Procs /\ \A q, r \in alive' : q = r
  BY <1>1, <1>3 DEF TypeInv, TypeOK
<1>5. \A u \in Tasks : \/ task'[u] = task[u]
                       \/ task'[u].pc \in {"idle", "done"} /\ task'[u].pass = "no"
  BY <1>1 DEF Answer, Resting
<1>6. \A u \in Tasks :
        /\ task'[u].pc \in Holding => task'[u] = task[u]
        /\ task'[u].pass = "recovering" => task'[u] = task[u]
  BY <1>5 DEF Holding
<1>7. \A w : Kept(w)' => Kept(w)
  BY <1>6 DEF Kept
<1>8. HandInv'
  <2> SUFFICES ASSUME NEW u \in Tasks PROVE (HandOK(task[u]) /\ LabelOK(task[u]))'
    BY DEF HandInv
  <2>1. HandOK(task[u]) /\ LabelOK(task[u])
    BY DEF OrderlyInv, HandInv
  <2>2. CASE task'[u] = task[u]
    <3>1. HandOK(task'[u]) /\ LabelOK(task'[u])
      BY <2>1, <2>2
    <3>2. HandOK(task[u])'
      BY <1>1, <3>1, HandSame
    <3> QED
      BY <1>1, <3>1, <3>2 DEF LabelOK
  <2>3. CASE task'[u].pc \in {"idle", "done"}
    BY <2>3 DEF HandOK, LabelOK, Holding
  <2> QED
    BY <1>5, <2>2, <2>3
<1>9. SoleInv'
  BY <1>6 DEF OrderlyInv, SoleInv
<1>10. ClaimInv' /\ GotInv' /\ Conserved'
  <2>1. \A e \in heard' : Landed(e)
    BY <1>1, HeardLanded
  <2> QED
    BY <1>1, <2>1, StoreSame DEF OrderlyInv
<1>11. RecoverInv'
  <2>1. ASSUME NEW u \in Tasks PROVE TodoOK(task[u])'
    <3> SUFFICES ASSUME task'[u].pass = "recovering" PROVE TodoOK(task[u])'
      BY DEF TodoOK
    <3>1. task'[u] = task[u] /\ TodoOK(task[u])
      BY <1>6 DEF OrderlyInv, RecoverInv
    <3>2. \A w : Listed(w) => Listed(w)'
      BY <1>1 DEF Listed, LiveRecord, TimedClaim
    <3> QED
      BY <1>4, <1>7, <3>1, <3>2 DEF TodoOK
  <2>2. \A t, u \in Tasks :
          /\ task'[t].pass = "recovering" /\ task'[u].pass = "recovering"
          /\ task'[t].home = task'[u].home
          => t = u
    BY <1>6 DEF OrderlyInv, RecoverInv
  <2> QED
    BY <1>4, <2>1, <2>2 DEF RecoverInv
<1>12. timers' = {}
  BY <1>1 DEF OrderlyInv
<1> QED
  BY <1>8, <1>9, <1>10, <1>11, <1>12 DEF OrderlyInv
---------------------------------------------------------------------------
(* The theorems about orderly executions                                   *)

LEMMA OrderlyInit ==
  ASSUME Init PROVE OrderlyInv
<1>1. /\ timers = {} /\ heard = {} /\ alive = Procs
      /\ task = [t \in Tasks |-> Resting]
      /\ rec = [w \in Waits |-> NoRecord] /\ got = [w \in Waits |-> None]
      /\ order = [e \in Publishers |-> 0] /\ receipts = {}
      /\ claim = [e \in Publishers |-> None] /\ mailbox = <<>>
  BY DEF Init, MailboxInit
<1>2. \A t \in Tasks : task[t].pc = "idle" /\ task[t].pass = "no"
  BY <1>1 DEF Resting
<1>3. \A w \in Waits : rec[w].st = "none" /\ rec[w].age = "none" /\ got[w] = None
  BY <1>1 DEF NoRecord
<1>4. HandInv /\ SoleInv
  BY <1>2 DEF HandInv, HandOK, LabelOK, SoleInv, Holding
<1>5. \A w \in Waits : ~TimedClaim(w)
  BY <1>3 DEF TimedClaim
<1>6. ClaimInv
  BY <1>1, <1>3, <1>5 DEF ClaimInv
<1>7. GotInv
  <2>1. \A e \in Publishers : ~Landed(e)
    BY <1>3, NoneAssumption DEF Landed
  <2> QED
    BY <1>1, <1>3, <2>1 DEF GotInv
<1>8. Conserved
  BY <1>1 DEF Conserved
<1>9. RecoverInv
  <2>1. \A w \in Waits : ~Claimed(w)
    <3>1. \A w \in Waits : w # None
      BY NoneAssumption
    <3> QED
      BY <1>1, <1>5, <3>1 DEF Claimed
  <2> QED
    BY <1>1, <1>2, <2>1 DEF RecoverInv, TodoOK
<1> QED
  BY <1>1, <1>4, <1>6, <1>7, <1>8, <1>9 DEF OrderlyInv

LEMMA OrderlyNext ==
  ASSUME Orderly, TypeInv, MailInv, OrderlyInv, [Next]_vars
  PROVE  OrderlyInv'
<1>0. ~Async /\ ~Churn
  BY DEF Orderly
<1>1. CASE UNCHANGED vars
  BY <1>1, StillOrderly
<1>2. CASE RunNext
  BY <1>2, ParkOrderly, CreateOrderly, OverOrderly, StillOrderly, RetryOrderly
  DEF RunNext
<1>3. CASE RouseNext
  <2>1. \A k \in Keepers : k \in Tasks
    BY DEF Tasks
  <2> QED
    BY <1>3, <2>1, StartsOrderly, NeverOrderly DEF RouseNext
<1>4. ASSUME NEW e \in Publishers, PublishStep(e) PROVE OrderlyInv'
  BY <1>4, AppendOrderly, PublishMoves, RemoveOrderly DEF PublishStep
<1>5. ASSUME NEW e \in Publishers, NEW p \in Procs, Publish(e, p) PROVE OrderlyInv'
  BY <1>5, StartsOrderly
<1>6. ASSUME NEW t \in Tasks, Step(t) PROVE OrderlyInv'
  <2>1. CASE \/ OpenSession(t) \/ Recover(t) \/ Inspect(t) \/ Restore(t)
             \/ Scan(t) \/ EndPass(t) \/ DrainWait(t)
    BY <2>1, OpenSessionOrderly, RecoverOrderly, InspectOrderly, RestoreOrderly,
       PassMoves, DrainWaitOrderly
  <2>2. CASE \/ Deliver(t) \/ Patch(t) \/ ResumeRun(t) \/ Retire(t)
             \/ CancelStale(t) \/ Finalize(t) \/ RollBack(t) \/ RetryCommitted(t)
    BY <1>0, <2>2, HandMoves, PatchOrderly, ResumeRunOrderly, NeverOrderly,
       FinalizeOrderly, RestoreOrderly
  <2>3. CASE \/ CheckDeadline(t) \/ ResolveDeadline(t) \/ LookAgain(t)
             \/ FailRead(t) \/ FailCas(t) \/ EndTimed(t)
    BY <2>3, PassMoves, ResolveDeadlineOrderly, HandMoves, FailCasOrderly,
       EndTimedOrderly
  <2> QED
    BY <1>6, <2>1, <2>2, <2>3 DEF Step
<1>7. ASSUME NEW t \in Tasks, Disturb(t) PROVE OrderlyInv'
  BY <1>7, NeverOrderly
<1>8. ASSUME NEW w \in Waits, CleanUp(w) PROVE OrderlyInv'
  BY <1>8, CleanUpOrderly
<1>9. CASE Time
  BY <1>0, <1>9, StillOrderly, ClaimAgesOrderly DEF Time
<1>10. ASSUME NEW p \in Procs, Crash(p) PROVE OrderlyInv'
  BY <1>10, CrashOrderly
<1> QED
  BY <1>1, <1>2, <1>3, <1>4, <1>5, <1>6, <1>7, <1>8, <1>9, <1>10 DEF Next

LEMMA OrderlyAlways ==
  ASSUME Orderly PROVE Spec => [](TypeInv /\ MailInv /\ OrderlyInv)
<1>1. Init => TypeInv /\ MailInv /\ OrderlyInv
  BY TypeInit, MailInit, OrderlyInit
<1>2. TypeInv /\ MailInv /\ OrderlyInv /\ [Next]_vars
        => (TypeInv /\ MailInv /\ OrderlyInv)'
  BY TypeNext, MailNext, OrderlyNext
<1> QED
  BY <1>1, <1>2, PTL DEF Spec

(* No accepted event is lost in an orderly execution: while the run can    *)
(* still use it, it is in the mailbox, claimed, or the output of a node,   *)
(* with any number of publishers, background activities, wait nodes and    *)
(* retries of the run, also after the process that had claimed it died     *)
(* (claimRunEventForWait, restoreRunEventDelivery,                         *)
(* finalizeRunEventDelivery, recoverAbandonedDeliveryClaim).               *)
THEOREM EventsKept == ASSUME Orderly PROVE Spec => []MailConserved
<1>1. TypeInv /\ MailInv /\ OrderlyInv => MailConserved
  BY DEF OrderlyInv, Conserved, MailConserved, Accepted, Landed
<1> QED
  BY <1>1, OrderlyAlways, PTL

(* In an orderly execution an event is the output of at most one wait      *)
(* node, and does not go back to the mailbox once it is: the process that  *)
(* recovers a claim and the one that made it never both deliver.           *)
THEOREM EventsDeliveredOnce == ASSUME Orderly PROVE Spec => []DeliveredOnce
<1>1. ASSUME TypeInv, MailInv, OrderlyInv PROVE DeliveredOnce
  <2> SUFFICES ASSUME NEW e \in Publishers
               PROVE  /\ Cardinality({w \in Waits : got[w] = e}) <= 1
                      /\ {w \in Waits : got[w] = e} # {} => ~Buffered(e)
    BY DEF DeliveredOnce
  <2> DEFINE landed == {w \in Waits : got[w] = e}
  <2>1. e # None
    BY NoneAssumption
  <2>2. landed # {} => ~Buffered(e)
    BY <1>1 DEF OrderlyInv, GotInv, Landed
  <2>3. CASE landed = {}
    <3>1. Cardinality(landed) = 0
      BY <2>3, FS_EmptySet
    <3> QED
      BY <2>2, <3>1
  <2>4. CASE landed # {}
    <3>1. PICK w \in landed : TRUE
      BY <2>4
    <3>2. \A v \in landed : v = w
      BY <1>1, <2>1 DEF OrderlyInv, GotInv
    <3>3. landed = {w}
      BY <3>1, <3>2
    <3>4. Cardinality(landed) = 1
      BY <3>3, FS_Singleton
    <3> QED
      BY <2>2, <3>4
  <2> QED
    BY <2>3, <2>4
<1> QED
  BY <1>1, OrderlyAlways, PTL

(* Two of the three things an answer is based on: what a drain of the same *)
(* process reported, and the durable receipts.                             *)
ReceiptsTrue == \A e \in heard \cup receipts : \E w \in Waits : got[w] = e

(* In an orderly execution a drain that reports an event as delivered, and *)
(* a durable receipt, are about an event that is the output of a node      *)
(* (deliveredEventReceipts, finalizeRunEventDelivery, storeRunUpdate).     *)
THEOREM ReceiptsTruthful == ASSUME Orderly PROVE Spec => []ReceiptsTrue
<1>1. TypeInv /\ MailInv /\ OrderlyInv => ReceiptsTrue
  BY DEF OrderlyInv, GotInv, Landed, ReceiptsTrue
<1> QED
  BY <1>1, OrderlyAlways, PTL

(* What a step may do to the run.                                          *)
RunStep ==
  \/ UNCHANGED <<status, node, got, alive>>
  \/ \E n \in Nodes : Park(n)
  \/ Complete \/ Cancel \/ Fail \/ Retry
  \/ \E t \in Tasks : /\ At(t, "patch") /\ status = "active"
                      /\ SettleNode(Cur(t), Ev(t)) /\ UNCHANGED <<status, alive>>
  \/ \E t \in Tasks : FailCas(t)
  \/ \E p \in Procs : Crash(p)

LEMMA RunSteps ==
  ASSUME Orderly, TypeInv, OrderlyInv, [Next]_vars
  PROVE  RunStep
<1>1. CASE UNCHANGED vars
  BY <1>1 DEF vars, mailVars, waitVars, RunStep
<1>2. CASE RunNext
  BY <1>2 DEF RunNext, RunStep, CreateEventWait, SameRun, waitVars
<1>3. CASE RouseNext
  <2>1. ASSUME NEW k \in Keepers, NEW p \in Procs, StartDrain(k, p)
        PROVE  UNCHANGED <<status, node, got, alive>>
    BY <2>1
    DEF StartDrain, Rouse, SameStore, SameRun, Unfaulted
  <2>2. ASSUME NEW k \in Keepers, NEW p \in Procs, NEW w \in Waits,
               StartExpiry(k, p, w)
        PROVE  UNCHANGED <<status, node, got, alive>>
    BY <2>2
    DEF StartExpiry, Rouse, SameStore, SameRun, Unfaulted
  <2>3. ASSUME NEW k \in Keepers, NEW p \in Procs, NEW w \in Waits,
               NEW e \in Publishers \cup {None}, StartRetry(k, p, w, e)
        PROVE  UNCHANGED <<status, node, got, alive>>
    BY <2>3
    DEF StartRetry, Rouse, SameStore, SameRun
  <2> QED
    BY <1>3, <2>1, <2>2, <2>3 DEF RouseNext, RunStep
<1>4. ASSUME NEW e \in Publishers, PublishStep(e) PROVE RunStep
  BY <1>4 DEF RunStep, PublishStep, AppendRunEvent, Reread, Judge, ReadNode,
              ReadReceipt, Latest, RemoveRunEvent, SameRun, Unfaulted
<1>5. ASSUME NEW e \in Publishers, NEW p \in Procs, Publish(e, p) PROVE RunStep
  BY <1>5 DEF RunStep, Publish, Unfaulted
<1>6. ASSUME NEW t \in Tasks, Step(t) PROVE RunStep
  <2>1. CASE \/ OpenSession(t) \/ Recover(t) \/ Inspect(t) \/ Restore(t)
             \/ Scan(t) \/ EndPass(t) \/ DrainWait(t) \/ Deliver(t)
             \/ ResumeRun(t) \/ Retire(t) \/ CancelStale(t) \/ Finalize(t)
    <3>1. UNCHANGED <<status, node, got, alive>>
      BY <2>1 DEF OpenSession, Recover, Inspect, Restore, Scan, EndPass, DrainWait,
                  Deliver, ResumeRun, Retire, CancelStale, Finalize, SameRun,
                  Unfaulted
    <3> QED
      BY <3>1 DEF RunStep
  <2>2. CASE \/ RollBack(t) \/ RetryCommitted(t) \/ CheckDeadline(t)
             \/ ResolveDeadline(t) \/ LookAgain(t) \/ FailRead(t) \/ EndTimed(t)
    <3>1. UNCHANGED <<status, node, got, alive>>
      BY <2>2 DEF RollBack, RetryCommitted, CheckDeadline, ResolveDeadline,
                  LookAgain, FailRead, EndTimed, SameRun, Unfaulted
    <3> QED
      BY <3>1 DEF RunStep
  <2>3. CASE Patch(t) \/ FailCas(t)
    BY <2>3 DEF RunStep, Patch, Unfaulted
  <2> QED
    BY <1>6, <2>1, <2>2, <2>3 DEF Step
<1>7. ASSUME NEW t \in Tasks, Disturb(t) PROVE RunStep
  BY <1>7, NeverOrderly
<1>8. ASSUME NEW w \in Waits, CleanUp(w) PROVE RunStep
  BY <1>8 DEF RunStep, CleanUp, SameRun, waitVars
<1>9. CASE Time
  BY <1>9 DEF RunStep, Time, Deadline, ClaimAges, SameRun, waitVars
<1>10. ASSUME NEW p \in Procs, Crash(p) PROVE RunStep
  BY <1>10 DEF RunStep
<1> QED
  BY <1>1, <1>2, <1>3, <1>4, <1>5, <1>6, <1>7, <1>8, <1>9, <1>10 DEF Next

(* The node that an actor patches or fails is open.                        *)
LEMMA SettledNode ==
  ASSUME TypeInv, OrderlyInv, NEW t \in Tasks,
         \/ At(t, "patch") /\ SettleNode(Cur(t), Ev(t))
         \/ FailCas(t)
  PROVE  \E w \in Waits :
           /\ w = Cur(t) /\ node[NodeOf(w)].st = "running" /\ got[w] = None
           /\ NodeOf(w) \in Nodes /\ CurrentExecution(w)
           /\ \A n \in Nodes : n # NodeOf(w) => node'[n] = node[n]
           /\ \A v \in Waits : v # w => got'[v] = got[v]
           /\ got' = got \/ got' = [got EXCEPT ![w] = Ev(t)]
           /\ NodeOf(w) \notin Delays /\ At(t, "patch") => Ev(t) # None
           /\ node' = node \/ node'[NodeOf(w)].inst = node[NodeOf(w)].inst
<1>1. task[t].pc \in {"patch", "failCas"}
  BY DEF At, FailCas
<1>2. task[t].pc \in Holding /\ task[t].pc \in OpenLabels
  BY <1>1 DEF Holding, OpenLabels
<1>3. PICK w \in Waits : w = Cur(t)
  BY <1>2, HolderFacts
<1>4. Open(w) /\ (task[t].pc = "patch" /\ Ev(t) = None => NodeOf(w) \in Delays)
  BY <1>2, <1>3, HolderFacts DEF HandOK, Cur, Ev
<1>5. /\ node[NodeOf(w)].st = "running" /\ got[w] = None /\ NodeOf(w) \in Nodes
      /\ w = <<NodeOf(w), node[NodeOf(w)].inst>> /\ CurrentExecution(w)
  BY <1>4, NodeTypes DEF Open, CurrentExecution, OrderlyInv, GotInv
<1>6. node' = node \/ \E s : node' = [node EXCEPT ![NodeOf(w)].st = s]
  BY <1>3 DEF SettleNode, FailCas
<1>7. got' = got \/ got' = [got EXCEPT ![w] = Ev(t)]
  BY <1>3, <1>5 DEF SettleNode, FailCas
<1>8. \A n \in Nodes : n # NodeOf(w) => node'[n] = node[n]
  BY <1>5, <1>6, NodeTypes
<1>9. node' = node \/ node'[NodeOf(w)].inst = node[NodeOf(w)].inst
  BY <1>5, <1>6, NodeTypes
<1>10. \A v \in Waits : v # w => got'[v] = got[v]
  BY <1>7, NodeTypes
<1> QED
  BY <1>3, <1>4, <1>5, <1>7, <1>8, <1>9, <1>10 DEF At

LEMMA OutcomeStep ==
  ASSUME Orderly, TypeInv, OrderlyInv, [Next]_vars
  PROVE  /\ \A w \in Waits : got[w] # None => got'[w] = got[w]
         /\ \A n \in Nodes :
              node[n].st \in {"completed", "failed"} /\ node'[n].inst = node[n].inst
                => node'[n].st = node[n].st
<1>1. RunStep
  BY RunSteps
<1>2. CASE UNCHANGED <<node, got>>
  BY <1>2
<1>3. ASSUME NEW n \in Nodes, Park(n)
      PROVE  got' = got /\ \A m \in Nodes : node[m].st \in {"completed", "failed"}
                                             => node'[m].st = node[m].st
  BY <1>3, NodeTypes DEF Park
<1>4. CASE Retry
  <2>1. got' = got
    BY <1>4 DEF Retry
  <2>2. \A n \in Nodes : node'[n] = node[n] \/ node'[n].inst = node[n].inst + 1
    BY <1>4 DEF Retry
  <2>3. \A n \in Nodes : node[n].inst \in Nat
    BY NodeTypes
  <2> QED
    BY <2>1, <2>2, <2>3
<1>5. ASSUME NEW t \in Tasks,
             \/ At(t, "patch") /\ SettleNode(Cur(t), Ev(t))
         \/ FailCas(t)
      PROVE  /\ \A w \in Waits : got[w] # None => got'[w] = got[w]
             /\ \A n \in Nodes : node[n].st \in {"completed", "failed"} =>
                  node'[n].st = node[n].st
  BY <1>5, SettledNode
<1>6. CASE Complete \/ Cancel \/ Fail \/ \E p \in Procs : Crash(p)
  <2>1. UNCHANGED <<node, got>>
    BY <1>6 DEF Complete, Cancel, Fail, Crash, SameRun
  <2> QED
    BY <1>2, <2>1
<1> QED
  BY <1>1, <1>2, <1>3, <1>4, <1>5, <1>6 DEF RunStep

(* The outcome of an execution of a wait node is final in an orderly       *)
(* execution: neither a second delivery (patchNodeOutcome) nor a late      *)
(* deadline (failRunForExpiredWait) replaces it.                           *)
THEOREM OutcomesFinal == ASSUME Orderly PROVE Spec => OutcomeStable
<1>1. TypeInv /\ MailInv /\ OrderlyInv /\ [Next]_vars =>
        [/\ \A w \in Waits : got[w] # None => got'[w] = got[w]
         /\ \A n \in Nodes :
              node[n].st \in {"completed", "failed"} /\ node'[n].inst = node[n].inst
                => node'[n].st = node[n].st]_vars
  BY OutcomeStep
<1> QED
  BY <1>1, OrderlyAlways, PTL DEF Spec, OutcomeStable
---------------------------------------------------------------------------
(* What publishEvent answers                                               *)

(* What an actor has behind it when its state goes from a to b.            *)
Succ(u, a, b) ==
  /\ b.out = "delivered" =>
       \/ a.out = "delivered" \/ u \in heard \cup receipts
       \/ a.pc = "readNode" /\ a.cur # None /\ node[NodeOf(a.cur)].st = "completed"
  /\ b.pc = "readNode" => b.cur = claim[u]
  /\ b.goal # None => a.goal # None \/ ~(Timed \subseteq Delays)
  /\ b.pc = "check" => a.goal # None
  /\ b.pc = "resolve" =>
       a.pc = "check" \/ NodeOf(b.cur) \in Delays \/ ~(Timed \subseteq Delays)
  /\ b.pc = "expired" => a.pc = "resolve" /\ NodeOf(a.cur) \notin Delays
  /\ b.pc = "failRead" => a.pc = "expired"
  /\ b.pc = "failCas" => a.pc = "failRead"
  /\ b.pc = "inspect" => a.pc = "recover" /\ a.todo # {}
  /\ b.pc = "restore" => a.pc = "inspect"
  /\ b.pc = "rollback" => a.pc = "deliver" /\ status = "failed"

Followed == \A u \in Tasks : task'[u] = task[u] \/ Succ(u, task[u], task'[u])

Guarded == {"readNode", "check", "resolve", "expired", "failRead", "failCas",
            "inspect", "restore", "rollback"}

LEMMA FollowedBy ==
  ASSUME TypeInv, NEW t \in Tasks, NEW b, Become(t, b), Succ(t, task[t], b)
  PROVE  Followed
BY Became DEF Followed

(* A label that needs no justification, an answer that says nothing.       *)
LEMMA FollowedFree ==
  ASSUME TypeInv, NEW t \in Tasks, NEW b, Become(t, b), b.pc \notin Guarded,
         b.goal # None => task[t].goal # None,
         b.out = "delivered" => task[t].out = "delivered"
  PROVE  Followed
<1>1. Succ(t, task[t], b)
  BY DEF Succ, Guarded
<1> QED
  BY <1>1, FollowedBy

LEMMA FollowedGoto ==
  ASSUME TypeInv, NEW t \in Tasks, NEW l \in Labels, Goto(t, l),
         l \notin {"readNode", "check", "inspect"},
         l = "resolve" => task[t].pc = "check",
         l = "expired" => task[t].pc = "resolve" /\ NodeOf(Cur(t)) \notin Delays,
         l = "failRead" => task[t].pc = "expired",
         l = "failCas" => task[t].pc = "failRead",
         l = "restore" => task[t].pc = "inspect",
         l = "rollback" => task[t].pc = "deliver" /\ status = "failed"
  PROVE  Followed
<1> DEFINE b == [task[t] EXCEPT !.pc = l]
<1>1. task[t] \in TaskState
  BY TaskFields
<1>2. Become(t, b)
  BY DEF Goto
<1>3. b.pc = l /\ b.goal = task[t].goal /\ b.out = task[t].out
  BY <1>1 DEF TaskState
<1> HIDE DEF b
<1>4. Succ(t, task[t], b)
  BY <1>3 DEF Succ, Cur
<1> QED
  BY <1>2, <1>4, FollowedBy

LEMMA FollowedEnds ==
  ASSUME TypeInv, NEW t \in Tasks,
         Become(t, Resting) \/ \E o : Ends(t, o) /\ o # "delivered"
  PROVE  Followed
<1>1. Resting.pc = "idle" /\ Resting.goal = None /\ Resting.out = "none"
  BY DEF Resting
<1>2. \A o : /\ Answer(t, o).pc = "done" /\ Answer(t, o).goal = None
             /\ Answer(t, o).out = o
  BY DEF Answer, Resting
<1>3. PICK b : /\ Become(t, b) /\ b.pc \in {"idle", "done"} /\ b.goal = None
               /\ b.out # "delivered"
  BY <1>1, <1>2 DEF Ends
<1>4. b.pc \notin Guarded
  BY <1>3 DEF Guarded
<1> QED
  BY <1>3, <1>4, FollowedFree

LEMMA FollowedNextWait ==
  ASSUME TypeInv, NEW t \in Tasks, NextWait(t)
  PROVE  Followed
<1> DEFINE next(label) == [task[t] EXCEPT !.pc = label, !.cur = None,
                                          !.ev = None]
<1>1. task[t] \in TaskState
  BY TaskFields
<1>2. ASSUME NEW l \in {"recover", "pass"}
      PROVE  next(l).pc = l /\ next(l).goal = task[t].goal
             /\ next(l).out = task[t].out
  BY <1>1 DEF TaskState
<1>3. \/ Become(t, next("recover")) \/ Become(t, next("pass"))
      \/ Become(t, Resting)
  BY <1>1 DEF NextWait, TaskState
<1> HIDE DEF next
<1>4. CASE Become(t, Resting)
  BY <1>4, FollowedEnds
<1>5. ASSUME NEW l \in {"recover", "pass"}, Become(t, next(l)) PROVE Followed
  <2>1. l \notin Guarded
    BY DEF Guarded
  <2> QED
    BY <1>2, <1>5, <2>1, FollowedFree
<1> QED
  BY <1>3, <1>4, <1>5

LEMMA FollowedStill ==
  ASSUME TypeInv, UNCHANGED task PROVE Followed
BY DEF Followed

(* Goto to a label that nothing guards.                                    *)
LEMMA FollowedOn ==
  ASSUME TypeInv, NEW t \in Tasks, NEW l \in Labels \ Guarded, Goto(t, l)
  PROVE  Followed
BY FollowedGoto DEF Guarded

LEMMA FollowedPublish ==
  ASSUME TypeInv, NEW e \in Publishers, PublishStep(e)
  PROVE  Followed
<1>0. e \in Tasks /\ task[e] \in TaskState
  BY TaskFields DEF Tasks
<1> DEFINE d == Answer(e, "delivered")
<1>1. d.pc = "done" /\ d.goal = None /\ d.out = "delivered"
  BY DEF Answer, Resting
<1> HIDE DEF d
<1>2. ASSUME Ends(e, "delivered"),
             \/ e \in heard \cup receipts
             \/ /\ task[e].pc = "readNode" /\ task[e].cur # None
                /\ node[NodeOf(task[e].cur)].st = "completed"
      PROVE  Followed
  <2>1. Become(e, d)
    BY <1>2 DEF Ends, d
  <2>2. Succ(e, task[e], d)
    BY <1>1, <1>2 DEF Succ
  <2> QED
    BY <1>0, <2>1, <2>2, FollowedBy
<1>3. CASE AppendRunEvent(e)
  <2>1. \/ \E l \in {"reread", "drain"} : Goto(e, l)
        \/ Ends(e, "rejected")
    BY <1>3 DEF AppendRunEvent
  <2> QED
    BY <1>0, <2>1, FollowedOn, FollowedEnds DEF Labels, Guarded
<1>4. CASE Reread(e) \/ Latest(e) \/ RemoveRunEvent(e)
  <2>1. \/ \E l \in {"remove", "drain"} : Goto(e, l)
        \/ \E o \in {"kept", "run-terminal"} : Ends(e, o)
    BY <1>4 DEF Reread, Latest, RemoveRunEvent
  <2> QED
    BY <1>0, <2>1, FollowedOn, FollowedEnds DEF Labels, Guarded
<1>5. CASE Judge(e)
  <2>1. CASE e \in heard
    BY <1>2, <1>5, <2>1 DEF Judge
  <2>2. CASE e \notin heard
    <3> DEFINE b == [task[e] EXCEPT !.pc = "readNode", !.cur = claim[e], !.ev = e]
    <3>1. Become(e, b)
      BY <1>5, <2>2 DEF Judge, Take
    <3>2. /\ b.pc = "readNode" /\ b.cur = claim[e] /\ b.goal = task[e].goal
          /\ b.out = task[e].out
      BY <1>0 DEF TaskState
    <3> HIDE DEF b
    <3>3. Succ(e, task[e], b)
      BY <3>2 DEF Succ
    <3> QED
      BY <1>0, <3>1, <3>3, FollowedBy
  <2> QED
    BY <2>1, <2>2
<1>6. CASE ReadNode(e) \/ ReadReceipt(e)
  <2>1. \/ \E l \in {"readReceipt", "latest"} : Goto(e, l)
        \/ /\ Ends(e, "delivered")
           /\ \/ e \in heard \cup receipts
              \/ /\ task[e].pc = "readNode" /\ task[e].cur # None
                 /\ node[NodeOf(task[e].cur)].st = "completed"
    BY <1>6 DEF ReadNode, ReadReceipt, At, Cur
  <2> QED
    BY <1>0, <1>2, <2>1, FollowedOn DEF Labels, Guarded
<1> QED
  BY <1>3, <1>4, <1>5, <1>6 DEF PublishStep

LEMMA FollowedStart ==
  ASSUME TypeInv,
         \/ \E e \in Publishers, p \in Procs : Publish(e, p)
         \/ \E k \in Keepers, p \in Procs : StartDrain(k, p)
         \/ \E k \in Keepers, p \in Procs, w \in Waits : StartExpiry(k, p, w)
  PROVE  Followed
<1>1. ASSUME NEW e \in Publishers, NEW p \in Procs, Publish(e, p) PROVE Followed
  <2> DEFINE b == [Resting EXCEPT !.pc = "append", !.home = p,
                                  !.seenFailed = (status = "failed")]
  <2>1. e \in Tasks
    BY DEF Tasks
  <2>2. Become(e, b) \/ Ends(e, "run-terminal")
    BY <1>1 DEF Publish
  <2>3. b.pc = "append" /\ b.goal = None /\ b.out = "none"
    BY DEF Resting
  <2> HIDE DEF b
  <2>4. b.pc \notin Guarded
    BY <2>3 DEF Guarded
  <2> QED
    BY <2>1, <2>2, <2>3, <2>4, FollowedFree, FollowedEnds
<1>2. ASSUME NEW k \in Keepers, NEW p \in Procs, StartDrain(k, p) PROVE Followed
  <2> DEFINE b == [[Resting EXCEPT !.pc = "drain"] EXCEPT !.home = p]
  <2>1. k \in Tasks
    BY DEF Tasks
  <2>2. Become(k, b)
    BY <1>2 DEF StartDrain, Rouse
  <2>3. b.pc = "drain" /\ b.goal = None /\ b.out = "none"
    BY DEF Resting
  <2> HIDE DEF b
  <2>4. b.pc \notin Guarded
    BY <2>3 DEF Guarded
  <2> QED
    BY <2>1, <2>2, <2>3, <2>4, FollowedFree
<1>3. ASSUME NEW k \in Keepers, NEW p \in Procs, NEW w \in Waits,
             StartExpiry(k, p, w)
      PROVE  Followed
  <2> DEFINE b == [[Resting EXCEPT !.pc = "resolve", !.cur = w] EXCEPT !.home = p]
             c == [[Resting EXCEPT !.pc = "drain", !.goal = w] EXCEPT !.home = p]
  <2>1. k \in Tasks
    BY DEF Tasks
  <2>2. \/ NodeOf(w) \in Delays /\ Become(k, b)
        \/ NodeOf(w) \in Timed \ Delays /\ Become(k, c)
    BY <1>3 DEF StartExpiry, Rouse
  <2>3. /\ b.pc = "resolve" /\ b.goal = None /\ b.out = "none" /\ b.cur = w
        /\ c.pc = "drain" /\ c.out = "none"
    BY DEF Resting
  <2> HIDE DEF b, c
  <2>4. CASE NodeOf(w) \in Delays /\ Become(k, b)
    <3>1. Succ(k, task[k], b)
      BY <2>3, <2>4 DEF Succ
    <3> QED
      BY <2>1, <2>4, <3>1, FollowedBy
  <2>5. CASE NodeOf(w) \in Timed \ Delays /\ Become(k, c)
    <3>1. Succ(k, task[k], c)
      BY <2>3, <2>5 DEF Succ
    <3> QED
      BY <2>1, <2>5, <3>1, FollowedBy
  <2> QED
    BY <2>2, <2>4, <2>5
<1> QED
  BY <1>1, <1>2, <1>3
LEMMA FollowedDrain ==
  ASSUME TypeInv, NEW t \in Tasks,
         \/ OpenSession(t) \/ Recover(t) \/ Inspect(t) \/ Scan(t)
         \/ EndPass(t) \/ DrainWait(t)
  PROVE  Followed
<1>0. task[t] \in TaskState
  BY TaskFields
<1>1. CASE OpenSession(t)
  <2> DEFINE b == [task[t] EXCEPT !.pc = "scan", !.pass = "passing"]
             c == [task[t] EXCEPT !.pc = "recover", !.pass = "recovering",
                                  !.todo = Abandoned(task[t].home)]
  <2>1. Become(t, b) \/ Become(t, c)
    BY <1>1 DEF OpenSession
  <2>2. /\ b.pc = "scan" /\ b.goal = task[t].goal /\ b.out = task[t].out
        /\ c.pc = "recover" /\ c.goal = task[t].goal /\ c.out = task[t].out
    BY <1>0 DEF TaskState
  <2> HIDE DEF b, c
  <2>3. b.pc \notin Guarded /\ c.pc \notin Guarded
    BY <2>2 DEF Guarded
  <2> QED
    BY <2>1, <2>2, <2>3, FollowedFree
<1>2. CASE Recover(t)
  <2> DEFINE b == [task[t] EXCEPT !.pc = "scan", !.pass = "passing"]
             rest(x) == [task[t] EXCEPT !.todo = @ \ {x}]
             c(x) == [rest(x) EXCEPT !.pc = "inspect", !.cur = x[1], !.ev = x[2]]
  <2>0. task[t].pc = "recover"
    BY <1>2 DEF Recover, At
  <2>1. \/ Become(t, b)
        \/ \E x \in task[t].todo : Become(t, c(x)) \/ Become(t, rest(x))
    BY <1>2 DEF Recover
  <2>2. b.pc = "scan" /\ b.goal = task[t].goal /\ b.out = task[t].out
    BY <1>0 DEF TaskState
  <2>3. ASSUME NEW x
        PROVE  /\ rest(x) \in TaskState /\ rest(x).pc = "recover"
               /\ rest(x).goal = task[t].goal /\ rest(x).out = task[t].out
    BY <1>0, <2>0 DEF TaskState
  <2> HIDE DEF b, rest
  <2>4. ASSUME NEW x
        PROVE  /\ c(x).pc = "inspect" /\ c(x).goal = task[t].goal
               /\ c(x).out = task[t].out
    BY <2>3 DEF TaskState
  <2> HIDE DEF c
  <2>5. CASE Become(t, b)
    <3>1. b.pc \notin Guarded
      BY <2>2 DEF Guarded
    <3> QED
      BY <2>2, <2>5, <3>1, FollowedFree
  <2>6. ASSUME NEW x \in task[t].todo, Become(t, rest(x)) PROVE Followed
    <3>1. rest(x).pc \notin Guarded
      BY <2>3 DEF Guarded
    <3> QED
      BY <2>3, <2>6, <3>1, FollowedFree
  <2>7. ASSUME NEW x \in task[t].todo, Become(t, c(x)) PROVE Followed
    <3>1. Succ(t, task[t], c(x))
      BY <2>0, <2>4 DEF Succ
    <3> QED
      BY <2>7, <3>1, FollowedBy
  <2> QED
    BY <2>1, <2>5, <2>6, <2>7
<1>3. CASE Inspect(t)
  <2>1. task[t].pc = "inspect"
    BY <1>3 DEF Inspect, At
  <2>2. PICK l \in {"finTimed", "finalize", "discard", "restTimed", "restore"} :
          Goto(t, l)
    BY <1>3 DEF Inspect
  <2>3. l \in Labels
    BY DEF Labels
  <2> QED
    BY <2>1, <2>2, <2>3, FollowedGoto
<1>4. CASE Scan(t) \/ EndPass(t)
  <2> DEFINE b == [task[t] EXCEPT !.pc = "pass",
                     !.todo = {<<w, None>> : w \in {v \in Waits :
                                                     rec[v].st = "pending"}}]
             out == [task[t] EXCEPT !.pass = "no", !.goal = None]
             c == [out EXCEPT !.pc = "judge"]
             d == [out EXCEPT !.pc = "check", !.cur = task[t].goal]
  <2>1. \/ Become(t, b) \/ Become(t, c) \/ Become(t, Resting)
        \/ Become(t, d) /\ task[t].goal # None
    BY <1>4 DEF Scan, EndPass
  <2>2. b.pc = "pass" /\ b.goal = task[t].goal /\ b.out = task[t].out
    BY <1>0 DEF TaskState
  <2>3. out \in TaskState /\ out.goal = None /\ out.out = task[t].out
    BY <1>0 DEF TaskState
  <2> HIDE DEF out
  <2>4. /\ c.pc = "judge" /\ c.goal = None /\ c.out = task[t].out
        /\ d.pc = "check" /\ d.goal = None /\ d.out = task[t].out
    BY <2>3 DEF TaskState
  <2> HIDE DEF b, c, d
  <2>5. b.pc \notin Guarded /\ c.pc \notin Guarded
    BY <2>2, <2>4 DEF Guarded
  <2>6. CASE Become(t, b) \/ Become(t, c)
    BY <2>2, <2>4, <2>5, <2>6, FollowedFree
  <2>7. CASE Become(t, d) /\ task[t].goal # None
    <3>1. Succ(t, task[t], d)
      BY <2>4, <2>7 DEF Succ
    <3> QED
      BY <2>7, <3>1, FollowedBy
  <2> QED
    BY <2>1, <2>6, <2>7, FollowedEnds
<1>5. CASE DrainWait(t)
  <2>0. task[t].pc = "pass"
    BY <1>5 DEF DrainWait, At
  <2> DEFINE rest(x) == [task[t] EXCEPT !.todo = @ \ {x}]
             b(x, f) == [rest(x) EXCEPT !.pc = "deliver", !.cur = x[1], !.ev = f]
             c(x) == [rest(x) EXCEPT !.pc = "resolve", !.cur = x[1]]
  <2>1. \E x \in task[t].todo :
          \/ \E f : Become(t, b(x, f))
          \/ Become(t, c(x)) /\ NodeOf(x[1]) \in Timed \ Delays
          \/ Become(t, rest(x))
    BY <1>5 DEF DrainWait
  <2>2. ASSUME NEW x
        PROVE  /\ rest(x) \in TaskState /\ rest(x).pc = "pass"
               /\ rest(x).goal = task[t].goal /\ rest(x).out = task[t].out
    BY <1>0, <2>0 DEF TaskState
  <2> HIDE DEF rest
  <2>3. ASSUME NEW x, NEW f
        PROVE  /\ b(x, f).pc = "deliver" /\ b(x, f).goal = task[t].goal
               /\ b(x, f).out = task[t].out
               /\ c(x).pc = "resolve" /\ c(x).goal = task[t].goal
               /\ c(x).out = task[t].out
    BY <2>2 DEF TaskState
  <2> HIDE DEF b, c
  <2>4. ASSUME NEW x, NEW f, Become(t, b(x, f)) PROVE Followed
    <3>1. b(x, f).pc \notin Guarded
      BY <2>3 DEF Guarded
    <3> QED
      BY <2>3, <2>4, <3>1, FollowedFree
  <2>5. ASSUME NEW x, Become(t, c(x)), NodeOf(x[1]) \in Timed \ Delays
        PROVE  Followed
    <3>1. Succ(t, task[t], c(x))
      BY <2>3, <2>5 DEF Succ
    <3> QED
      BY <2>5, <3>1, FollowedBy
  <2>6. ASSUME NEW x, Become(t, rest(x)) PROVE Followed
    <3>1. rest(x).pc \notin Guarded
      BY <2>2 DEF Guarded
    <3> QED
      BY <2>2, <2>6, <3>1, FollowedFree
  <2> QED
    BY <2>1, <2>4, <2>5, <2>6
<1> QED
  BY <1>1, <1>2, <1>3, <1>4, <1>5

LEMMA FollowedNext ==
  ASSUME Orderly, TypeInv, OrderlyInv, [Next]_vars
  PROVE  Followed
<1>1. CASE UNCHANGED vars
  BY <1>1, FollowedStill DEF vars, waitVars
<1>2. CASE RunNext
  BY <1>2, FollowedStill
  DEF RunNext, Park, CreateEventWait, Complete, Cancel, Fail, Retry, waitVars
<1>3. CASE RouseNext
  <2>1. \A k \in Keepers : k \in Tasks
    BY DEF Tasks
  <2> QED
    BY <1>3, <2>1, FollowedStart, NeverOrderly DEF RouseNext
<1>4. ASSUME NEW e \in Publishers, PublishStep(e) PROVE Followed
  BY <1>4, FollowedPublish
<1>5. ASSUME NEW e \in Publishers, NEW p \in Procs, Publish(e, p) PROVE Followed
  BY <1>5, FollowedStart
<1>6. ASSUME NEW t \in Tasks, Step(t) PROVE Followed
  <2>1. CASE \/ OpenSession(t) \/ Recover(t) \/ Inspect(t) \/ Scan(t)
             \/ EndPass(t) \/ DrainWait(t)
    BY <2>1, FollowedDrain
  <2>2. CASE \/ Restore(t) \/ Finalize(t) \/ RollBack(t) \/ EndTimed(t)
    BY <2>2, FollowedNextWait DEF Restore, Finalize, RollBack, EndTimed
  <2>3. CASE Retire(t) \/ CancelStale(t) \/ RetryCommitted(t)
    BY <2>3, NeverOrderly
  <2>4. CASE Patch(t) \/ ResumeRun(t) \/ FailCas(t)
    <3>1. PICK l \in {"resume", "deliver", "finTimed", "finalize", "restTimed"} :
            Goto(t, l)
      BY <2>4 DEF Patch, ResumeRun, FailCas
    <3>2. l \in Labels \ Guarded
      BY DEF Labels, Guarded
    <3> QED
      BY <3>1, <3>2, FollowedOn
  <2>5. CASE Deliver(t)
    <3>1. PICK l \in {"restTimed", "rollback", "finTimed", "discard", "retire",
                      "patch"} :
            Goto(t, l) /\ (l = "rollback" => status = "failed")
      BY <2>5 DEF Deliver
    <3>2. l \in Labels /\ task[t].pc = "deliver"
      BY <2>5 DEF Labels, Deliver, At
    <3> QED
      BY <3>1, <3>2, FollowedGoto
  <2>6. CASE CheckDeadline(t)
    <3>1. Goto(t, "resolve") \/ Become(t, Resting)
      BY <2>6 DEF CheckDeadline
    <3>2. "resolve" \in Labels /\ task[t].pc = "check"
      BY <2>6 DEF Labels, CheckDeadline, At
    <3> QED
      BY <3>1, <3>2, FollowedGoto, FollowedEnds
  <2>7. CASE ResolveDeadline(t)
    <3>1. \/ Goto(t, "deliver") \/ NextWait(t)
          \/ Goto(t, "expired") /\ NodeOf(Cur(t)) \notin Delays
      BY <2>7 DEF ResolveDeadline
    <3>2. {"deliver", "expired"} \subseteq Labels /\ task[t].pc = "resolve"
      BY <2>7 DEF Labels, ResolveDeadline, At
    <3> QED
      BY <3>1, <3>2, FollowedGoto, FollowedNextWait
  <2>8. CASE LookAgain(t)
    <3>1. Goto(t, "restTimed") \/ Goto(t, "failRead")
      BY <2>8 DEF LookAgain
    <3>2. {"restTimed", "failRead"} \subseteq Labels /\ task[t].pc = "expired"
      BY <2>8 DEF Labels, LookAgain, At
    <3> QED
      BY <3>1, <3>2, FollowedGoto
  <2>9. CASE FailRead(t)
    <3>1. Goto(t, "restTimed") \/ Goto(t, "finTimed") \/ Goto(t, "failCas")
      BY <2>9 DEF FailRead
    <3>2. {"restTimed", "finTimed", "failCas"} \subseteq Labels
          /\ task[t].pc = "failRead"
      BY <2>9 DEF Labels, FailRead, At
    <3> QED
      BY <3>1, <3>2, FollowedGoto
  <2> QED
    BY <1>6, <2>1, <2>2, <2>3, <2>4, <2>5, <2>6, <2>7, <2>8, <2>9 DEF Step
<1>7. ASSUME NEW t \in Tasks, Disturb(t) PROVE Followed
  BY <1>7, NeverOrderly
<1>8. ASSUME NEW w \in Waits, CleanUp(w) PROVE Followed
  BY <1>8, FollowedStill DEF CleanUp, waitVars
<1>9. CASE Time
  BY <1>9, FollowedStill DEF Time, Deadline, ClaimAges, waitVars
<1>10. ASSUME NEW p \in Procs, Crash(p) PROVE Followed
  <2>1. \A u \in Tasks :
          \/ task'[u] = task[u]
          \/ /\ task'[u].pc \in {"idle", "done"} /\ task'[u].goal = None
             /\ task'[u].out \in {"none", "lost"}
    BY <1>10 DEF Crash, Answer, Resting
  <2> QED
    BY <2>1 DEF Followed, Succ
<1> QED
  BY <1>1, <1>2, <1>3, <1>4, <1>5, <1>6, <1>7, <1>8, <1>9, <1>10 DEF Next
(* How a claim goes away in an orderly execution: with the run, by the     *)
(* actor that has it in hand, or because it is given back.                 *)
LEMMA ClaimSteps ==
  ASSUME Orderly, TypeInv, MailInv, OrderlyInv, [Next]_vars,
         NEW e \in Publishers, NEW w \in Waits, claim[e] = w
  PROVE  \/ claim'[e] = w
         \/ Complete \/ Cancel
         \/ \E t \in Tasks : Finalize(t) /\ Cur(t) = w /\ Ev(t) = e
         \/ \E t \in Tasks : task[t].pc \in {"restore", "rollback"}
<1> DEFINE Goes == \/ claim'[e] = w
                   \/ Complete \/ Cancel
                   \/ \E t \in Tasks : Finalize(t) /\ Cur(t) = w /\ Ev(t) = e
                   \/ \E t \in Tasks : task[t].pc \in {"restore", "rollback"}
<1> SUFFICES Goes
  OBVIOUS
<1>1. CASE UNCHANGED vars
  BY <1>1 DEF vars, mailVars
<1>2. CASE RunNext
  BY <1>2 DEF RunNext, Park, CreateEventWait, Fail, Retry
<1>3. CASE RouseNext
  BY <1>3 DEF RouseNext, StartDrain, StartExpiry, StartRetry, Rouse, SameStore
<1>4. ASSUME NEW f \in Publishers, PublishStep(f) PROVE Goes
  BY <1>4 DEF PublishStep, AppendRunEvent, Append1, Reread, Judge, ReadNode,
              ReadReceipt, Latest, RemoveRunEvent, SameStore
<1>5. ASSUME NEW f \in Publishers, NEW p \in Procs, Publish(f, p) PROVE Goes
  BY <1>5 DEF Publish, SameStore
<1>6. ASSUME NEW t \in Tasks, Step(t) PROVE Goes
  <2>1. CASE Restore(t) \/ RollBack(t)
    BY <2>1 DEF Restore, RollBack, At
  <2>2. CASE Retire(t) \/ CancelStale(t) \/ RetryCommitted(t)
    BY <2>2, NeverOrderly
  <2>3. CASE Finalize(t)
    <3>1. task[t].pc \in Holding /\ task[t].pc \in EventLabels
      BY <2>3 DEF Finalize, Holding, EventLabels
    <3>2. /\ Cur(t) \in Waits /\ Ev(t) \in Publishers
          /\ HandOK(task[t]) /\ TaskOK(t, task[t])
      BY <3>1, HolderFacts DEF TaskOK, Ev
    <3>3. EventHand(Cur(t), Ev(t))
      BY <3>1, <3>2, NoneAssumption DEF HandOK, Cur, Ev
    <3>4. CASE Ev(t) = e
      BY <2>3, <3>3, <3>4, NoneAssumption DEF EventHand
    <3>5. CASE Ev(t) # e
      <4>1. claim' = claim \/ claim' = [claim EXCEPT ![Ev(t)] = None]
        BY <2>3 DEF Finalize, FinalizeDelivery
      <4> QED
        BY <3>2, <3>5, <4>1, MailTypes
    <3> QED
      BY <3>4, <3>5
  <2>4. CASE DrainWait(t)
    <3>1. order' = order
      BY <2>4 DEF DrainWait, SameRun
    <3>2. (\E x \in task[t].todo : ClaimEvent(x[1])) \/ SameStore
      BY <2>4 DEF DrainWait
    <3>3. \A x \in task[t].todo : x[1] \in Waits
      BY TaskFields DEF TaskState
    <3>4. CASE SameStore
      BY <3>4 DEF SameStore
    <3>5. ASSUME NEW v \in Waits, ClaimEvent(v) PROVE claim'[e] = w
      <4>1. PICK f \in Publishers : claim[f] = None /\ claim' = [claim EXCEPT ![f] = v]
        BY <3>1, <3>5, ClaimMail
      <4> QED
        BY <4>1, MailTypes
    <3> QED
      BY <3>2, <3>3, <3>4, <3>5
  <2>5. CASE \/ OpenSession(t) \/ Recover(t) \/ Inspect(t)
             \/ Scan(t) \/ EndPass(t) \/ Deliver(t) \/ Patch(t) \/ ResumeRun(t)
    BY <2>5
    DEF OpenSession, Recover, Inspect, Scan, EndPass, Deliver, Patch, ResumeRun,
        SameStore
  <2>6. CASE \/ CheckDeadline(t) \/ ResolveDeadline(t)
             \/ LookAgain(t) \/ FailRead(t) \/ FailCas(t) \/ EndTimed(t)
    BY <2>6 DEF CheckDeadline, ResolveDeadline, LookAgain, FailRead, FailCas,
                EndTimed, SameStore
  <2> QED
    BY <1>6, <2>1, <2>2, <2>3, <2>4, <2>5, <2>6 DEF Step
<1>7. ASSUME NEW t \in Tasks, Disturb(t) PROVE Goes
  BY <1>7, NeverOrderly
<1>8. ASSUME NEW v \in Waits, CleanUp(v) PROVE Goes
  BY <1>8 DEF CleanUp
<1>9. CASE Time
  BY <1>9 DEF Time, Deadline, ClaimAges, SameStore
<1>10. ASSUME NEW p \in Procs, Crash(p) PROVE Goes
  BY <1>10 DEF Crash, SameStore
<1> QED
  BY <1>1, <1>2, <1>3, <1>4, <1>5, <1>6, <1>7, <1>8, <1>9, <1>10 DEF Next

(* One publication: whatever settled the node that was read is this event. *)
Alone == \A e, f \in Publishers : e = f

AloneInv ==
  /\ \A w \in Waits :
       /\ NodeOf(w) \notin Delays /\ CurrentExecution(w)
       /\ node[NodeOf(w)].st = "completed"
       => got[w] # None
  /\ \A e \in Publishers : task[e].pc = "readNode" /\ task[e].cur # None =>
       NodeOf(task[e].cur) \notin Delays
  /\ DeliveredTruthfully

LEMMA LandedStays ==
  ASSUME Orderly, TypeInv, OrderlyInv, [Next]_vars, NEW e \in Publishers, Landed(e)
  PROVE  Landed(e)'
BY OutcomeStep, NoneAssumption DEF Landed

(* An answer "delivered" is about what has landed, if what it was read     *)
(* from is.                                                                *)
LEMMA TruthfulStep ==
  ASSUME Orderly, TypeInv, OrderlyInv, [Next]_vars, DeliveredTruthfully,
         \A e \in Publishers :
           /\ task[e].pc = "readNode" /\ task[e].cur # None
           /\ node[NodeOf(task[e].cur)].st = "completed"
           => Landed(e)
  PROVE  DeliveredTruthfully'
<1> SUFFICES ASSUME NEW e \in Publishers, task'[e].out = "delivered"
             PROVE  Landed(e)
  BY LandedStays DEF DeliveredTruthfully, Landed
<1>1. e \in Tasks
  BY DEF Tasks
<1>2. task'[e] = task[e] \/ Succ(e, task[e], task'[e])
  BY <1>1, FollowedNext DEF Followed
<1>3. CASE task[e].out = "delivered"
  BY <1>3 DEF DeliveredTruthfully, Landed
<1>4. CASE e \in heard \cup receipts
  BY <1>4 DEF OrderlyInv, GotInv
<1> QED
  BY <1>2, <1>3, <1>4 DEF Succ

LEMMA AloneNext ==
  ASSUME Orderly, Alone, TypeInv, MailInv, OrderlyInv, AloneInv, [Next]_vars
  PROVE  AloneInv'
<1>1. \A e \in Publishers : (task[e].pc = "readNode" /\ task[e].cur # None)' =>
        NodeOf(task'[e].cur) \notin Delays
  <2> SUFFICES ASSUME NEW e \in Publishers, task'[e].pc = "readNode",
                      task'[e].cur # None
               PROVE  NodeOf(task'[e].cur) \notin Delays
    OBVIOUS
  <2>1. e \in Tasks
    BY DEF Tasks
  <2>2. task'[e] = task[e] \/ Succ(e, task[e], task'[e])
    BY <2>1, FollowedNext DEF Followed
  <2>3. CASE task'[e] = task[e]
    BY <2>3 DEF AloneInv
  <2>4. CASE task'[e].cur = claim[e]
    BY <2>4 DEF OrderlyInv, ClaimInv
  <2> QED
    BY <2>2, <2>3, <2>4 DEF Succ
<1>2. DeliveredTruthfully'
  <2> SUFFICES ASSUME NEW e \in Publishers, task[e].pc = "readNode",
                      task[e].cur # None,
                      node[NodeOf(task[e].cur)].st = "completed"
               PROVE  Landed(e)
    BY TruthfulStep DEF AloneInv
  <2>1. task[e].cur \in Waits
    BY TaskFields DEF Tasks, TaskState
  <2>2. PICK n \in Nodes : n = NodeOf(task[e].cur)
    BY <2>1, NodeTypes
  <2>3. n \notin Delays
    BY <2>2 DEF AloneInv
  <2>4. PICK v \in Waits : NodeOf(v) = n /\ CurrentExecution(v)
    <3>1. <<n, node[n].inst>> \in Waits
      BY NodeTypes DEF Waits
    <3> QED
      BY <3>1 DEF NodeOf, CurrentExecution
  <2>5. got[v] # None /\ got[v] \in Publishers \cup {None}
    BY <2>2, <2>3, <2>4, NodeTypes DEF AloneInv
  <2> QED
    BY <2>5 DEF Landed, Alone
<1>3. ASSUME NEW w \in Waits, NodeOf(w) \notin Delays, CurrentExecution(w)',
             node'[NodeOf(w)].st = "completed"
      PROVE  got'[w] # None
  <2>1. CASE CurrentExecution(w) /\ node[NodeOf(w)].st = "completed"
    BY <1>3, <2>1, OutcomeStep DEF AloneInv
  <2>2. CASE ~(CurrentExecution(w) /\ node[NodeOf(w)].st = "completed")
    <3>0. NodeOf(w) \in Nodes
      BY NodeTypes
    <3>1. node'[NodeOf(w)] # node[NodeOf(w)]
      BY <1>3, <2>2 DEF CurrentExecution
    <3>2. RunStep /\ node' # node
      BY <3>1, RunSteps
    <3>3. ~ \E n \in Nodes : Park(n)
      <4> SUFFICES ASSUME NEW n \in Nodes, Park(n) PROVE FALSE
        OBVIOUS
      <4>1. node' = [node EXCEPT ![n].st = "running"]
        BY DEF Park
      <4> QED
        BY <1>3, <3>0, <3>1, <4>1, NodeTypes
    <3>4. ~Retry
      <4> SUFFICES ASSUME Retry PROVE FALSE
        OBVIOUS
      <4>1. node'[NodeOf(w)] = node[NodeOf(w)] \/ node'[NodeOf(w)].st = "idle"
        BY <3>0 DEF Retry
      <4> QED
        BY <1>3, <3>1, <4>1
    <3>5. ~ \E t \in Tasks : FailCas(t)
      <4> SUFFICES ASSUME NEW t \in Tasks, FailCas(t) PROVE FALSE
        OBVIOUS
      <4>1. \/ node' = node
            \/ node' = [node EXCEPT ![NodeOf(Cur(t))].st = "failed"]
        BY DEF FailCas
      <4> QED
        BY <1>3, <3>0, <3>1, <4>1, NodeTypes
    <3>6. PICK t \in Tasks : At(t, "patch") /\ SettleNode(Cur(t), Ev(t))
      BY <3>2, <3>3, <3>4, <3>5
      DEF RunStep, Complete, Cancel, Fail, Crash, SameRun
    <3>7. PICK v \in Waits :
            /\ v = Cur(t) /\ CurrentExecution(v)
            /\ \A n \in Nodes : n # NodeOf(v) => node'[n] = node[n]
            /\ NodeOf(v) \notin Delays /\ At(t, "patch") => Ev(t) # None
            /\ node' = node \/ node'[NodeOf(v)].inst = node[NodeOf(v)].inst
      BY <3>6, SettledNode
    <3>8. NodeOf(w) = NodeOf(v)
      BY <3>0, <3>1, <3>7
    <3>9. w = v
      BY <1>3, <3>2, <3>7, <3>8, NodeTypes DEF CurrentExecution
    <3>10. w = <<NodeOf(w), node[NodeOf(w)].inst>>
      BY <3>7, <3>9, NodeTypes DEF CurrentExecution
    <3>11. got' = [got EXCEPT ![w] = Ev(t)]
      BY <3>6, <3>7, <3>9, <3>10 DEF SettleNode
    <3> QED
      BY <1>3, <3>6, <3>7, <3>9, <3>11, NodeTypes
  <2> QED
    BY <2>1, <2>2
<1> QED
  BY <1>1, <1>2, <1>3 DEF AloneInv

(* No failure: no process dies, and the run fails neither by itself nor    *)
(* for an event that did not come in time.  A claim is then never given    *)
(* back, and the node it was made for holds this event or none.            *)
Calm == MaxCrashes = 0 /\ "fail" \notin Endings /\ Timed \subseteq Delays

QuietOK(a) ==
  /\ a.goal = None
  /\ a.pc \notin {"inspect", "restore", "rollback", "check", "expired",
                  "failRead", "failCas"}
  /\ a.pc = "resolve" => NodeOf(a.cur) \in Delays

\* What a publisher may rely on between the read of the claim and of its node.
ReadOK(e, w) ==
  \/ claim[e] = w \/ got[w] = e
  \/ status \in Over /\ node[NodeOf(w)].st # "completed"

CalmInv ==
  /\ status # "failed" /\ alive = Procs
  /\ \A t \in Tasks : QuietOK(task[t])
  /\ \A e \in Publishers :
       task[e].pc = "readNode" /\ task[e].cur # None => ReadOK(e, task[e].cur)
  /\ DeliveredTruthfully

(* What a step may do to the run when it does not fail.                    *)
LEMMA CalmRun ==
  ASSUME Orderly, Calm, TypeInv, OrderlyInv, CalmInv, [Next]_vars
  PROVE  /\ status' # "failed" /\ alive' = Procs
         /\ status \in Over => status' = status /\ node' = node
<1>1. \A p \in Procs : ~Crash(p)
  <2>1. Procs \ alive = {}
    BY DEF CalmInv
  <2>2. Cardinality(Procs \ alive) = 0
    BY <2>1, FS_EmptySet
  <2> QED
    BY <2>2 DEF Crash, Calm
<1>2. \A t \in Tasks : ~FailCas(t)
  BY DEF FailCas, At, CalmInv, QuietOK
<1>3. ~Fail /\ ~Retry /\ "active" \notin Over
  BY DEF Fail, Retry, Calm, CalmInv, Over
<1> QED
  BY <1>1, <1>2, <1>3, RunSteps
  DEF RunStep, CalmInv, Park, Complete, Cancel, StoreOver, waitVars

LEMMA CalmQuiet ==
  ASSUME Orderly, Calm, TypeInv, OrderlyInv, CalmInv, [Next]_vars, NEW t \in Tasks
  PROVE  QuietOK(task'[t])
<1>1. QuietOK(task[t]) /\ status # "failed" /\ alive = Procs
  BY DEF CalmInv
<1>2. task'[t] = task[t] \/ Succ(t, task[t], task'[t])
  BY FollowedNext DEF Followed
<1>3. task[t].pc = "recover" => task[t].todo = {}
  <2>1. task[t].pc = "recover" => task[t].pass = "recovering"
    BY TaskFields DEF TaskOK
  <2> QED
    BY <1>1, <2>1 DEF OrderlyInv, RecoverInv, TodoOK
<1> QED
  BY <1>1, <1>2, <1>3 DEF QuietOK, Succ, Calm

LEMMA CalmRead ==
  ASSUME Orderly, Calm, TypeInv, MailInv, OrderlyInv, CalmInv, [Next]_vars,
         NEW e \in Publishers, NEW w \in Waits, ReadOK(e, w)
  PROVE  ReadOK(e, w)'
<1>1. CASE got[w] = e
  BY <1>1, OutcomeStep, NoneAssumption DEF ReadOK
<1>2. CASE status \in Over /\ node[NodeOf(w)].st # "completed"
  BY <1>2, CalmRun DEF ReadOK
<1>3. CASE claim[e] = w
  <2>0. w # None
    BY NoneAssumption
  <2>1. Placed(w, e)
    BY <1>3, <2>0 DEF OrderlyInv, ClaimInv
  <2>2. got[w] = e \/ node[NodeOf(w)].st # "completed"
    BY <2>1 DEF Placed, Open
  <2>3. CASE claim'[e] = w
    BY <2>3 DEF ReadOK
  <2>4. CASE Complete \/ Cancel
    <3>1. status' \in Over /\ node' = node /\ got' = got
      BY <2>4 DEF Complete, Cancel, StoreOver, Over
    <3> QED
      BY <2>2, <3>1 DEF ReadOK
  <2>5. ASSUME NEW t \in Tasks, Finalize(t), Cur(t) = w, Ev(t) = e
        PROVE  ReadOK(e, w)'
    <3>1. status' = status /\ node' = node /\ got' = got
      BY <2>5 DEF Finalize, SameRun
    <3>2. CASE At(t, "finalize")
      <4>1. task[t].pc \in Holding /\ HandOK(task[t])
        BY <3>2 DEF At, Holding, OrderlyInv, HandInv
      <4>2. got[w] = e
        BY <2>5, <3>2, <4>1, NoneAssumption DEF HandOK, At, Cur, Ev
      <4> QED
        BY <3>1, <4>2 DEF ReadOK
    <3>3. CASE At(t, "discard")
      <4>1. status \in Over
        BY <3>3 DEF At, OrderlyInv, HandInv, LabelOK
      <4> QED
        BY <2>2, <3>1, <4>1 DEF ReadOK
    <3> QED
      BY <2>5, <3>2, <3>3 DEF Finalize, At
  <2>6. \A t \in Tasks : task[t].pc \notin {"restore", "rollback"}
    BY DEF CalmInv, QuietOK
  <2> QED
    BY <1>3, <2>3, <2>4, <2>5, <2>6, ClaimSteps
<1> QED
  BY <1>1, <1>2, <1>3 DEF ReadOK

LEMMA CalmNext ==
  ASSUME Orderly, Calm, TypeInv, MailInv, OrderlyInv, CalmInv, [Next]_vars
  PROVE  CalmInv'
<1>1. ASSUME NEW e \in Publishers, task'[e].pc = "readNode", task'[e].cur # None
      PROVE  ReadOK(e, task[e].cur)'
  <2>1. e \in Tasks
    BY DEF Tasks
  <2>2. task'[e] = task[e] \/ task'[e].cur = claim[e]
    BY <1>1, <2>1, FollowedNext DEF Followed, Succ
  <2>3. task[e].cur \in Waits \cup {None} /\ claim[e] \in Waits \cup {None}
    BY <2>1, TaskFields, MailTypes DEF TaskState
  <2>4. PICK w \in Waits : w = task'[e].cur
    BY <1>1, <2>2, <2>3
  <2>5. ReadOK(e, w)
    BY <1>1, <2>2, <2>4 DEF CalmInv, ReadOK
  <2> QED
    BY <2>4, <2>5, CalmRead DEF ReadOK
<1>2. DeliveredTruthfully'
  <2> SUFFICES ASSUME NEW e \in Publishers, task[e].pc = "readNode",
                      task[e].cur # None,
                      node[NodeOf(task[e].cur)].st = "completed"
               PROVE  Landed(e)
    BY TruthfulStep DEF CalmInv
  <2>1. PICK w \in Waits : w = task[e].cur
    BY TaskFields DEF Tasks, TaskState
  <2>2. ReadOK(e, w)
    BY <2>1 DEF CalmInv
  <2>3. CASE claim[e] = w
    <3>1. Placed(w, e)
      BY <2>1, <2>3 DEF OrderlyInv, ClaimInv
    <3> QED
      BY <2>1, <3>1 DEF Placed, Open, Landed
  <2> QED
    BY <2>1, <2>2, <2>3 DEF ReadOK, Landed
<1> QED
  BY <1>1, <1>2, CalmRun, CalmQuiet DEF CalmInv, ReadOK

LEMMA AnswersInit ==
  ASSUME Init PROVE AloneInv /\ CalmInv
<1>1. /\ task = [t \in Tasks |-> Resting] /\ alive = Procs /\ status = "active"
      /\ node = [n \in Nodes |-> [st |-> "idle", inst |-> 1]]
  BY DEF Init, MailboxInit
<1>2. \A t \in Tasks : task[t].pc = "idle" /\ task[t].goal = None
                       /\ task[t].out = "none"
  BY <1>1 DEF Resting
<1>3. \A w \in Waits : node[NodeOf(w)].st = "idle"
  BY <1>1 DEF Waits, NodeOf
<1>4. \A e \in Publishers : e \in Tasks
  BY DEF Tasks
<1> QED
  BY <1>1, <1>2, <1>3, <1>4 DEF AloneInv, CalmInv, QuietOK, DeliveredTruthfully

(* publishEvent answers "delivered" only for an event that is the output   *)
(* of a wait node (hasCommittedEventDelivery reads the claim and then, in  *)
(* a second call, its node): in orderly executions with one publication,   *)
(* also when a process dies or the run fails in between, and in those with *)
(* any number of publications where neither happens.                       *)
THEOREM AnswersTruthful ==
  ASSUME Orderly, Alone \/ Calm PROVE Spec => []DeliveredTruthfully
<1>1. Init => AloneInv /\ CalmInv
  BY AnswersInit
<1>2. CASE Alone
  <2>1. TypeInv /\ MailInv /\ OrderlyInv /\ AloneInv /\ [Next]_vars => AloneInv'
    BY <1>2, AloneNext
  <2>2. AloneInv => DeliveredTruthfully
    BY DEF AloneInv
  <2> QED
    BY <1>1, <2>1, <2>2, OrderlyAlways, PTL DEF Spec
<1>3. CASE Calm
  <2>1. TypeInv /\ MailInv /\ OrderlyInv /\ CalmInv /\ [Next]_vars => CalmInv'
    BY <1>3, CalmNext
  <2>2. CalmInv => DeliveredTruthfully
    BY DEF CalmInv
  <2> QED
    BY <1>1, <2>1, <2>2, OrderlyAlways, PTL DEF Spec
<1> QED
  BY <1>2, <1>3
=============================================================================
