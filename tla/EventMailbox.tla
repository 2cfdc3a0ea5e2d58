--------------------------- MODULE EventMailbox ---------------------------
(***************************************************************************)
(* The durable side of event waits of ONE workflow run: the run's status   *)
(* and wait nodes, one record per execution of a wait node, the mailbox    *)
(* of published events, delivery claims and receipts.  Every operator is   *)
(* one atomic call of the backend.                                         *)
(*                                                                         *)
(* All event waits listen for the same event name: names only partition    *)
(* the mailbox.  Time is what the code compares it with: the common        *)
(* deadline of the timed waits has passed (due), an event was published    *)
(* by then (onTime), and the age of a claim.                               *)
(***************************************************************************)
EXTENDS Naturals, Sequences, FiniteSets, SequencesExt

CONSTANTS
  Nodes,        \* wait nodes of the run
  Delays,       \* the wait nodes that are delays
  Timed,        \* the wait nodes with a deadline
  Publishers,   \* calls of publishEvent; e also names the envelope of call e
  Capacity,     \* MAX_WORKFLOW_RUN_EVENT_MAILBOX_ENTRIES
  MaxRetries,   \* bound on retries of the run
  None

ASSUME MailboxAssumption ==
  /\ Delays \subseteq Timed /\ Timed \subseteq Nodes
  /\ Capacity \in Nat /\ MaxRetries \in Nat
  /\ IsFiniteSet(Publishers)

VARIABLES
  status,    \* run.status; pending, running and waiting are "active"
  node,      \* state and instance of every wait node
  rec,       \* the wait record of every execution of a wait node
  got,       \* the event whose payload is the output of that execution
  mailbox,   \* buffered events, oldest first
  order,     \* _publicationOrder of every event; 0 before it is appended
  claim,     \* delivery claims: the record an event is claimed for
  receipts,  \* events with a durable delivery receipt
  due,       \* the deadline has passed
  onTime     \* events published by the deadline

mailVars == <<status, node, rec, got, mailbox, order, claim, receipts, due,
              onTime>>

Over == {"completed", "cancelled"}

Instances == 1..(MaxRetries + 1)

(* The wait id: a node and the instance (_waitInstanceId) of its execution *)
Waits == Nodes \X Instances
NodeOf(w) == w[1]

ASSUME NoneAssumption == None \notin Publishers \cup Waits

(* Ages of a claim: younger and older than the recovery delay, then with a *)
(* recovery reservation that is younger and older than its lease.          *)
Ages == {"none", "new", "due", "reserved", "lapsed"}

NoRecord == [st |-> "none", ev |-> None, age |-> "none"]

MailboxTypeOK ==
  /\ status \in {"active", "failed"} \cup Over
  /\ node \in [Nodes -> [st : {"idle", "running", "completed", "failed"},
                         inst : Instances]]
  /\ rec \in [Waits -> [st : {"none", "pending", "delivered", "expired",
                              "cancelled"},
                        ev : Publishers \cup {None}, age : Ages]]
  /\ got \in [Waits -> Publishers \cup {None}]
  /\ mailbox \in Seq(Publishers)
  /\ order \in [Publishers -> 0..Cardinality(Publishers)]
  /\ claim \in [Publishers -> Waits \cup {None}]
  /\ receipts \subseteq Publishers
  /\ due \in BOOLEAN /\ onTime \subseteq Publishers

MailboxInit ==
  /\ status = "active"
  /\ node = [n \in Nodes |-> [st |-> "idle", inst |-> 1]]
  /\ rec = [w \in Waits |-> NoRecord]
  /\ got = [w \in Waits |-> None]
  /\ mailbox = <<>>
  /\ order = [e \in Publishers |-> 0]
  /\ claim = [e \in Publishers |-> None]
  /\ receipts = {}
  /\ due = FALSE /\ onTime = {}

---------------------------------------------------------------------------
(* The wait record is of the execution the node is in now.                 *)
CurrentExecution(w) == node[NodeOf(w)].inst = w[2]

Claims == {e \in Publishers : claim[e] # None}

Buffered(e) == e \in Range(mailbox)

(* A claim of a deadline that is not finalized.                            *)
TimedClaim(w) ==
  /\ rec[w].age # "none"
  /\ \/ NodeOf(w) \in Delays /\ rec[w].st = "delivered"
     \/ NodeOf(w) \notin Delays /\ rec[w].st = "expired"

(* A record that a new wait of the same execution would duplicate.         *)
LiveRecord(w) == rec[w].st = "pending" \/ rec[w].ev # None \/ TimedClaim(w)

(* publishedBefore: an untimed wait takes any event.                       *)
InTime(w, e) == NodeOf(w) \in Timed => e \in onTime

Takeable(w) == {i \in DOMAIN mailbox : InTime(w, mailbox[i])}

Oldest(positions) == CHOOSE i \in positions : \A j \in positions : i <= j

\* Seeded fault: the event returns to the head of the mailbox.
PutBackFirst(e) == <<e>> \o mailbox

(* restoreRetainedRunEvent: before the first event published later.        *)
PutBack(e) ==
  LET later == {i \in DOMAIN mailbox : order[mailbox[i]] > order[e]}
  IN  InsertAt(mailbox,
               IF later = {} THEN Len(mailbox) + 1 ELSE Oldest(later), e)

(* removeRunEvent: the entry found first, if there is one.                 *)
Without(e) ==
  LET entries == {i \in DOMAIN mailbox : mailbox[i] = e}
  IN  IF entries = {} THEN mailbox ELSE RemoveAt(mailbox, Oldest(entries))

---------------------------------------------------------------------------
(* The calls.  Each assigns rec, mailbox, claim and receipts.              *)

Append1(e) ==
  /\ Len(mailbox) + Cardinality(Claims) < Capacity
  /\ mailbox' = Append(mailbox, e)
  /\ order' = [order EXCEPT ![e] =
                 1 + Cardinality({x \in Publishers : order[x] > 0})]
  /\ UNCHANGED <<rec, claim, receipts>>

\* Seeded fault: the wait is not marked together with the removal.
ClaimEventUnmarked(w) ==
  /\ rec[w].st = "pending" /\ Takeable(w) # {}
  /\ LET i == Oldest(Takeable(w)) IN
       /\ mailbox' = RemoveAt(mailbox, i)
       /\ claim' = [claim EXCEPT ![mailbox[i]] = w]
  /\ UNCHANGED <<rec, receipts>>

(* claimRunEventForWait: the oldest event and the pending wait at once.    *)
ClaimEvent(w) ==
  /\ rec[w].st = "pending" /\ Takeable(w) # {}
  /\ LET i == Oldest(Takeable(w)) IN
       /\ mailbox' = RemoveAt(mailbox, i)
       /\ claim' = [claim EXCEPT ![mailbox[i]] = w]
       /\ rec' = [rec EXCEPT ![w] = [st |-> "delivered", ev |-> mailbox[i],
                                     age |-> "new"]]
  /\ UNCHANGED receipts

(* A claimed record back to pending; any other record stays as it is.      *)
Reopened(w) ==
  IF rec[w].st \in {"delivered", "expired"}
  THEN [st |-> "pending", ev |-> None, age |-> "none"] ELSE rec[w]

\* Seeded fault: the claim is dropped and the event with it.
RestoreDeliveryLossy(w, e) ==
  /\ rec' = IF claim[e] = w THEN [rec EXCEPT ![w] = Reopened(w)] ELSE rec
  /\ claim' = IF claim[e] = w THEN [claim EXCEPT ![e] = None] ELSE claim
  /\ UNCHANGED <<mailbox, receipts>>

(* restoreRunEventDelivery: wait and event go back in one step, if the     *)
(* claim is still there.                                                   *)
RestoreDelivery(w, e) ==
  IF claim[e] # w THEN UNCHANGED <<rec, mailbox, claim, receipts>>
  ELSE /\ rec' = [rec EXCEPT ![w] = Reopened(w)]
       /\ mailbox' = PutBack(e)
       /\ claim' = [claim EXCEPT ![e] = None]
       /\ UNCHANGED receipts

(* finalizeRunEventDelivery                                                *)
FinalizeDelivery(e, delivered) ==
  IF claim[e] = None THEN UNCHANGED <<rec, mailbox, claim, receipts>>
  ELSE /\ rec' = [rec EXCEPT ![claim[e]].ev = None, ![claim[e]].age = "none"]
       /\ receipts' = IF delivered THEN receipts \cup {e} ELSE receipts
       /\ claim' = [claim EXCEPT ![e] = None]
       /\ UNCHANGED mailbox

(* reserve...Claim: refused while another reservation is within its lease. *)
Reservable(w, e) ==
  /\ rec[w].age # "reserved"
  /\ IF e = None THEN TimedClaim(w) ELSE claim[e] = w

ResolveRecord(w, st) ==
  rec' = [rec EXCEPT ![w].st = st,
                     ![w].age = IF st = "cancelled" THEN @ ELSE "new"]

RestoreRecord(w) == rec' = [rec EXCEPT ![w] = Reopened(w)]

FinalizeTimed(w) == rec' = [rec EXCEPT ![w].age = "none"]

(* storeRunUpdate: the mail of a run that is over is dropped.  Completion  *)
(* first turns the claims of completed nodes into receipts.                *)
StoreOver(s) ==
  LET settled == IF s = "completed" THEN Claims ELSE {}
  IN  /\ status' = s
      /\ rec' = [w \in Waits |->
                   IF \E e \in settled : claim[e] = w
                   THEN [rec[w] EXCEPT !.ev = None, !.age = "none"]
                   ELSE rec[w]]
      /\ receipts' = receipts \cup
           {e \in settled : node[NodeOf(claim[e])].st = "completed"}
      /\ mailbox' = <<>>
      /\ claim' = [e \in Publishers |-> None]

===========================================================================
