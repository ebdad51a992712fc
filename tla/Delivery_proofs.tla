--------------------------- MODULE Delivery_proofs ---------------------------
(***************************************************************************)
(* Events on their way, for any number of services, operations, clients and *)
(* faults, and any size of batch, channel and buffer: the transactional    *)
(* outbox, the flow of sales to inventory that rests on it, and the        *)
(* notification hub.                                                       *)
(*                                                                         *)
(* The two properties of `table` are nearly inductive.  PublishedWasSent is *)
(* not: a Runner marks the row in its hand because it has just sent it, so *)
(* the invariant must say that a Runner about to mark holds a row that was *)
(* sent, and that this stays so while transactions stamp new rows: a batch *)
(* holds committed rows only, and a committed row is never stamped again.  *)
(*                                                                         *)
(* Stock moves only for committed sales: what inventory is given was sent, *)
(* what was sent belongs to a committed row, and a committed row stays.    *)
(*                                                                         *)
(* The hub: PanicNeedsOverflow and LossesAreLogged, each with the invariant  *)
(* it needs, in the second half.                                           *)
(***************************************************************************)
EXTENDS SaleFlow, NotifyHub, SequenceTheorems, TLAPS

(* Whatever was sent, and whatever a Runner still has to deal with, is a    *)
(* committed row.                                                           *)
OnlyCommitted ==
  /\ \A r \in Rows : sent[r] > 0 => r \in table
  /\ \A s \in Services : todo[s] \subseteq table

(* A Runner that is about to mark has sent the row in its hand.             *)
MarkedWasSent ==
  \A s \in Services : pc[s] = "mark" => \A r \in InHand(s) : sent[r] > 0

IInv ==
  /\ TypeOK
  /\ RowIffBusiness
  /\ OnlyCommitted
  /\ PublishedWasSent
  /\ MarkedWasSent

-----------------------------------------------------------------------------
(* RowID (outbox.go) keeps the service and the op_id: two operations share  *)
(* a key only when they are the same operation.                             *)
LEMMA RowIDInjective ==
  ASSUME NEW t, NEW u, RowID(t) = RowID(u)
  PROVE  t = u
BY DEF RowID

(* Counting up to the bound stays within it and never forgets a copy.       *)
LEMMA CountProperties ==
  ASSUME NEW n \in 0..MaxSends
  PROVE  Count(n) \in 0..MaxSends /\ Count(n) > 0 /\ Count(n) >= n
BY OutboxAssumption DEF Count

(* The loop of RunOnce has one row in its hand at a time.                   *)
LEMMA OneRowInHand ==
  ASSUME TypeOK, NEW s \in Services, NEW r \in InHand(s), NEW q \in InHand(s)
  PROVE  r = q
<1>1. SUFFICES ASSUME r # q PROVE FALSE
  OBVIOUS
<1>2. r \in Rows /\ q \in Rows
  BY DEF InHand, TypeOK
<1>3. Before(r, q) /\ Before(q, r)
  BY <1>1 DEF InHand
<1>4. createdAt[r] \in Nat /\ createdAt[q] \in Nat
  BY <1>2 DEF TypeOK
<1> QED
  BY <1>3, <1>4 DEF Before

-----------------------------------------------------------------------------
(* The empty table satisfies the invariant.                                 *)
LEMMA InitIInv == Init => IInv
<1> SUFFICES ASSUME Init PROVE IInv
  OBVIOUS
<1>1. TypeOK
  BY OutboxAssumption DEF Init, TypeOK
<1>2. RowIffBusiness
  BY DEF Init, RowIffBusiness
<1>3. OnlyCommitted /\ PublishedWasSent /\ MarkedWasSent
  BY DEF Init, OnlyCommitted, PublishedWasSent, MarkedWasSent
<1> QED
  BY <1>1, <1>2, <1>3 DEF IInv

-----------------------------------------------------------------------------
(* A transaction that begins stamps no committed row, so the row in hand of *)
(* every Runner stays the one it was.                                       *)
LEMMA EnqueueKeepsIInv ==
  ASSUME IInv, NEW t \in Tx, Enqueue(t)
  PROVE  IInv'
<1> USE DEF IInv
<1>0. RowID(t) \in Rows
  BY DEF Rows
<1>1. TypeOK'
  BY <1>0 DEF TypeOK, Enqueue, runnerVars
<1>2. RowIffBusiness'
  BY DEF RowIffBusiness, Enqueue
<1>3. (OnlyCommitted /\ PublishedWasSent)'
  BY DEF OnlyCommitted, PublishedWasSent, Enqueue, runnerVars
<1>4. MarkedWasSent'
  <2>1. \A r \in table : createdAt'[r] = createdAt[r]
    BY DEF Enqueue, TypeOK
  <2>2. \A s \in Services : InHand(s)' = InHand(s)
    BY <2>1 DEF Enqueue, runnerVars, OnlyCommitted, InHand, Before
  <2> QED
    BY <2>2 DEF MarkedWasSent, Enqueue, runnerVars
<1> QED
  BY <1>1, <1>2, <1>3, <1>4

(* Commit: business row and outbox row appear together.                     *)
LEMMA CommitKeepsIInv ==
  ASSUME IInv, NEW t \in Tx, Commit(t)
  PROVE  IInv'
<1> USE DEF IInv
<1>1. TypeOK'
  BY DEF TypeOK, Commit, Rows, runnerVars
<1>2. RowIffBusiness'
  BY DEF RowIffBusiness, Commit
<1>3. (OnlyCommitted /\ PublishedWasSent)'
  BY DEF OnlyCommitted, PublishedWasSent, Commit, runnerVars
<1>4. MarkedWasSent'
  BY DEF MarkedWasSent, Commit, runnerVars, InHand, Before
<1> QED
  BY <1>1, <1>2, <1>3, <1>4

(* Rollback: both rows vanish, and no Runner had seen them.                 *)
LEMMA RollbackKeepsIInv ==
  ASSUME IInv, NEW t \in Tx, Rollback(t)
  PROVE  IInv'
<1> USE DEF IInv
<1>1. TypeOK'
  BY OutboxAssumption DEF TypeOK, Rollback, Fault, runnerVars
<1>2. (RowIffBusiness /\ OnlyCommitted /\ PublishedWasSent)'
  BY DEF RowIffBusiness, OnlyCommitted, PublishedWasSent, Rollback, runnerVars
<1>3. MarkedWasSent'
  BY DEF MarkedWasSent, Rollback, runnerVars, InHand, Before
<1> QED
  BY <1>1, <1>2, <1>3

-----------------------------------------------------------------------------
(* Poll: a Runner takes committed rows only.                                *)
LEMMA PollKeepsIInv ==
  ASSUME IInv, NEW s \in Services, Poll(s)
  PROVE  IInv'
<1> USE DEF IInv
<1>0. Batch \subseteq table
  BY DEF Batch, Pending
<1>1. TypeOK'
  BY <1>0 DEF TypeOK, Poll, txVars
<1>2. (RowIffBusiness /\ PublishedWasSent)'
  BY DEF RowIffBusiness, PublishedWasSent, Poll, txVars
<1>3. OnlyCommitted'
  BY <1>0 DEF OnlyCommitted, Poll, txVars, TypeOK
<1>4. MarkedWasSent'
  <2> SUFFICES ASSUME NEW v \in Services, pc'[v] = "mark", NEW r \in InHand(v)'
               PROVE  sent'[r] > 0
    BY DEF MarkedWasSent
  <2>1. v # s
    BY DEF Poll, TypeOK
  <2>2. pc[v] = "mark" /\ r \in InHand(v)
    BY <2>1 DEF Poll, TypeOK, InHand, Before, txVars
  <2> QED
    BY <2>2 DEF MarkedWasSent, Poll
<1> QED
  BY <1>1, <1>2, <1>3, <1>4

(* The step that brings a Runner to "mark": it has just sent its one row.   *)
LEMMA PublishOKKeepsIInv ==
  ASSUME IInv, NEW s \in Services, PublishOK(s)
  PROVE  IInv'
<1> USE DEF IInv
<1> PICK r \in InHand(s) \ Poison : sent' = [sent EXCEPT ![r] = Count(@)]
  BY DEF PublishOK
<1>0. r \in Rows /\ r \in table
  BY DEF InHand, TypeOK, OnlyCommitted
<1>1. /\ sent' \in [Rows -> 0..MaxSends]
      /\ sent'[r] > 0
      /\ \A q \in Rows \ {r} : sent'[q] = sent[q]
  BY <1>0, CountProperties DEF TypeOK
<1>2. TypeOK'
  BY <1>1 DEF TypeOK, PublishOK, txVars
<1>3. RowIffBusiness'
  BY DEF RowIffBusiness, PublishOK, txVars
<1>4. (OnlyCommitted /\ PublishedWasSent)'
  BY <1>0, <1>1 DEF OnlyCommitted, PublishedWasSent, PublishOK, txVars, TypeOK
<1>5. MarkedWasSent'
  <2> SUFFICES ASSUME NEW v \in Services, pc'[v] = "mark", NEW q \in InHand(v)'
               PROVE  sent'[q] > 0
    BY DEF MarkedWasSent
  <2>1. q \in InHand(v) /\ q \in Rows
    BY DEF PublishOK, InHand, Before, txVars, TypeOK
  <2>2. CASE v = s
    BY <2>1, <2>2, <1>1, OneRowInHand
  <2>3. CASE v # s
    <3>1. sent[q] > 0
      BY <2>1, <2>3 DEF PublishOK, MarkedWasSent, TypeOK
    <3> QED
      BY <3>1, <2>1, <1>1
  <2> QED
    BY <2>2, <2>3
<1> QED
  BY <1>2, <1>3, <1>4, <1>5

-----------------------------------------------------------------------------
(* What going on to the next row of the batch does: the Runner is not about *)
(* to mark, and nobody else notices.                                        *)
LEMMA ContinueKeeps ==
  ASSUME IInv, NEW s \in Services, NEW r \in InHand(s), Continue(s, r),
         UNCHANGED txVars,
         sent' \in [Rows -> 0..MaxSends], \A q \in Rows : sent'[q] >= sent[q]
  PROVE  /\ pc' \in [Services -> {"idle", "publish", "mark"}]
         /\ todo' \in [Services -> SUBSET Rows]
         /\ \A v \in Services : todo'[v] \subseteq table
         /\ MarkedWasSent'
<1> USE DEF IInv
<1>1. NextPC(todo[s] \ {r}) \in {"idle", "publish"}
  BY DEF NextPC
<1>2. pc' \in [Services -> {"idle", "publish", "mark"}]
  BY <1>1 DEF Continue, TypeOK
<1>3. /\ todo' \in [Services -> SUBSET Rows]
      /\ \A v \in Services : todo'[v] \subseteq table
  BY DEF Continue, TypeOK, OnlyCommitted
<1>4. MarkedWasSent'
  <2> SUFFICES ASSUME NEW v \in Services, pc'[v] = "mark", NEW q \in InHand(v)'
               PROVE  sent'[q] > 0
    BY DEF MarkedWasSent
  <2>1. v # s
    BY <1>1 DEF Continue, TypeOK
  <2>2. pc[v] = "mark" /\ q \in InHand(v) /\ q \in Rows
    BY <2>1 DEF Continue, InHand, Before, txVars, TypeOK
  <2>3. sent[q] > 0
    BY <2>2 DEF MarkedWasSent
  <2> QED
    BY <2>2, <2>3 DEF TypeOK
<1> QED
  BY <1>2, <1>3, <1>4

(* PublishFail: the row stays unpublished, sent or not.                     *)
LEMMA PublishFailKeepsIInv ==
  ASSUME IInv, NEW s \in Services, PublishFail(s)
  PROVE  IInv'
<1> USE DEF IInv
<1> PICK r \in InHand(s) :
      /\ \/ /\ r \in Poison
            /\ UNCHANGED <<sent, faults>>
         \/ /\ r \notin Poison
            /\ Fault
            /\ sent' \in {sent, [sent EXCEPT ![r] = Count(@)]}
      /\ Continue(s, r)
  BY DEF PublishFail
<1>0. r \in Rows /\ r \in table
  BY DEF InHand, TypeOK, OnlyCommitted
<1>1. /\ sent' \in [Rows -> 0..MaxSends]
      /\ \A q \in Rows : sent'[q] >= sent[q]
      /\ \A q \in Rows \ {r} : sent'[q] = sent[q]
  BY <1>0, CountProperties DEF TypeOK
<1>2. UNCHANGED <<txVars, published>>
  BY DEF PublishFail
<1>3. /\ pc' \in [Services -> {"idle", "publish", "mark"}]
      /\ todo' \in [Services -> SUBSET Rows]
      /\ \A v \in Services : todo'[v] \subseteq table
      /\ MarkedWasSent'
  BY <1>1, <1>2, ContinueKeeps
<1>4. TypeOK'
  BY <1>1, <1>2, <1>3, OutboxAssumption DEF TypeOK, txVars, Fault
<1>5. RowIffBusiness'
  BY <1>2 DEF RowIffBusiness, txVars
<1>6. (OnlyCommitted /\ PublishedWasSent)'
  BY <1>0, <1>1, <1>2, <1>3 DEF OnlyCommitted, PublishedWasSent, txVars, TypeOK
<1> QED
  BY <1>3, <1>4, <1>5, <1>6

(* The step PublishedWasSent is about.                                      *)
LEMMA MarkKeepsIInv ==
  ASSUME IInv, NEW s \in Services, Mark(s)
  PROVE  IInv'
<1> USE DEF IInv
<1> PICK r \in InHand(s) :
      /\ \/ published' = published \union {r} /\ UNCHANGED faults
         \/ Fault /\ UNCHANGED published
      /\ Continue(s, r)
  BY DEF Mark
<1>0. r \in Rows /\ sent[r] > 0
  BY DEF InHand, TypeOK, Mark, MarkedWasSent
<1>1. UNCHANGED <<txVars, sent>>
  BY DEF Mark
<1>2. /\ pc' \in [Services -> {"idle", "publish", "mark"}]
      /\ todo' \in [Services -> SUBSET Rows]
      /\ \A v \in Services : todo'[v] \subseteq table
      /\ MarkedWasSent'
  <2>1. sent' \in [Rows -> 0..MaxSends] /\ \A q \in Rows : sent'[q] >= sent[q]
    BY <1>1 DEF TypeOK
  <2> QED
    BY <1>1, <2>1, ContinueKeeps
<1>3. TypeOK'
  BY <1>0, <1>1, <1>2, OutboxAssumption DEF TypeOK, txVars, Fault
<1>4. RowIffBusiness'
  BY <1>1 DEF RowIffBusiness, txVars
<1>5. (OnlyCommitted /\ PublishedWasSent)'
  BY <1>0, <1>1, <1>2 DEF OnlyCommitted, PublishedWasSent, txVars
<1> QED
  BY <1>2, <1>3, <1>4, <1>5

(* Crash: the Runner forgets its batch, the table does not.                 *)
LEMMA CrashKeepsIInv ==
  ASSUME IInv, NEW s \in Services, Crash(s)
  PROVE  IInv'
<1> USE DEF IInv
<1>1. TypeOK'
  BY OutboxAssumption DEF TypeOK, Crash, Fault, txVars
<1>2. (RowIffBusiness /\ OnlyCommitted /\ PublishedWasSent)'
  BY DEF RowIffBusiness, OnlyCommitted, PublishedWasSent, Crash, txVars, TypeOK
<1>3. MarkedWasSent'
  BY DEF MarkedWasSent, Crash, txVars, InHand, Before, TypeOK
<1> QED
  BY <1>1, <1>2, <1>3

-----------------------------------------------------------------------------
(* Every step keeps the invariant.                                          *)
LEMMA NextIInv == IInv /\ [Next]_vars => IInv'
<1> SUFFICES ASSUME IInv, [Next]_vars PROVE IInv'
  OBVIOUS
<1>1. CASE \E t \in Tx : Enqueue(t) \/ Commit(t) \/ Rollback(t)
  BY <1>1, EnqueueKeepsIInv, CommitKeepsIInv, RollbackKeepsIInv
<1>2. CASE \E s \in Services : RunnerStep(s) \/ Crash(s)
  BY <1>2, PollKeepsIInv, PublishOKKeepsIInv, PublishFailKeepsIInv, MarkKeepsIInv,
     CrashKeepsIInv DEF RunnerStep
<1>3. CASE UNCHANGED vars
  BY <1>3 DEF IInv, TypeOK, RowIffBusiness, OnlyCommitted, PublishedWasSent, MarkedWasSent,
     InHand, Before, vars, txVars, runnerVars
<1> QED
  BY <1>1, <1>2, <1>3 DEF Next

(* The invariant of the package, from the behaviour of Enqueue, of the      *)
(* transactions around it and of two Runners on one table.                  *)
THEOREM Invariance == Spec => []IInv
<1> QED
  BY InitIInv, NextIInv, PTL DEF Spec

(* The variables keep their types: no counter leaves its bound and no       *)
(* Runner fetches anything but rows.                                        *)
THEOREM TypeCorrect == Spec => []TypeOK
<1>1. IInv => TypeOK
  BY DEF IInv
<1> QED
  BY <1>1, Invariance, PTL

(* Contract 1 of outbox.go: the outbox row exists exactly when the business *)
(* row does.                                                                *)
THEOREM RowStandsWithBusiness == Spec => []RowIffBusiness
<1>1. IInv => RowIffBusiness
  BY DEF IInv
<1> QED
  BY <1>1, Invariance, PTL

(* The bus carries no event of an operation that did not commit.            *)
THEOREM NoEventWithoutBusiness == Spec => []NoPhantomEvent
<1>1. IInv => NoPhantomEvent
  BY DEF IInv, OnlyCommitted, RowIffBusiness, NoPhantomEvent
<1> QED
  BY <1>1, Invariance, PTL

(* deliver of runner.go: a row is marked published only when the broker has *)
(* accepted it.                                                             *)
THEOREM MarkedOnlyWhenSent == Spec => []PublishedWasSent
<1>1. IInv => PublishedWasSent
  BY DEF IInv
<1> QED
  BY <1>1, Invariance, PTL

(* The namespaced key of RowID is taken only by the operation itself.       *)
THEOREM KeysAreApart == Spec => []KeyTakenOnlyByItself
<1>1. IInv => KeyTakenOnlyByItself
  <2> SUFFICES ASSUME IInv, NEW t \in Tx, RowID(t) \in table PROVE t \in business
    BY DEF KeyTakenOnlyByItself
  <2>1. PICK u \in business : RowID(u) = RowID(t)
    BY DEF IInv, RowIffBusiness
  <2> QED
    BY <2>1, RowIDInjective
<1> QED
  BY <1>1, Invariance, PTL

-----------------------------------------------------------------------------
(* Stock follows sales.                                                     *)

(* The part of the flow that is the outbox goes by the outbox's rules.      *)
LEMMA FlowIsOutbox == FlowSpec => Spec
<1>1. FlowInit => Init
  BY DEF FlowInit
<1>2. [FlowNext]_flowVars => [Next]_vars
  BY DEF FlowNext, flowVars, Deliver
<1> QED
  BY <1>1, <1>2, PTL DEF FlowSpec, Spec

(* No step of the outbox takes a committed operation back.                  *)
LEMMA BusinessStays == [Next]_vars => business \subseteq business'
BY DEF Next, vars, txVars, Enqueue, Commit, Rollback, RunnerStep, Poll, PublishOK, PublishFail,
       Mark, Crash

(* One step: a sale that is applied now was sent, so it is committed.       *)
LEMMA ApplyKeeps ==
  ASSUME NoStockWithoutSale, NoPhantomEvent, [FlowNext]_flowVars
  PROVE  NoStockWithoutSale'
<1>1. business \subseteq business'
  <2>1. [Next]_vars
    BY DEF FlowNext, flowVars, Deliver
  <2> QED
    BY <2>1, BusinessStays
<1>2. CASE UNCHANGED applied
  BY <1>1, <1>2 DEF NoStockWithoutSale
<1>3. ASSUME NEW t \in Sales, Deliver(t)
      PROVE  NoStockWithoutSale'
  <2>1. applied' = applied \union {t}
    BY <1>3 DEF Deliver, Ledger!Apply
  <2>2. t \in business
    BY <1>3, FlowAssumption DEF Deliver, NoPhantomEvent, RowID, Rows
  <2> QED
    BY <1>1, <2>1, <2>2 DEF NoStockWithoutSale
<1> QED
  BY <1>2, <1>3 DEF FlowNext, flowVars, ledgerVars

(* Whatever rolls back, fails or is sent twice, the stock moves for no sale *)
(* that was not committed.                                                  *)
THEOREM StockIsSold == FlowSpec => []NoStockWithoutSale
<1>1. FlowInit => NoStockWithoutSale
  BY DEF FlowInit, NoStockWithoutSale, Ledger!Init
<1>2. NoStockWithoutSale /\ NoPhantomEvent /\ [FlowNext]_flowVars => NoStockWithoutSale'
  BY ApplyKeeps
<1> QED
  BY <1>1, <1>2, FlowIsOutbox, NoEventWithoutBusiness, PTL DEF FlowSpec


-----------------------------------------------------------------------------
(* What kills the hub.                                                      *)
(*                                                                          *)
(* The step that panics lies two steps after the one that looked, so the    *)
(* property is not inductive: PanicInv says what is known of the client in  *)
(* between.  While the hub holds a client it cannot take up a leaving one   *)
(* or shut down, and those are the only places that close a client without  *)
(* the unregister channel being full.                                       *)

(* A client found open is held only while an event is sent.                 *)
HeldWhileSending == current # None => hub = "send"

(* It was closed since only by somebody who found the channel full.         *)
ClosedByOverflow == current # None /\ current \in closed => overflow # {}

PanicInv == HeldWhileSending /\ ClosedByOverflow /\ PanicOnlyByOverflow

-----------------------------------------------------------------------------
LEMMA InitPanicInv == HubInit => PanicInv
BY DEF HubInit, PanicInv, HeldWhileSending, ClosedByOverflow, PanicOnlyByOverflow

(* Leaving through the channel closes nobody.                               *)
LEMMA UnregisterCloses ==
  ASSUME NEW c, unregisterClient(c)
  PROVE  /\ overflow \subseteq overflow'
         /\ closed' = closed \/ overflow' # {}
BY DEF unregisterClient

LEMMA PutCloses ==
  ASSUME NEW c, NEW e, Put(c, e)
  PROVE  /\ overflow \subseteq overflow'
         /\ closed' = closed \/ overflow' # {}
BY UnregisterCloses DEF Put

(* Steps that leave the hub where it is and close nobody, unless the        *)
(* channel is full.                                                         *)
LEMMA OthersKeepPanicInv ==
  ASSUME PanicInv, UNCHANGED <<hub, current>>, overflow \subseteq overflow',
         closed' = closed \/ overflow' # {}
  PROVE  PanicInv'
BY DEF PanicInv, HeldWhileSending, ClosedByOverflow, PanicOnlyByOverflow

LEMMA ClientPanicInv ==
  ASSUME PanicInv, NEW c \in Clients, ClientStep(c) \/ RegisterClient(c) \/ Break(c)
  PROVE  PanicInv'
<1>1. UNCHANGED <<hub, current>>
  BY DEF ClientStep, SendWelcome, PutWelcome, ReadPump, Write, EndWrite, RegisterClient, Break, sending
<1>2. /\ overflow \subseteq overflow'
      /\ closed' = closed \/ overflow' # {}
  <2>1. CASE PutWelcome(c)
    BY <2>1, PutCloses DEF PutWelcome
  <2>2. CASE ReadPump(c)
    BY <2>2, UnregisterCloses DEF ReadPump
  <2>3. CASE SendWelcome(c) \/ Write(c) \/ EndWrite(c) \/ RegisterClient(c) \/ Break(c)
    BY <2>3 DEF SendWelcome, Write, EndWrite, RegisterClient, Break, history
  <2> QED
    BY <2>1, <2>2, <2>3 DEF ClientStep
<1> QED
  BY <1>1, <1>2, OthersKeepPanicInv

(* Between two events the hub holds no client, so whoever it closes then    *)
(* was not found open before.                                               *)
LEMMA SelectPanicInv ==
  ASSUME PanicInv, TakeRegister \/ TakeUnregister \/ TakeBroadcast \/ Shutdown
  PROVE  PanicInv'
<1>1. hub = "select" /\ current = None
  BY DEF PanicInv, HeldWhileSending, TakeRegister, TakeUnregister, TakeBroadcast, Shutdown
<1>2. current' = None /\ hub' # "panic"
  BY <1>1 DEF TakeRegister, TakeUnregister, TakeBroadcast, Shutdown, sending
<1> QED
  BY <1>2 DEF PanicInv, HeldWhileSending, ClosedByOverflow, PanicOnlyByOverflow

LEMMA SendPanicInv ==
  ASSUME PanicInv, PutEvent \/ EndSend \/ \E c \in Clients : LookClosed(c)
  PROVE  PanicInv'
<1> USE DEF PanicInv, HeldWhileSending, ClosedByOverflow, PanicOnlyByOverflow
<1>1. CASE PutEvent
  <2>1. current' = None
    BY <1>1 DEF PutEvent
  <2>2. hub' = "panic" => overflow' # {}
    <3>1. CASE current \in closed /\ UNCHANGED overflow
      BY <1>1, <3>1 DEF PutEvent
    <3>2. CASE UNCHANGED hub
      BY <1>1, <3>2 DEF PutEvent
    <3> QED
      BY <1>1, <3>1, <3>2 DEF PutEvent
  <2> QED
    BY <2>1, <2>2
<1>2. CASE EndSend
  BY <1>2 DEF EndSend, history
<1>3. ASSUME NEW c \in Clients, LookClosed(c) PROVE PanicInv'
  BY <1>3 DEF LookClosed, history
<1> QED
  BY <1>1, <1>2, <1>3

LEMMA StepPanicInv == PanicInv /\ [HubNext]_hubVars => PanicInv'
<1> SUFFICES ASSUME PanicInv, [HubNext]_hubVars PROVE PanicInv'
  OBVIOUS
<1>1. CASE HubStep \/ Shutdown
  BY <1>1, SelectPanicInv, SendPanicInv DEF HubStep
<1>2. ASSUME NEW c \in Clients, ClientStep(c) \/ RegisterClient(c) \/ Break(c) PROVE PanicInv'
  BY <1>2, ClientPanicInv
<1>3. ASSUME NEW env \in Envelopes, Publish(env) PROVE PanicInv'
  BY <1>3, OthersKeepPanicInv DEF Publish, sending, history
<1>4. CASE UNCHANGED hubVars
  BY <1>4, OthersKeepPanicInv DEF hubVars, sending, history
<1> QED
  BY <1>1, <1>2, <1>3, <1>4 DEF HubNext

(* Only a full unregister channel lets Send meet a channel that was closed  *)
(* after Send had found the client open (unregisterClient's default branch  *)
(* closes outside the hub's goroutine); without one, no panic ends the hub. *)
THEOREM PanicNeedsOverflow == HubSpec => []PanicOnlyByOverflow
<1>1. PanicInv => PanicOnlyByOverflow
  BY DEF PanicInv
<1> QED
  BY InitPanicInv, StepPanicInv, <1>1, PTL DEF HubSpec

-----------------------------------------------------------------------------
(* What a client gets.                                                      *)
(*                                                                          *)
(* The events are numbered as they are published, so order is order of      *)
(* numbers: what waits before the hub lies above the event in hand, what a  *)
(* client has in its buffer not above it, and below it while that event is  *)
(* still on its way to the client.  What the hub took up for a client and   *)
(* did not write is in the buffer or on its way, unless it cannot be        *)
(* encoded, or the client is excused: closed, or told to leave for it.      *)

Leaves(c) == \E i \in 1 .. Len(unregister) : unregister[i] = c
Excused(c) == c \in closed \/ (c \in missed /\ Leaves(c))
InBuffer(c, e) == \E i \in 1 .. Len(send[c]) : send[c][i] = e
OnWay(c) == c \in left \/ current = c

HubTypes ==
  /\ clients \subseteq Clients /\ left \subseteq Clients
  /\ register \in Seq(Clients) /\ unregister \in Seq(Clients)
  /\ broadcast \in Seq(Nat) /\ event \in Nat /\ envelopes \in Seq(Envelopes)
  /\ send \in [Clients -> Seq(Nat)] /\ last \in [Clients -> Nat]
  /\ owed \in [Clients -> SUBSET Nat]

(* The hub has an event in hand only while it sends it.                     *)
SendingHolds ==
  /\ current \notin left
  /\ current # None => current \in Clients
  /\ hub = "select" => left = {} /\ current = None

(* The broadcast channel.                                                   *)
Queued ==
  /\ event <= Len(envelopes)
  /\ \A i \in 1 .. Len(broadcast) : event < broadcast[i] /\ broadcast[i] <= Len(envelopes)
  /\ \A i, j \in 1 .. Len(broadcast) : i < j => broadcast[i] < broadcast[j]
  /\ \A e \in 1 .. Len(envelopes) :
       e <= event \/ e \in refused \/ \E i \in 1 .. Len(broadcast) : broadcast[i] = e

Ordered(c) ==
  /\ last[c] <= event
  /\ \A i \in 1 .. Len(send[c]) : /\ send[c][i] <= event
                                  /\ send[c][i] # Welcome => last[c] < send[c][i]
  /\ \A i, j \in 1 .. Len(send[c]) : i < j /\ send[c][j] # Welcome => send[c][i] < send[c][j]
  /\ OnWay(c) => /\ event # 0 /\ last[c] < event
                 /\ \A i \in 1 .. Len(send[c]) : send[c][i] < event

Meant(c) ==
  /\ \A i \in 1 .. Len(send[c]) : send[c][i] # Welcome => target(envelopes[send[c][i]], c)
  /\ OnWay(c) => target(envelopes[event], c)

Kept(c) ==
  /\ owed[c] \subseteq 1 .. Len(envelopes)
  /\ c \notin clients => owed[c] = {}
  /\ \/ Excused(c)
     \/ \A e \in owed[c] : InBuffer(c, e) \/ (OnWay(c) /\ e = event) \/ ~envelopes[e].json

Served(c) == Ordered(c) /\ Meant(c) /\ Kept(c)

HubInv == HubTypes /\ SendingHolds /\ Queued /\ \A c \in Clients : Served(c)

-----------------------------------------------------------------------------
LEMMA AppendFacts ==
  ASSUME NEW S, NEW q \in Seq(S), NEW x \in S, NEW n, n = Len(q)
  PROVE  /\ n \in Nat /\ Append(q, x) \in Seq(S) /\ Len(Append(q, x)) = n + 1
         /\ \A i \in 1 .. n : Append(q, x)[i] = q[i]
         /\ Append(q, x)[n + 1] = x
BY AppendProperties, LenProperties

(* Taking the first of a channel leaves the others in it.                   *)
LEMMA TailFacts ==
  ASSUME NEW S, NEW q \in Seq(S), q # <<>>, NEW n \in Nat, n = Len(q)
  PROVE  /\ n >= 1 /\ Head(q) = q[1] /\ Head(q) \in S /\ Tail(q) \in Seq(S) /\ Len(Tail(q)) = n - 1
         /\ \A i \in 1 .. n - 1 : Tail(q)[i] = q[i + 1]
BY HeadTailProperties

(* Whoever is in the channel stays in it when another is put there.         *)
LEMMA LeaverAdded ==
  ASSUME NEW c \in Clients, unregister \in Seq(Clients), unregisterClient(c)
  PROVE  /\ unregister' \in Seq(Clients) /\ closed \subseteq closed'
         /\ \A d \in Clients : Leaves(d) => Leaves(d)'
         /\ c \in closed' \/ Leaves(c)'
<1>1. CASE unregister' = Append(unregister, c) /\ UNCHANGED closed
  <2>1. PICK n \in Nat : n = Len(unregister)
    BY LenProperties
  <2>2. /\ unregister' \in Seq(Clients) /\ Len(unregister') = n + 1 /\ unregister'[n + 1] = c
        /\ \A i \in 1 .. n : unregister'[i] = unregister[i]
    BY <1>1, <2>1, AppendFacts
  <2>3. n + 1 \in 1 .. n + 1 /\ \A i \in 1 .. n : i \in 1 .. n + 1
    OBVIOUS
  <2>4. Leaves(c)'
    BY <2>2, <2>3 DEF Leaves
  <2>5. \A d \in Clients : Leaves(d) => Leaves(d)'
    BY <2>1, <2>2, <2>3 DEF Leaves
  <2> QED
    BY <1>1, <2>2, <2>4, <2>5
<1>2. CASE UNCHANGED unregister /\ closed' = closed \union {c}
  BY <1>2 DEF Leaves
<1> QED
  BY <1>1, <1>2 DEF unregisterClient

-----------------------------------------------------------------------------
(* The steps that leave a client what it has.                               *)

(* Only new events are added.                                               *)
Grown ==
  /\ Len(envelopes') \in Nat /\ Len(envelopes) <= Len(envelopes')
  /\ \A e \in 1 .. Len(envelopes) : envelopes'[e] = envelopes[e]

Calm(c) ==
  /\ send'[c] = send[c] /\ last'[c] = last[c] /\ owed'[c] = owed[c] /\ event' = event
  /\ OnWay(c)' <=> OnWay(c)
  /\ Excused(c) => Excused(c)'
  /\ c \in clients => c \in clients'

LEMMA LensNat ==
  ASSUME HubInv
  PROVE  Len(envelopes) \in Nat /\ Len(broadcast) \in Nat /\ \A c \in Clients : Len(send[c]) \in Nat
BY LenProperties DEF HubInv, HubTypes

(* What is in a client's buffer or on its way to it was published.          *)
LEMMA WasPublished ==
  ASSUME HubInv, NEW c \in Clients
  PROVE  /\ \A i \in 1 .. Len(send[c]) : send[c][i] # Welcome => send[c][i] \in 1 .. Len(envelopes)
         /\ OnWay(c) => event \in 1 .. Len(envelopes)
<1>1. event \in Nat /\ Len(envelopes) \in Nat /\ event <= Len(envelopes)
  BY LensNat DEF HubInv, HubTypes, Queued
<1>2. send[c] \in Seq(Nat) /\ Ordered(c)
  BY DEF HubInv, HubTypes, Served
<1>3. \A i \in 1 .. Len(send[c]) : send[c][i] \in Nat /\ send[c][i] <= event
  BY <1>2, ElementOfSeq DEF Ordered
<1> QED
  BY <1>1, <1>2, <1>3 DEF Ordered, Welcome

LEMMA CalmKeeps ==
  ASSUME HubInv, Grown, NEW c \in Clients, Calm(c)
  PROVE  Served(c)'
<1>1. Served(c)
  BY DEF HubInv
<1>2. Ordered(c)'
  BY <1>1 DEF Served, Ordered, Calm
<1>3. Meant(c)'
  <2>1. \A i \in 1 .. Len(send[c]) : send[c][i] # Welcome => envelopes'[send[c][i]] = envelopes[send[c][i]]
    BY WasPublished DEF Grown
  <2>2. OnWay(c) => envelopes'[event] = envelopes[event]
    BY WasPublished DEF Grown
  <2>3. ASSUME NEW i \in 1 .. Len(send'[c]), send'[c][i] # Welcome
        PROVE  target(envelopes'[send'[c][i]], c)
    <3>1. i \in 1 .. Len(send[c]) /\ send'[c][i] = send[c][i]
      BY <2>3 DEF Calm
    <3>2. target(envelopes[send[c][i]], c)
      BY <1>1, <2>3, <3>1 DEF Served, Meant
    <3> QED
      BY <2>1, <2>3, <3>1, <3>2
  <2>4. ASSUME OnWay(c)'
        PROVE  target(envelopes'[event'], c)
    <3>1. OnWay(c) /\ event' = event
      BY <2>4 DEF Calm
    <3>2. target(envelopes[event], c)
      BY <1>1, <3>1 DEF Served, Meant
    <3> QED
      BY <2>2, <3>1, <3>2
  <2> QED
    BY <2>3, <2>4 DEF Meant
<1>4. Kept(c)'
  <2>1. owed'[c] \subseteq 1 .. Len(envelopes') /\ owed[c] \subseteq 1 .. Len(envelopes)
    <3>1. owed'[c] = owed[c] /\ owed[c] \subseteq 1 .. Len(envelopes)
      BY <1>1 DEF Served, Kept, Calm
    <3>2. 1 .. Len(envelopes) \subseteq 1 .. Len(envelopes')
      BY LensNat DEF Grown
    <3> QED
      BY <3>1, <3>2
  <2>2. c \notin clients' => owed'[c] = {}
    BY <1>1 DEF Served, Kept, Calm
  <2>3. Excused(c)' \/ \A e \in owed[c] : InBuffer(c, e)' \/ (OnWay(c)' /\ e = event') \/ ~envelopes'[e].json
    BY <1>1, <2>1 DEF Served, Kept, Calm, InBuffer, Grown
  <2> QED
    BY <2>1, <2>2, <2>3 DEF Kept, Calm
<1> QED
  BY <1>2, <1>3, <1>4 DEF Served

(* Steps that touch neither a buffer nor the broadcast channel.             *)
LEMMA QuietKeeps ==
  ASSUME HubInv, HubTypes', SendingHolds', \A c \in Clients : Calm(c),
         UNCHANGED <<envelopes, broadcast, event, refused>>
  PROVE  HubInv'
<1>1. Grown
  BY LensNat DEF Grown
<1>2. Queued'
  BY DEF HubInv, Queued
<1>3. \A c \in Clients : Served(c)'
  BY <1>1, CalmKeeps
<1> QED
  BY <1>2, <1>3 DEF HubInv

(* A new event is before the hub, or refused.                               *)
LEMMA PublishKeeps ==
  ASSUME HubInv, NEW env \in Envelopes, Publish(env)
  PROVE  HubInv'
<1>1. PICK m \in Nat : m = Len(envelopes)
  BY LensNat
<1>2. PICK n \in Nat : n = Len(broadcast)
  BY LensNat
<1>3. /\ envelopes' \in Seq(Envelopes) /\ Len(envelopes') = m + 1
      /\ \A e \in 1 .. m : envelopes'[e] = envelopes[e]
  BY <1>1, AppendFacts DEF HubInv, HubTypes, Publish
<1>4. Grown
  BY <1>1, <1>3 DEF Grown
<1>5. \A c \in Clients : Calm(c)
  BY DEF Publish, sending, Calm, OnWay, Excused, Leaves
<1>6. \/ broadcast' = broadcast /\ refused' = refused \union {m + 1}
      \/ broadcast' = Append(broadcast, m + 1) /\ refused' = refused
  BY <1>1 DEF Publish, Fanout
<1>7. broadcast \in Seq(Nat) /\ m + 1 \in Nat
  BY DEF HubInv, HubTypes
<1>8. /\ Append(broadcast, m + 1) \in Seq(Nat) /\ Len(Append(broadcast, m + 1)) = n + 1
      /\ \A i \in 1 .. n : Append(broadcast, m + 1)[i] = broadcast[i]
      /\ Append(broadcast, m + 1)[n + 1] = m + 1
  BY <1>2, <1>7, AppendFacts
<1>9. HubTypes'
  BY <1>3, <1>6, <1>7, <1>8 DEF HubInv, HubTypes, Publish, sending, pumps
<1>10. SendingHolds'
  BY DEF HubInv, SendingHolds, Publish, sending
<1>11. Queued'
  <2>1. event' = event /\ event \in Nat /\ event <= m
    BY <1>1 DEF HubInv, HubTypes, Queued, Publish, sending
  <2>2. /\ \A i \in 1 .. n : event < broadcast[i] /\ broadcast[i] <= m /\ broadcast[i] \in Nat
        /\ \A i, j \in 1 .. n : i < j => broadcast[i] < broadcast[j]
        /\ \A e \in 1 .. m : e <= event \/ e \in refused \/ \E i \in 1 .. n : broadcast[i] = e
    BY <1>1, <1>2, <1>7, ElementOfSeq DEF HubInv, Queued
  <2>3. CASE broadcast' = broadcast /\ refused' = refused \union {m + 1}
    BY <1>2, <1>3, <2>1, <2>2, <2>3 DEF Queued
  <2>4. CASE broadcast' = Append(broadcast, m + 1) /\ refused' = refused
    <3>1. /\ Len(broadcast') = n + 1 /\ broadcast'[n + 1] = m + 1
          /\ \A i \in 1 .. n : broadcast'[i] = broadcast[i]
      BY <1>8, <2>4
    <3>2. \A i \in 1 .. n + 1 : event < broadcast'[i] /\ broadcast'[i] <= m + 1
      BY <2>1, <2>2, <3>1
    <3>3. \A i, j \in 1 .. n + 1 : i < j => broadcast'[i] < broadcast'[j]
      BY <2>2, <3>1
    <3>4. ASSUME NEW e \in 1 .. m + 1
          PROVE  e <= event \/ e \in refused \/ \E i \in 1 .. n + 1 : broadcast'[i] = e
      <4>1. CASE e = m + 1
        BY <3>1, <4>1
      <4>2. CASE e \in 1 .. m
        BY <2>2, <3>1, <4>2
      <4> QED
        BY <4>1, <4>2
    <3> QED
      BY <1>3, <2>1, <2>4, <3>1, <3>2, <3>3, <3>4 DEF Queued
  <2> QED
    BY <1>6, <2>3, <2>4
<1> QED
  BY <1>4, <1>5, <1>9, <1>10, <1>11, CalmKeeps DEF HubInv

(* Connections, pumps, joining and the ends of a round.                     *)
LEMMA ConnKeeps ==
  ASSUME HubInv, NEW c \in Clients,
         SendWelcome(c) \/ (c \in closed /\ PutWelcome(c)) \/ Break(c) \/ EndWrite(c)
  PROVE  HubInv'
<1>1. UNCHANGED <<clients, envelopes, queues, sending, closed, send, history>>
  BY DEF SendWelcome, PutWelcome, Break, EndWrite, queues, history
<1>2. HubTypes' /\ SendingHolds'
  BY <1>1 DEF HubInv, HubTypes, SendingHolds, queues, sending, history
<1>3. \A d \in Clients : Calm(d)
  BY <1>1 DEF Calm, OnWay, Excused, Leaves, queues, sending, history
<1> QED
  BY <1>1, <1>2, <1>3, QuietKeeps DEF queues, sending, history

LEMMA ReadKeeps ==
  ASSUME HubInv, NEW c \in Clients, ReadPump(c)
  PROVE  HubInv'
<1>1. /\ unregister' \in Seq(Clients) /\ closed \subseteq closed'
      /\ \A d \in Clients : Leaves(d) => Leaves(d)'
  BY LeaverAdded DEF HubInv, HubTypes, ReadPump
<1>2. HubTypes' /\ SendingHolds'
  BY <1>1 DEF HubInv, HubTypes, SendingHolds, ReadPump, sending
<1>3. \A d \in Clients : Calm(d)
  BY <1>1 DEF Calm, OnWay, Excused, ReadPump, sending
<1> QED
  BY <1>2, <1>3, QuietKeeps DEF ReadPump, sending

LEMMA JoinKeeps ==
  ASSUME HubInv, TakeRegister \/ \E c \in Clients : RegisterClient(c)
  PROVE  HubInv'
<1>1. /\ register' \in Seq(Clients) /\ clients \subseteq clients' /\ clients' \subseteq Clients
      /\ UNCHANGED <<envelopes, unregister, broadcast, sending, closed, send, history>>
  <2>1. register \in Seq(Clients) /\ clients \subseteq Clients
    BY DEF HubInv, HubTypes
  <2>2. CASE TakeRegister
    <3>1. Head(register) \in Clients /\ Tail(register) \in Seq(Clients)
      BY <2>1, <2>2, TailFacts, LenProperties DEF TakeRegister
    <3> QED
      BY <2>1, <2>2, <3>1 DEF TakeRegister
  <2>3. ASSUME NEW c \in Clients, RegisterClient(c)
        PROVE  /\ register' \in Seq(Clients)
               /\ UNCHANGED <<clients, envelopes, unregister, broadcast, sending, closed, send, history>>
    BY <2>1, <2>3, AppendProperties DEF RegisterClient
  <2> QED
    BY <2>1, <2>2, <2>3
<1>2. HubTypes' /\ SendingHolds'
  BY <1>1 DEF HubInv, HubTypes, SendingHolds, sending, history
<1>3. \A d \in Clients : Calm(d)
  BY <1>1 DEF Calm, OnWay, Excused, Leaves, sending, history
<1> QED
  BY <1>1, <1>2, <1>3, QuietKeeps DEF sending, history

LEMMA EndKeeps ==
  ASSUME HubInv, EndSend \/ Shutdown
  PROVE  HubInv'
<1>1. /\ UNCHANGED <<clients, envelopes, queues, left, event, current, send, history>>
      /\ closed \subseteq closed'
  BY DEF EndSend, Shutdown
<1>2. HubTypes' /\ SendingHolds'
  BY <1>1 DEF HubInv, HubTypes, SendingHolds, EndSend, Shutdown, queues, history
<1>3. \A d \in Clients : Calm(d)
  BY <1>1 DEF Calm, OnWay, Excused, Leaves, queues, history
<1> QED
  BY <1>1, <1>2, <1>3, QuietKeeps DEF queues, history

-----------------------------------------------------------------------------
(* The steps that matter.                                                   *)

(* Who leaves is owed nothing.                                              *)
LEMMA TakeUnregisterKeeps ==
  ASSUME HubInv, TakeUnregister
  PROVE  HubInv'
<1>1. PICK n \in Nat : n = Len(unregister)
  BY LenProperties DEF HubInv, HubTypes
<1>2. /\ n >= 1 /\ Head(unregister) = unregister[1] /\ Head(unregister) \in Clients
      /\ Tail(unregister) \in Seq(Clients) /\ Len(Tail(unregister)) = n - 1
      /\ \A i \in 1 .. n - 1 : Tail(unregister)[i] = unregister[i + 1]
  BY <1>1, TailFacts DEF HubInv, HubTypes, TakeUnregister
<1>3. PICK c \in Clients : c = unregister[1]
  BY <1>2
<1>4. /\ clients' = clients \ {c} /\ unregister' \in Seq(Clients) /\ Len(unregister') = n - 1
      /\ \A i \in 1 .. n - 1 : unregister'[i] = unregister[i + 1]
      /\ closed \subseteq closed' /\ owed' = [owed EXCEPT ![c] = {}]
      /\ UNCHANGED <<envelopes, register, broadcast, sending, send, last, refused, missed>>
  BY <1>2, <1>3 DEF TakeUnregister
<1>5. ASSUME NEW d \in Clients, d # c, Leaves(d) PROVE Leaves(d)'
  <2>1. PICK i \in 1 .. n : unregister[i] = d
    BY <1>1, <1>5 DEF Leaves
  <2>2. PICK j \in 1 .. n - 1 : i = j + 1
    <3>1. i # 1
      BY <1>3, <1>5, <2>1
    <3>2. i - 1 \in 1 .. n - 1 /\ i = (i - 1) + 1
      BY <3>1
    <3> QED
      BY <3>2
  <2>3. unregister'[j] = d
    BY <1>4, <2>1, <2>2
  <2> QED
    BY <1>4, <2>3 DEF Leaves
<1>6. \A d \in Clients : owed'[d] = IF d = c THEN {} ELSE owed[d]
  BY <1>4 DEF HubInv, HubTypes
<1>7. HubTypes' /\ SendingHolds'
  BY <1>4 DEF HubInv, HubTypes, SendingHolds, sending
<1>8. Queued' /\ Grown
  BY <1>4, LensNat DEF HubInv, Queued, Grown, sending
<1>9. ASSUME NEW d \in Clients, d # c PROVE Served(d)'
  <2>1. Calm(d)
    BY <1>4, <1>5, <1>6, <1>9 DEF Calm, OnWay, Excused, sending
  <2> QED
    BY <1>8, <2>1, CalmKeeps
<1>10. Served(c)'
  <2>1. Ordered(c)' /\ Meant(c)'
    BY <1>4 DEF HubInv, Served, Ordered, Meant, OnWay, sending
  <2>2. Kept(c)'
    BY <1>4, <1>6 DEF Kept
  <2> QED
    BY <2>1, <2>2 DEF Served
<1> QED
  BY <1>7, <1>8, <1>9, <1>10 DEF HubInv

(* A client that is passed over was closed.                                 *)
LEMMA LookKeeps ==
  ASSUME HubInv, NEW c \in Clients, LookClosed(c)
  PROVE  HubInv'
<1>1. /\ left' = left \ {c} /\ c \in left /\ current = None /\ c # None
      /\ current' = IF c \in closed THEN None ELSE c
      /\ UNCHANGED <<clients, envelopes, queues, hub, event, closed, send, history>>
  BY HubAssumption DEF LookClosed, None
<1>2. HubTypes'
  BY <1>1 DEF HubInv, HubTypes, queues, history
<1>3. SendingHolds'
  BY <1>1 DEF HubInv, SendingHolds, LookClosed
<1>4. Queued' /\ Grown
  BY <1>1, LensNat DEF HubInv, Queued, Grown, queues, history
<1>5. ASSUME NEW d \in Clients, d # c \/ c \notin closed PROVE Served(d)'
  <2>1. d # None
    BY HubAssumption DEF None
  <2>2. Calm(d)
    BY <1>1, <1>5, <2>1 DEF Calm, OnWay, Excused, Leaves, queues, history
  <2> QED
    BY <1>4, <2>2, CalmKeeps
<1>6. CASE c \in closed
  <2>1. ~OnWay(c)' /\ Excused(c)'
    BY <1>1, <1>6 DEF OnWay, Excused
  <2>2. Ordered(c)' /\ Meant(c)' /\ Kept(c)'
    BY <1>1, <2>1 DEF HubInv, Served, Ordered, Meant, Kept, queues, history
  <2> QED
    BY <1>2, <1>3, <1>4, <1>5, <2>2 DEF HubInv, Served
<1> QED
  BY <1>2, <1>3, <1>4, <1>5, <1>6 DEF HubInv

(* An event in hand is new to every client, and owed to those it goes to.   *)
LEMMA BroadcastKeeps ==
  ASSUME HubInv, TakeBroadcast
  PROVE  HubInv'
<1>1. PICK n \in Nat : n = Len(broadcast)
  BY LensNat
<1>2. PICK h \in Nat : h = broadcast[1] /\ h = Head(broadcast)
  BY <1>1, TailFacts DEF HubInv, HubTypes, TakeBroadcast
<1>3. /\ n >= 1 /\ broadcast' \in Seq(Nat) /\ Len(broadcast') = n - 1
      /\ \A i \in 1 .. n - 1 : broadcast'[i] = broadcast[i + 1]
  BY <1>1, TailFacts DEF HubInv, HubTypes, TakeBroadcast
<1>4. /\ event' = h /\ left = {} /\ current = None /\ hub' = "send"
      /\ left' = {c \in clients : target(envelopes[h], c)}
      /\ owed' = [c \in Clients |-> IF c \in left' THEN owed[c] \union {h} ELSE owed[c]]
      /\ UNCHANGED <<clients, envelopes, register, unregister, current, closed, send, last, refused,
                     missed>>
  BY <1>2 DEF TakeBroadcast, HubInv, SendingHolds
<1>5. /\ \A i \in 1 .. n : event < broadcast[i] /\ broadcast[i] <= Len(envelopes) /\ broadcast[i] \in Nat
      /\ \A i, j \in 1 .. n : i < j => broadcast[i] < broadcast[j]
      /\ \A e \in 1 .. Len(envelopes) :
           e <= event \/ e \in refused \/ \E i \in 1 .. n : broadcast[i] = e
  BY <1>1, ElementOfSeq DEF HubInv, HubTypes, Queued
<1>6. event \in Nat /\ event < h /\ h \in 1 .. Len(envelopes) /\ Len(envelopes) \in Nat
  BY <1>2, <1>3, <1>5, LensNat DEF HubInv, HubTypes
<1>7. HubTypes'
  <2>1. \A c \in Clients : owed[c] \in SUBSET Nat /\ owed[c] \union {h} \in SUBSET Nat
    BY DEF HubInv, HubTypes
  <2>2. owed' \in [Clients -> SUBSET Nat]
    BY <1>4, <2>1
  <2> QED
    BY <1>3, <1>4, <2>2 DEF HubInv, HubTypes
<1>8. SendingHolds'
  BY <1>4, HubAssumption DEF HubInv, HubTypes, SendingHolds, None
<1>9. Queued'
  <2>1. ASSUME NEW i \in 1 .. n - 1
        PROVE  h < broadcast'[i] /\ broadcast'[i] <= Len(envelopes)
    <3>1. 1 \in 1 .. n /\ i + 1 \in 1 .. n /\ 1 < i + 1 /\ broadcast'[i] = broadcast[i + 1]
      BY <1>3
    <3> QED
      BY <1>2, <1>5, <3>1
  <2>2. \A i, j \in 1 .. n - 1 : i < j => broadcast'[i] < broadcast'[j]
    BY <1>3, <1>5
  <2>3. ASSUME NEW e \in 1 .. Len(envelopes), ~(e <= h), e \notin refused
        PROVE  \E i \in 1 .. n - 1 : broadcast'[i] = e
    <3>1. PICK i \in 1 .. n : broadcast[i] = e
      BY <1>5, <1>6, <2>3
    <3>2. i # 1
      BY <1>2, <1>6, <2>3, <3>1
    <3>3. i - 1 \in 1 .. n - 1 /\ (i - 1) + 1 = i
      BY <3>2
    <3>4. broadcast'[i - 1] = e
      BY <1>3, <3>1, <3>3
    <3> QED
      BY <3>3, <3>4
  <2>4. \A e \in 1 .. Len(envelopes) : e <= h \/ e \in refused \/ \E i \in 1 .. n - 1 : broadcast'[i] = e
    BY <2>3
  <2> QED
    BY <1>3, <1>4, <1>6, <2>1, <2>2, <2>4 DEF Queued
<1>10. ASSUME NEW c \in Clients PROVE Served(c)'
  <2>1. /\ c # None /\ (OnWay(c)' <=> c \in left') /\ ~OnWay(c)
        /\ owed'[c] = IF c \in left' THEN owed[c] \union {h} ELSE owed[c]
        /\ send'[c] = send[c] /\ last'[c] = last[c] /\ (c \in left' => c \in clients)
    BY <1>4, HubAssumption DEF OnWay, None
  <2>2. last[c] \in Nat /\ \A i \in 1 .. Len(send[c]) : send[c][i] \in Nat
    BY ElementOfSeq DEF HubInv, HubTypes
  <2>3. Ordered(c)'
    BY <1>4, <1>6, <2>1, <2>2 DEF HubInv, Served, Ordered
  <2>4. Meant(c)'
    <3>1. c \in left' => target(envelopes[h], c)
      BY <1>4
    <3> QED
      BY <1>4, <2>1, <3>1 DEF HubInv, Served, Meant
  <2>5. Kept(c)'
    <3>1. Excused(c)' <=> Excused(c)
      BY <1>4 DEF Excused, Leaves
    <3>2. \A e : InBuffer(c, e)' <=> InBuffer(c, e)
      BY <1>4 DEF InBuffer
    <3>3. Kept(c)
      BY DEF HubInv, Served
    <3> QED
      BY <1>4, <1>6, <2>1, <3>1, <3>2, <3>3 DEF Kept
  <2> QED
    BY <2>3, <2>4, <2>5 DEF Served
<1> QED
  BY <1>7, <1>8, <1>9, <1>10 DEF HubInv

(* A message goes to the end of the buffer, or the client is to leave.      *)
Added(c, x) ==
  /\ Len(send'[c]) = Len(send[c]) + 1
  /\ send'[c][Len(send[c]) + 1] = x
  /\ \A i \in 1 .. Len(send[c]) : send'[c][i] = send[c][i]

LEMMA PutMoves ==
  ASSUME HubInv, NEW c \in Clients, NEW x \in Nat, Put(c, x)
  PROVE  /\ unregister' \in Seq(Clients) /\ closed \subseteq closed'
         /\ send' \in [Clients -> Seq(Nat)] /\ \A d \in Clients : d # c => send'[d] = send[d]
         /\ \A d \in Clients : Excused(d) => Excused(d)'
         /\ Added(c, x) \/ (send' = send /\ Excused(c)')
<1>1. unregister \in Seq(Clients) /\ send \in [Clients -> Seq(Nat)]
  BY DEF HubInv, HubTypes
<1>2. CASE Len(send[c]) < SendCap
  <2>1. /\ send' = [send EXCEPT ![c] = Append(send[c], x)]
        /\ UNCHANGED <<unregister, closed, missed>>
    BY <1>2 DEF Put
  <2>2. PICK s \in Seq(Nat) : s = send[c]
    BY <1>1
  <2>3. PICK t \in Seq(Nat) : t = Append(s, x)
    BY <2>2, AppendFacts
  <2>4. send' \in [Clients -> Seq(Nat)] /\ send'[c] = t /\ \A d \in Clients : d # c => send'[d] = send[d]
    BY <1>1, <2>1, <2>2, <2>3
  <2>5. Len(t) = Len(s) + 1 /\ t[Len(s) + 1] = x /\ \A i \in 1 .. Len(s) : t[i] = s[i]
    BY <2>2, <2>3, AppendFacts
  <2>6. Added(c, x)
    BY <2>2, <2>4, <2>5 DEF Added
  <2> QED
    BY <1>1, <2>1, <2>4, <2>6 DEF Excused, Leaves
<1>3. CASE ~(Len(send[c]) < SendCap)
  <2>1. missed' = missed \union {c} /\ unregisterClient(c) /\ send' = send
    BY <1>3 DEF Put
  <2> QED
    BY <1>1, <2>1, LeaverAdded DEF Excused
<1> QED
  BY <1>2, <1>3

(* The buffer of a client grows by the welcome, or by the event that was on *)
(* its way to it.                                                           *)
LEMMA AppendKeeps ==
  ASSUME HubInv, NEW c \in Clients, NEW x \in Nat, Added(c, x),
         UNCHANGED <<clients, envelopes, event, last, owed>>,
         \/ x = Welcome /\ (OnWay(c)' <=> OnWay(c))
         \/ x = event /\ OnWay(c) /\ ~OnWay(c)',
         Excused(c) => Excused(c)'
  PROVE  Served(c)'
<1>1. PICK s \in Seq(Nat) : s = send[c]
  BY DEF HubInv, HubTypes
<1>2. PICK n \in Nat : n = Len(s)
  BY LenProperties
<1>3. /\ Len(send'[c]) = n + 1 /\ send'[c][n + 1] = x
      /\ \A i \in 1 .. n : send'[c][i] = s[i]
  BY <1>1, <1>2 DEF Added
<1>4. \A i \in 1 .. n : s[i] \in Nat
  BY <1>2, ElementOfSeq
<1>5. last[c] \in Nat /\ event \in Nat /\ Welcome = 0
  BY DEF HubInv, HubTypes, Welcome
<1>6. Ordered(c) /\ Meant(c) /\ Kept(c)
  BY DEF HubInv, Served
<1>7. Ordered(c)'
  <2>1. /\ last[c] <= event
        /\ \A i \in 1 .. n : s[i] <= event /\ (s[i] # 0 => last[c] < s[i])
        /\ \A i, j \in 1 .. n : i < j /\ s[j] # 0 => s[i] < s[j]
        /\ OnWay(c) => event # 0 /\ last[c] < event /\ \A i \in 1 .. n : s[i] < event
    BY <1>1, <1>2, <1>5, <1>6 DEF Ordered
  <2>2. ASSUME NEW i \in 1 .. n + 1
        PROVE  send'[c][i] <= event /\ (send'[c][i] # 0 => last[c] < send'[c][i])
    <3>1. x <= event /\ (x # 0 => last[c] < x)
      BY <1>5, <2>1
    <3>2. CASE i \in 1 .. n
      BY <1>3, <2>1, <3>2
    <3>3. CASE i = n + 1
      BY <1>3, <3>1, <3>3
    <3> QED
      BY <3>2, <3>3
  <2>3. ASSUME NEW i \in 1 .. n + 1, NEW j \in 1 .. n + 1, i < j, send'[c][j] # 0
        PROVE  send'[c][i] < send'[c][j]
    <3>1. i \in 1 .. n /\ send'[c][i] = s[i]
      <4>1. i \in 1 .. n
        BY <2>3
      <4> QED
        BY <1>3, <4>1
    <3>2. CASE j \in 1 .. n
      BY <1>3, <2>1, <2>3, <3>1, <3>2
    <3>3. CASE j = n + 1
      BY <1>3, <1>5, <2>1, <2>3, <3>1, <3>3
    <3>4. j \in 1 .. n \/ j = n + 1
      OBVIOUS
    <3> QED
      BY <3>2, <3>3, <3>4
  <2>4. ASSUME OnWay(c)' PROVE event # 0 /\ last[c] < event /\ \A i \in 1 .. n + 1 : send'[c][i] < event
    <3>1. OnWay(c) /\ x = 0
      BY <1>5, <2>4
    <3>2. event # 0 /\ last[c] < event /\ x < event
      BY <1>5, <2>1, <3>1
    <3>3. ASSUME NEW i \in 1 .. n + 1 PROVE send'[c][i] < event
      <4>1. CASE i \in 1 .. n
        BY <1>3, <2>1, <3>1, <4>1
      <4>2. CASE i = n + 1
        BY <1>3, <3>2, <4>2
      <4> QED
        BY <4>1, <4>2
    <3> QED
      BY <3>2, <3>3
  <2> QED
    BY <1>3, <1>5, <2>1, <2>2, <2>3, <2>4 DEF Ordered
<1>8. Meant(c)'
  <2>1. ASSUME NEW i \in 1 .. n + 1, send'[c][i] # Welcome
        PROVE  target(envelopes[send'[c][i]], c)
    <3>1. CASE i \in 1 .. n
      BY <1>1, <1>2, <1>3, <1>6, <2>1, <3>1 DEF Meant
    <3>2. CASE i = n + 1
      BY <1>3, <1>6, <2>1, <3>2 DEF Meant
    <3> QED
      BY <3>1, <3>2
  <2>2. OnWay(c)' => target(envelopes[event], c)
    BY <1>6 DEF Meant
  <2> QED
    BY <1>3, <2>1, <2>2 DEF Meant
<1>9. Kept(c)'
  <2>1. ASSUME NEW e, InBuffer(c, e) \/ (OnWay(c) /\ e = event)
        PROVE  InBuffer(c, e)' \/ (OnWay(c)' /\ e = event)
    <3>1. CASE InBuffer(c, e)
      <4>1. PICK i \in 1 .. n : s[i] = e
        BY <1>1, <1>2, <3>1 DEF InBuffer
      <4>2. i \in 1 .. n + 1
        OBVIOUS
      <4>3. send'[c][i] = e
        BY <1>3, <4>1
      <4> QED
        BY <1>3, <4>2, <4>3 DEF InBuffer
    <3>2. CASE OnWay(c) /\ e = event /\ ~OnWay(c)'
      BY <1>3, <3>2 DEF InBuffer
    <3> QED
      BY <2>1, <3>1, <3>2
  <2> QED
    BY <1>6, <2>1 DEF Kept
<1> QED
  BY <1>7, <1>8, <1>9 DEF Served

LEMMA WelcomeKeeps ==
  ASSUME HubInv, NEW c \in Clients, c \notin closed, PutWelcome(c)
  PROVE  HubInv'
<1>1. /\ Put(c, Welcome) /\ Welcome \in Nat
      /\ UNCHANGED <<clients, envelopes, register, broadcast, sending, owed, last, refused>>
  BY DEF PutWelcome, Welcome
<1>2. /\ unregister' \in Seq(Clients) /\ closed \subseteq closed'
      /\ \A d \in Clients : Excused(d) => Excused(d)'
      /\ send' \in [Clients -> Seq(Nat)] /\ \A d \in Clients : d # c => send'[d] = send[d]
      /\ Added(c, Welcome) \/ (send' = send /\ Excused(c)')
  BY <1>1, PutMoves
<1>4. HubTypes' /\ SendingHolds'
  <2>1. hub' = hub
    BY <1>1 DEF sending
  <2> QED
    BY <1>1, <1>2, <2>1 DEF HubInv, HubTypes, SendingHolds, sending
<1>5. Queued' /\ Grown
  BY <1>1, LensNat DEF HubInv, Queued, Grown, sending
<1>6. \A d \in Clients : OnWay(d)' <=> OnWay(d)
  BY <1>1 DEF OnWay, sending
<1>7. ASSUME NEW d \in Clients, d # c \/ send' = send PROVE Served(d)'
  <2>1. Calm(d)
    BY <1>1, <1>2, <1>6, <1>7 DEF Calm, sending
  <2> QED
    BY <1>5, <2>1, CalmKeeps
<1>8. CASE Added(c, Welcome)
  <2>1. Served(c)'
    BY <1>1, <1>2, <1>6, <1>8, AppendKeeps DEF sending
  <2> QED
    BY <1>4, <1>5, <1>7, <2>1 DEF HubInv
<1> QED
  BY <1>2, <1>4, <1>5, <1>7, <1>8 DEF HubInv

(* The event reaches the client Send had found open, or the client leaves.  *)
LEMMA EventKeeps ==
  ASSUME HubInv, PutEvent
  PROVE  HubInv'
<1>1. PICK c \in Clients : c = current
  BY DEF HubInv, SendingHolds, PutEvent
<1>2. /\ current' = None /\ c # None /\ c \notin left /\ OnWay(c)
      /\ UNCHANGED <<clients, envelopes, register, broadcast, left, event, owed, last, refused>>
  BY <1>1 DEF HubInv, SendingHolds, PutEvent, OnWay
<1>3. \A d \in Clients : d # None
  BY HubAssumption DEF None
<1>4. ~OnWay(c)' /\ \A d \in Clients : d # c => (OnWay(d)' <=> OnWay(d))
  BY <1>1, <1>2, <1>3 DEF OnWay
<1>5. /\ unregister' \in Seq(Clients) /\ closed \subseteq closed'
      /\ \A d \in Clients : Excused(d) => Excused(d)'
      /\ send' \in [Clients -> Seq(Nat)] /\ \A d \in Clients : d # c => send'[d] = send[d]
      /\ Added(c, event) \/ (send' = send /\ Excused(c)')
  <2>1. CASE Put(c, event)
    BY <2>1, PutMoves DEF HubInv, HubTypes
  <2>2. CASE c \in closed /\ UNCHANGED <<send, unregister, closed, missed>>
    BY <2>2 DEF HubInv, HubTypes, Excused, Leaves
  <2> QED
    BY <1>1, <2>1, <2>2 DEF PutEvent
<1>7. HubTypes'
  BY <1>2, <1>5 DEF HubInv, HubTypes
<1>8. SendingHolds'
  <2>1. hub = "send" /\ hub' \in {hub, "panic"}
    BY DEF PutEvent
  <2>2. None \notin left
    BY <1>3 DEF HubInv, HubTypes
  <2> QED
    BY <1>2, <2>1, <2>2 DEF SendingHolds
<1>9. Queued' /\ Grown
  BY <1>2, LensNat DEF HubInv, Queued, Grown
<1>10. ASSUME NEW d \in Clients, d # c PROVE Served(d)'
  <2>1. Calm(d)
    BY <1>2, <1>4, <1>5, <1>10 DEF Calm
  <2> QED
    BY <1>9, <2>1, CalmKeeps
<1>11. Served(c)'
  <2>1. CASE Added(c, event)
    <3>1. event \in Nat
      BY DEF HubInv, HubTypes
    <3> QED
      BY <1>2, <1>4, <1>5, <2>1, <3>1, AppendKeeps
  <2>2. CASE send' = send /\ Excused(c)'
    BY <1>2, <1>4, <2>2 DEF HubInv, Served, Ordered, Meant, Kept
  <2> QED
    BY <1>5, <2>1, <2>2
<1> QED
  BY <1>7, <1>8, <1>9, <1>10, <1>11 DEF HubInv

(* What is written, or cannot be encoded, is the first of the buffer.       *)
LEMMA WriteKeeps ==
  ASSUME HubInv, NEW c \in Clients, Write(c)
  PROVE  HubInv'
<1>1. PICK s \in Seq(Nat) : s = send[c]
  BY DEF HubInv, HubTypes
<1>2. PICK n \in Nat : n = Len(s)
  BY LenProperties
<1>3. PICK h \in Nat : h = Head(s) /\ h = s[1]
  BY <1>1, <1>2, TailFacts DEF Write
<1>4. PICK t \in Seq(Nat) : /\ t = Tail(s) /\ n >= 1 /\ Len(t) = n - 1
                            /\ \A i \in 1 .. n - 1 : t[i] = s[i + 1]
  <2>1. s # <<>>
    BY <1>1 DEF Write
  <2>2. /\ n >= 1 /\ Tail(s) \in Seq(Nat) /\ Len(Tail(s)) = n - 1
        /\ \A i \in 1 .. n - 1 : Tail(s)[i] = s[i + 1]
    BY <1>2, <2>1, TailFacts
  <2> QED
    BY <2>2
<1>5. /\ send' = [send EXCEPT ![c] = t]
      /\ \/ /\ Encodes(h) /\ owed' = [owed EXCEPT ![c] = @ \ {h}]
            /\ last' = [last EXCEPT ![c] = IF h = Welcome THEN @ ELSE h]
         \/ ~Encodes(h) /\ UNCHANGED <<owed, last>>
      /\ UNCHANGED <<clients, envelopes, queues, sending, closed, refused, missed>>
  BY <1>1, <1>3, <1>4 DEF Write
<1>6. /\ send' \in [Clients -> Seq(Nat)] /\ send'[c] = t
      /\ \A d \in Clients : d # c => send'[d] = send[d]
  BY <1>5 DEF HubInv, HubTypes
<1>7. /\ owed' \in [Clients -> SUBSET Nat] /\ last' \in [Clients -> Nat]
      /\ \A d \in Clients : d # c => owed'[d] = owed[d] /\ last'[d] = last[d]
  BY <1>5 DEF HubInv, HubTypes
<1>8. \/ Encodes(h) /\ owed'[c] = owed[c] \ {h} /\ last'[c] = IF h = Welcome THEN last[c] ELSE h
      \/ ~Encodes(h) /\ owed'[c] = owed[c] /\ last'[c] = last[c]
  BY <1>5 DEF HubInv, HubTypes
<1>9. HubTypes' /\ SendingHolds'
  BY <1>5, <1>6, <1>7 DEF HubInv, HubTypes, SendingHolds, queues, sending
<1>10. Queued' /\ Grown
  BY <1>5, LensNat DEF HubInv, Queued, Grown, queues, sending
<1>11. \A d \in Clients : (OnWay(d)' <=> OnWay(d)) /\ (Excused(d)' <=> Excused(d))
  BY <1>5 DEF OnWay, Excused, Leaves, queues, sending
<1>12. ASSUME NEW d \in Clients, d # c PROVE Served(d)'
  <2>1. Calm(d)
    BY <1>5, <1>6, <1>7, <1>11, <1>12 DEF Calm, sending
  <2> QED
    BY <1>10, <2>1, CalmKeeps
<1>13. ASSUME NEW i \in 1 .. n - 1
       PROVE  i + 1 \in 1 .. n /\ 1 < i + 1 /\ t[i] = s[i + 1]
  <2>1. i + 1 \in 1 .. n /\ 1 < i + 1
    OBVIOUS
  <2> QED
    BY <1>4, <2>1
<1>14. 1 \in 1 .. n /\ event' = event /\ envelopes' = envelopes /\ Welcome = 0
  BY <1>4, <1>5 DEF sending, Welcome
<1>15. /\ \A i \in 1 .. n : s[i] \in Nat
       /\ last[c] \in Nat /\ event \in Nat
  BY <1>2, ElementOfSeq DEF HubInv, HubTypes
<1>16. Ordered(c)'
  <2>1. /\ last[c] <= event
        /\ \A i \in 1 .. n : s[i] <= event /\ (s[i] # 0 => last[c] < s[i])
        /\ \A i, j \in 1 .. n : i < j /\ s[j] # 0 => s[i] < s[j]
        /\ OnWay(c) => event # 0 /\ last[c] < event /\ \A i \in 1 .. n : s[i] < event
    BY <1>1, <1>2, <1>14 DEF HubInv, Served, Ordered
  <2>2. last'[c] = last[c] \/ (last'[c] = h /\ h # 0)
    BY <1>8, <1>14
  <2>3. last'[c] <= event /\ (OnWay(c) => last'[c] < event)
    BY <1>3, <1>14, <2>1, <2>2
  <2>4. ASSUME NEW i \in 1 .. n - 1 PROVE t[i] <= event /\ (t[i] # 0 => last'[c] < t[i])
    <3>1. i + 1 \in 1 .. n /\ 1 < i + 1 /\ t[i] = s[i + 1]
      BY <1>13
    <3>2. t[i] # 0 => last[c] < t[i] /\ s[1] < t[i]
      BY <1>14, <2>1, <3>1
    <3> QED
      BY <1>3, <2>1, <2>2, <3>1, <3>2
  <2>5. ASSUME NEW i \in 1 .. n - 1, NEW j \in 1 .. n - 1, i < j, t[j] # 0 PROVE t[i] < t[j]
    <3>1. i + 1 \in 1 .. n /\ j + 1 \in 1 .. n /\ i + 1 < j + 1
      BY <1>13, <2>5
    <3>2. t[i] = s[i + 1] /\ t[j] = s[j + 1]
      BY <1>13
    <3> QED
      BY <2>1, <2>5, <3>1, <3>2
  <2>6. OnWay(c) => event # 0 /\ \A i \in 1 .. n - 1 : t[i] < event
    BY <1>13, <2>1
  <2> QED
    BY <1>4, <1>6, <1>11, <1>14, <2>3, <2>4, <2>5, <2>6 DEF Ordered
<1>17. Meant(c)'
  <2>1. /\ \A i \in 1 .. n : s[i] # Welcome => target(envelopes[s[i]], c)
        /\ OnWay(c) => target(envelopes[event], c)
    BY <1>1, <1>2 DEF HubInv, Served, Meant
  <2>2. ASSUME NEW i \in 1 .. n - 1, t[i] # Welcome
        PROVE  target(envelopes[t[i]], c)
    <3>1. i + 1 \in 1 .. n /\ t[i] = s[i + 1]
      BY <1>13
    <3> QED
      BY <2>1, <2>2, <3>1
  <2> QED
    BY <1>4, <1>6, <1>11, <1>14, <2>1, <2>2 DEF Meant
<1>18. Kept(c)'
  <2>1. Kept(c)
    BY DEF HubInv, Served
  <2>2. ASSUME NEW e, InBuffer(c, e), e # h
        PROVE  InBuffer(c, e)'
    <3>1. PICK i \in 1 .. n : s[i] = e
      BY <1>1, <1>2, <2>2 DEF InBuffer
    <3>2. i # 1
      BY <1>3, <2>2, <3>1
    <3>3. i - 1 \in 1 .. n - 1 /\ (i - 1) + 1 = i
      BY <3>2
    <3>4. t[i - 1] = e
      BY <1>4, <3>1, <3>3
    <3> QED
      BY <1>4, <1>6, <3>3, <3>4 DEF InBuffer
  <2>3. ~Encodes(h) => ~envelopes[h].json
    BY DEF Encodes
  <2>4. owed'[c] \subseteq owed[c] /\ (h \in owed'[c] => ~Encodes(h))
    BY <1>8
  <2>5. Excused(c) \/ \A e \in owed'[c] : InBuffer(c, e)' \/ (OnWay(c) /\ e = event) \/ ~envelopes[e].json
    BY <2>1, <2>2, <2>3, <2>4 DEF Kept
  <2>6. clients' = clients
    BY <1>5
  <2> QED
    BY <1>11, <1>14, <2>1, <2>4, <2>5, <2>6 DEF Kept
<1> QED
  BY <1>9, <1>10, <1>12, <1>16, <1>17, <1>18 DEF HubInv, Served

-----------------------------------------------------------------------------
LEMMA InitHubInv == HubInit => HubInv
<1> SUFFICES ASSUME HubInit PROVE HubInv
  OBVIOUS
<1>1. <<>> \in Seq(Clients) /\ <<>> \in Seq(Nat) /\ <<>> \in Seq(Envelopes) /\ Len(<<>>) = 0
  OBVIOUS
<1>2. HubTypes
  BY <1>1 DEF HubInit, HubTypes
<1>3. SendingHolds
  BY DEF HubInit, SendingHolds
<1>4. Queued
  BY <1>1 DEF HubInit, Queued
<1>5. ASSUME NEW c \in Clients PROVE Served(c)
  <2>1. send[c] = <<>> /\ owed[c] = {} /\ last[c] = 0 /\ event = 0
    BY DEF HubInit
  <2>2. ~OnWay(c)
    BY HubAssumption DEF HubInit, OnWay, None
  <2> QED
    BY <1>1, <2>1, <2>2 DEF Served, Ordered, Meant, Kept
<1> QED
  BY <1>2, <1>3, <1>4, <1>5 DEF HubInv

LEMMA StepHubInv == HubInv /\ [HubNext]_hubVars => HubInv'
<1> SUFFICES ASSUME HubInv, [HubNext]_hubVars PROVE HubInv'
  OBVIOUS
<1>1. CASE HubStep \/ Shutdown
  BY <1>1, JoinKeeps, TakeUnregisterKeeps, BroadcastKeeps, LookKeeps, EventKeeps, EndKeeps DEF HubStep
<1>2. ASSUME NEW c \in Clients, ClientStep(c) \/ RegisterClient(c) \/ Break(c) PROVE HubInv'
  BY <1>2, ConnKeeps, WelcomeKeeps, ReadKeeps, WriteKeeps, JoinKeeps DEF ClientStep
<1>3. ASSUME NEW env \in Envelopes, Publish(env) PROVE HubInv'
  BY <1>3, PublishKeeps
<1>4. CASE UNCHANGED hubVars
  <2>1. HubTypes' /\ SendingHolds'
    BY <1>4 DEF HubInv, HubTypes, SendingHolds, hubVars, queues, sending, history
  <2>2. \A c \in Clients : Calm(c)
    BY <1>4 DEF Calm, OnWay, Excused, Leaves, hubVars, queues, sending, history
  <2> QED
    BY <1>4, <2>1, <2>2, QuietKeeps DEF hubVars, queues, sending, history
<1> QED
  BY <1>1, <1>2, <1>3, <1>4 DEF HubNext

(* What is in the buffer and on its way, as one sequence.                   *)
LEMMA WaitingFacts ==
  ASSUME HubInv, NEW c \in Clients
  PROVE  /\ Waiting(c) \in Seq(Nat)
         /\ IF OnWay(c)
            THEN /\ Len(Waiting(c)) = Len(send[c]) + 1
                 /\ Waiting(c)[Len(send[c]) + 1] = event
            ELSE Len(Waiting(c)) = Len(send[c])
         /\ \A i \in 1 .. Len(send[c]) : Waiting(c)[i] = send[c][i]
<1>1. send[c] \in Seq(Nat) /\ event \in Nat
  BY DEF HubInv, HubTypes
<1>2. CASE OnWay(c)
  <2>1. Waiting(c) = send[c] \o <<event>>
    BY <1>2 DEF Waiting, OnItsWay, OnWay
  <2>2. <<event>> \in Seq(Nat) /\ Len(<<event>>) = 1 /\ <<event>>[1] = event
    BY <1>1
  <2> QED
    BY <1>1, <1>2, <2>1, <2>2, ConcatProperties, LenProperties
<1>3. CASE ~OnWay(c)
  <2>1. Waiting(c) = send[c] \o <<>>
    BY <1>3 DEF Waiting, OnItsWay, OnWay
  <2>2. Waiting(c) = send[c]
    BY <1>1, <2>1
  <2> QED
    BY <1>1, <1>3, <2>2
<1> QED
  BY <1>2, <1>3

(* One more in front.                                                       *)
LEMMA FrontFacts ==
  ASSUME NEW w \in Seq(Nat), NEW a \in Nat
  PROVE  /\ DOMAIN (<<a>> \o w) = 1 .. Len(w) + 1
         /\ (<<a>> \o w)[1] = a
         /\ \A i \in 1 .. Len(w) : (<<a>> \o w)[i + 1] = w[i]
<1>1. <<a>> \in Seq(Nat) /\ Len(<<a>>) = 1 /\ <<a>>[1] = a /\ Len(w) \in Nat
  BY LenProperties
<1>2. /\ <<a>> \o w \in Seq(Nat) /\ Len(<<a>> \o w) = 1 + Len(w)
      /\ \A i \in 1 .. Len(<<a>>) + Len(w) :
           (<<a>> \o w)[i] = IF i <= Len(<<a>>) THEN <<a>>[i] ELSE w[i - Len(<<a>>)]
  BY <1>1, ConcatProperties
<1>3. DOMAIN (<<a>> \o w) = 1 .. Len(w) + 1
  BY <1>1, <1>2, LenProperties
<1>4. \A i \in 1 .. Len(w) : i + 1 \in 1 .. 1 + Len(w) /\ ~(i + 1 <= 1) /\ (i + 1) - 1 = i
  BY <1>1
<1> QED
  BY <1>1, <1>2, <1>3, <1>4

(* What dispatch was given is taken up, waits before the hub, or was        *)
(* refused with a line in the log; what the hub took up for a client it     *)
(* keeps is written, waits for it in order, or could not be encoded, which  *)
(* is logged too; a client that missed an event is in the unregister        *)
(* channel or closed (hub.go's Fanout, client.go's Send and WritePump).     *)
THEOREM LossesAreLogged == HubSpec => []GapsAreLogged
<1>1. HubInv => NoneAstray
  <2> SUFFICES ASSUME HubInv PROVE NoneAstray
    OBVIOUS
  <2>1. DOMAIN envelopes = 1 .. Len(envelopes) /\ event \in Nat /\ Len(envelopes) \in Nat
    BY LenProperties DEF HubInv, HubTypes
  <2>2. \A i \in 1 .. Len(broadcast) : broadcast[i] \in Range(broadcast)
    BY LenProperties DEF Range, HubInv, HubTypes
  <2> QED
    BY <2>1, <2>2 DEF NoneAstray, TakenUp, HubInv, Queued
<1>2. HubInv => NoneWithheld
  <2> SUFFICES ASSUME HubInv, NEW c \in clients
               PROVE  \/ \A e \in owed[c] : e \in Range(Waiting(c)) \/ ~envelopes[e].json
                      \/ c \in missed /\ c \in Range(unregister)
                      \/ c \in closed
    BY DEF NoneWithheld
  <2>1. c \in Clients /\ Kept(c)
    BY DEF HubInv, HubTypes, Served
  <2>2. Leaves(c) => c \in Range(unregister)
    BY LenProperties DEF Leaves, Range, HubInv, HubTypes
  <2>3. PICK w \in Seq(Nat) : w = Waiting(c)
    BY <2>1, WaitingFacts
  <2>4. \A i \in 1 .. Len(w) : w[i] \in Range(w)
    BY LenProperties DEF Range
  <2>5. ASSUME NEW e, InBuffer(c, e)
        PROVE  e \in Range(w)
    <3>1. PICK i \in 1 .. Len(send[c]) : send[c][i] = e
      BY <2>5 DEF InBuffer
    <3>2. i \in 1 .. Len(w) /\ w[i] = e
      BY <2>1, <2>3, <3>1, WaitingFacts, LensNat
    <3> QED
      BY <2>4, <3>2
  <2>6. OnWay(c) => event \in Range(w)
    <3>1. OnWay(c) => Len(w) = Len(send[c]) + 1 /\ w[Len(send[c]) + 1] = event
      BY <2>1, <2>3, WaitingFacts
    <3>2. Len(send[c]) \in Nat
      BY <2>1, LensNat
    <3>3. Len(send[c]) + 1 \in 1 .. Len(send[c]) + 1
      BY <3>2
    <3> QED
      BY <2>4, <3>1, <3>3
  <2> QED
    BY <2>1, <2>2, <2>3, <2>5, <2>6 DEF Kept, Excused
<1>3. HubInv => InTurn
  <2> SUFFICES ASSUME HubInv, NEW c \in Clients
               PROVE  /\ InOrder(<<last[c]>> \o Waiting(c))
                      /\ \A e \in Range(Waiting(c)) \ {Welcome} : target(envelopes[e], c)
    BY DEF InTurn
  <2>1. PICK w \in Seq(Nat) : w = Waiting(c)
    BY WaitingFacts
  <2>2. PICK n \in Nat : n = Len(send[c])
    BY LensNat
  <2>3. PICK a \in Nat : a = last[c]
    BY DEF HubInv, HubTypes
  <2>4. \A i \in 1 .. Len(w) :
          (i \in 1 .. n /\ w[i] = send[c][i]) \/ (i = n + 1 /\ OnWay(c) /\ w[i] = event)
    <3>1. /\ IF OnWay(c) THEN Len(w) = n + 1 /\ w[n + 1] = event ELSE Len(w) = n
          /\ \A i \in 1 .. n : w[i] = send[c][i]
      BY <2>1, <2>2, WaitingFacts
    <3>2. ASSUME NEW i \in 1 .. Len(w)
          PROVE  (i \in 1 .. n /\ w[i] = send[c][i]) \/ (i = n + 1 /\ OnWay(c) /\ w[i] = event)
      <4>1. CASE OnWay(c)
        <5>1. i \in 1 .. n + 1 /\ w[n + 1] = event
          BY <3>1, <4>1
        <5>2. i \in 1 .. n \/ i = n + 1
          BY <5>1
        <5> QED
          BY <3>1, <4>1, <5>1, <5>2
      <4>2. CASE ~OnWay(c)
        BY <3>1, <4>2
      <4> QED
        BY <4>1, <4>2
    <3> QED
      BY <3>2
  <2>5. Ordered(c) /\ Meant(c)
    BY DEF HubInv, Served
  <2>6. \A i \in 1 .. Len(w) : w[i] # Welcome => a < w[i] /\ target(envelopes[w[i]], c)
    BY <2>2, <2>3, <2>4, <2>5 DEF Ordered, Meant
  <2>7. ASSUME NEW i \in 1 .. Len(w), NEW j \in 1 .. Len(w), i < j, w[j] # Welcome
        PROVE  w[i] < w[j]
    <3>1. /\ \A k, l \in 1 .. n : k < l /\ send[c][l] # Welcome => send[c][k] < send[c][l]
          /\ OnWay(c) => \A k \in 1 .. n : send[c][k] < event
      BY <2>2, <2>5 DEF Ordered
    <3>2. j \in 1 .. n + 1
      BY <2>4
    <3>3. i \in 1 .. n /\ w[i] = send[c][i]
      BY <2>4, <2>7, <3>2
    <3>4. CASE j \in 1 .. n /\ w[j] = send[c][j]
      BY <2>7, <3>1, <3>3, <3>4
    <3>5. CASE OnWay(c) /\ w[j] = event
      BY <3>1, <3>3, <3>5
    <3> QED
      BY <2>4, <3>4, <3>5
  <2>8. \A e \in Range(w) : \E i \in 1 .. Len(w) : w[i] = e
    BY LenProperties DEF Range
  <2>9. InOrder(<<a>> \o w)
    <3> SUFFICES ASSUME NEW i \in 1 .. Len(w) + 1, NEW j \in 1 .. Len(w) + 1, i < j,
                        (<<a>> \o w)[j] # Welcome
                 PROVE  (<<a>> \o w)[i] < (<<a>> \o w)[j]
      BY FrontFacts DEF InOrder
    <3>1. PICK k \in 1 .. Len(w) : j = k + 1
      <4>1. j - 1 \in 1 .. Len(w) /\ j = (j - 1) + 1
        BY LenProperties
      <4> QED
        BY <4>1
    <3>2. (<<a>> \o w)[j] = w[k]
      BY <3>1, FrontFacts
    <3>3. CASE i = 1
      BY <2>6, <3>2, <3>3, FrontFacts
    <3>4. CASE i # 1
      <4>1. PICK l \in 1 .. Len(w) : i = l + 1
        <5>1. i - 1 \in 1 .. Len(w) /\ i = (i - 1) + 1
          BY <3>4, LenProperties
        <5> QED
          BY <5>1
      <4>2. (<<a>> \o w)[i] = w[l] /\ l < k
        BY <3>1, <4>1, FrontFacts
      <4> QED
        BY <2>7, <3>2, <4>2
    <3> QED
      BY <3>3, <3>4
  <2> QED
    BY <2>1, <2>3, <2>6, <2>8, <2>9
<1> QED
  BY InitHubInv, StepHubInv, <1>1, <1>2, <1>3, PTL DEF HubSpec, GapsAreLogged
==============================================================================
