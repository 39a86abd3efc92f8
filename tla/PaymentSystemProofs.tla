------------------------ MODULE PaymentSystemProofs ------------------------
(***************************************************************************)
(* Theorems about PaymentSystem for every set of orders, references,       *)
(* products, workers, agents and staff, and every failure budget.          *)
(***************************************************************************)
EXTENDS PaymentSystem, TLAPS

USE ShopDataAssumption, PaymentEventsAssumption, PaymentServiceAssumption,
    PaymentLinksAssumption, DeliveryCliAssumption

-----------------------------------------------------------------------------
(* The reference and the order of a worker that is handling a job.         *)
LEMMA HandledRef ==
  ASSUME TypeOK, NEW w \in Workers, pc[w] # "idle"
  PROVE  cur[w] \in Events /\ Ref(w) \in Refs /\ Ord(w) \in Orders
BY DEF TypeOK, ServiceTypeOK, Ref, Ord

(* A deduction that the guard admits leaves natural quantities.            *)
LEMMA DeductNat ==
  ASSUME TypeOK, NEW o \in Orders, InStock(o)
  PROVE  Deduct(o) \in [Products -> Nat]
BY DEF TypeOK, DataTypeOK, InStock, Deduct

LEMMA SnapshotType ==
  ASSUME TypeOK, NEW o \in Orders
  PROVE  Snapshot(o) \in Snapshots
BY DEF TypeOK, DataTypeOK, Snapshot, Snapshots

LEMMA EventsTypeStep ==
  ASSUME TypeOK, EventsNext, UNCHANGED <<dataVars, serviceVars, linkVars, task>>
  PROVE  TypeOK'
<1> USE DEF TypeOK, EventsTypeOK
<1>0. DataTypeOK' /\ ServiceTypeOK' /\ LinksTypeOK' /\ DeliveryTypeOK'
  BY DEF dataVars, serviceVars, linkVars, DataTypeOK, ServiceTypeOK,
         LinksTypeOK, DeliveryTypeOK
<1>1. ASSUME NEW r \in Refs, Pay(r) \/ Decline(r)
      PROVE  EventsTypeOK'
  BY ZenonT(30), <1>1 DEF Pay, Decline
<1>2. ASSUME NEW e \in Events, CaptureRawEvent(e)
      PROVE  EventsTypeOK'
  BY <1>2 DEF CaptureRawEvent
<1>3. ASSUME NEW e \in Events, EnqueuePaymentEvent(e)
      PROVE  EventsTypeOK'
  <2>1. inflight[e] - 1 \in 0..MaxInflight
    BY <1>3 DEF EnqueuePaymentEvent
  <2>2. inflight' \in [Events -> 0..MaxInflight]
    BY <1>3, <2>1 DEF EnqueuePaymentEvent
  <2>3. job' \in [Events -> {"none", "wait", "active", "done", "failed"}]
        /\ attempts' \in [Events -> Nat]
    BY <1>3 DEF EnqueuePaymentEvent
  <2> QED
    BY <1>3, <2>2, <2>3 DEF EnqueuePaymentEvent
<1>4. ASSUME NEW e \in Events, ApiFails(e)
      PROVE  EventsTypeOK'
  BY <1>4 DEF ApiFails, Inject
<1>5. ASSUME NEW e \in Events, Evict(e)
      PROVE  EventsTypeOK'
  BY <1>5 DEF Evict
<1> QED
  BY <1>0, <1>1, <1>2, <1>3, <1>4, <1>5 DEF EventsNext

LEMMA LinksTypeStep ==
  ASSUME TypeOK, LinksNext, UNCHANGED <<serviceVars, task>>
  PROVE  TypeOK'
<1> USE DEF TypeOK, DataTypeOK, EventsTypeOK, LinksTypeOK, KeepQueue, Leave
<1>0. ServiceTypeOK' /\ DeliveryTypeOK'
  BY DEF serviceVars, ServiceTypeOK, DeliveryTypeOK
<1>1. ASSUME NEW a \in Agents, NEW o \in Orders, ReadOrder(a, o)
      PROVE  TypeOK'
  BY <1>0, <1>1 DEF ReadOrder, dataVars
<1>2. ASSUME NEW a \in Agents, ReusePending(a)
      PROVE  TypeOK'
  BY <1>0, <1>2 DEF ReusePending, PendingOf, dataVars
<1>3. ASSUME NEW a \in Agents, CallPaystack(a)
      PROVE  TypeOK'
  BY <1>0, <1>3 DEF CallPaystack, dataVars
<1>7. ASSUME NEW a \in Agents, PaystackRefuses(a)
      PROVE  TypeOK'
  BY <1>0, <1>7 DEF PaystackRefuses, dataVars
<1>4. ASSUME NEW a \in Agents, CreatePayment(a)
      PROVE  TypeOK'
  BY <1>0, <1>4 DEF CreatePayment, Fresh, PaymentStatus
<1>5. ASSUME NEW a \in Agents, FlipOrder(a)
      PROVE  TypeOK'
  BY <1>0, <1>5 DEF FlipOrder, OrderStatus
<1>6. ASSUME NEW a \in Agents, AgentFails(a)
      PROVE  TypeOK'
  BY <1>0, <1>6 DEF AgentFails, Inject, dataVars
<1> QED
  BY <1>1, <1>2, <1>3, <1>4, <1>5, <1>6, <1>7 DEF LinksNext

LEMMA DeliveryTypeStep ==
  ASSUME TypeOK, DeliveryNext, UNCHANGED <<eventVars, serviceVars, linkVars>>
  PROVE  TypeOK'
<1> USE DEF TypeOK, DataTypeOK, DeliveryTypeOK
<1>0. EventsTypeOK' /\ ServiceTypeOK' /\ LinksTypeOK'
  BY DEF eventVars, serviceVars, linkVars, EventsTypeOK, ServiceTypeOK, LinksTypeOK
<1>1. ASSUME NEW s \in Staff, NEW o \in Orders,
             NEW next \in {"PROCESSING", "SHIPPED", "DELIVERED"},
             ReadDelivery(s, o, next)
      PROVE  TypeOK'
  BY <1>0, <1>1 DEF ReadDelivery, DeliveryStatus, dataVars
<1>2. ASSUME NEW s \in Staff, WriteDelivery(s)
      PROVE  TypeOK'
  <2>1. task[s] \in [order : Orders, next : DeliveryStatus]
    BY <1>2 DEF WriteDelivery
  <2>2. status' \in [Orders -> OrderStatus] /\ delivery' \in [Orders -> DeliveryStatus]
    BY <1>2, <2>1 DEF WriteDelivery, OrderStatus
  <2> QED
    BY <1>0, <1>2, <2>2 DEF WriteDelivery
<1> QED
  BY <1>1, <1>2 DEF DeliveryNext

LEMMA ServiceTypeStep ==
  ASSUME TypeOK, ServiceNext, UNCHANGED <<linkVars, task>>
  PROVE  TypeOK'
<1> USE HandledRef DEF TypeOK, DataTypeOK, EventsTypeOK, ServiceTypeOK,
        Goto, KeepEvents, historyVars, dataVars, Steps
<1>0. LinksTypeOK' /\ DeliveryTypeOK'
  BY DEF linkVars, LinksTypeOK, DeliveryTypeOK
<1>s. NoSnap \in Snapshots
  BY DEF NoSnap, Snapshots, OrderStatus
<1>1. ASSUME NEW w \in Workers, NEW e \in Events, TakeJob(w, e)
      PROVE  TypeOK'
  <2>1. Snapshot(OrderOf[e.ref]) \in Snapshots
    BY SnapshotType
  <2>2. AfterRead(e) \in Steps
    BY DEF AfterRead, SuccessStep
  <2> QED
    BY <1>0, <1>1, <2>1, <2>2 DEF TakeJob
<1>2. ASSUME NEW w \in Workers, ClaimFailed(w)
      PROVE  TypeOK'
  BY <1>0, <1>2 DEF ClaimFailed, PaymentStatus
<1>13. ASSUME NEW w \in Workers, HandleChargeFailed(w)
       PROVE  TypeOK'
  <2>1. ToFailed(Ref(w)) \in PaymentStatus
    BY <1>13 DEF HandleChargeFailed, ToFailed, PaymentStatus
  <2> QED
    BY <1>0, <1>13, <2>1 DEF HandleChargeFailed
<1>3. ASSUME NEW w \in Workers, ClaimSuccess(w)
      PROVE  TypeOK'
  <2>1. payment' \in [Refs -> PaymentStatus]
    BY <1>3 DEF ClaimSuccess, PaymentStatus
  <2>2. PICK s \in {"tx", "confirm", "done"} : pc' = [pc EXCEPT ![w] = s]
    BY <1>3, Zenon DEF ClaimSuccess
  <2> QED
    BY <1>0, <1>3, <2>1, <2>2 DEF ClaimSuccess
<1>4. ASSUME NEW w \in Workers, Settle(w)
      PROVE  TypeOK'
  <2>1. Deduct(Ord(w)) \in [Products -> Nat]
    BY <1>4, DeductNat DEF Settle, Covered
  <2> QED
    BY <1>0, <1>4, <2>1 DEF Settle, OrderStatus, DeliveryStatus
<1>5. ASSUME NEW w \in Workers, StockRace(w)
      PROVE  TypeOK'
  BY <1>0, <1>5 DEF StockRace
<1>14. ASSUME NEW w \in Workers, HandleStockRace(w)
       PROVE  TypeOK'
  BY <1>0, <1>14 DEF HandleStockRace, OrderStatus
<1>6. ASSUME NEW w \in Workers, ClaimConfirmation(w)
      PROVE  TypeOK'
  BY ZenonT(30), <1>0, <1>6 DEF ClaimConfirmation
<1>7. ASSUME NEW w \in Workers, SendReceipt(w)
      PROVE  TypeOK'
  BY <1>0, <1>7 DEF SendReceipt
<1>15. ASSUME NEW w \in Workers, SendFails(w)
       PROVE  TypeOK'
  BY <1>0, <1>15 DEF SendFails
<1>16. ASSUME NEW w \in Workers, PersistReceipt(w)
       PROVE  TypeOK'
  BY <1>0, <1>16 DEF PersistReceipt
<1>8. ASSUME NEW w \in Workers, ReplyLost(w)
      PROVE  TypeOK'
  BY <1>0, <1>8 DEF ReplyLost, Inject
<1>9. ASSUME NEW w \in Workers, ReleaseConfirmation(w)
      PROVE  TypeOK'
  BY <1>0, <1>s, <1>9 DEF ReleaseConfirmation, FailAttempt
<1>10. ASSUME NEW w \in Workers, MarkProcessed(w)
       PROVE  TypeOK'
  <2>1. evt' \in [Events -> {"none", "PENDING", "PROCESSED"}] /\ faults' \in 0..MaxFaults
    BY SMTT(30), <1>10 DEF MarkProcessed, Inject
  <2> QED
    BY <1>0, <1>s, <1>10, <2>1 DEF MarkProcessed
<1>11. ASSUME NEW w \in Workers, Abort(w)
       PROVE  TypeOK'
  BY <1>0, <1>s, <1>11 DEF Abort, FailAttempt, Inject
<1>12. ASSUME NEW w \in Workers, Crash(w)
       PROVE  TypeOK'
  BY <1>0, <1>s, <1>12 DEF Crash, Inject
<1> QED
  BY <1>1, <1>2, <1>3, <1>4, <1>5, <1>6, <1>7, <1>8, <1>9, <1>10, <1>11, <1>12,
     <1>13, <1>14, <1>15, <1>16
     DEF ServiceNext, Handle

(* Every variable keeps its type; in particular a stock level is never     *)
(* negative, whatever payments race for it (handleChargeSuccess).          *)
THEOREM TypeCorrect == Spec => []TypeOK
<1>1. Init => TypeOK
  BY DEF Init, DataInit, EventsInit, ServiceInit, LinksInit, DeliveryInit,
         TypeOK, DataTypeOK, EventsTypeOK, ServiceTypeOK, LinksTypeOK,
         DeliveryTypeOK, OrderStatus, DeliveryStatus, PaymentStatus, Steps,
         Snapshots, NoSnap
<1>2. TypeOK /\ [Next]_vars => TypeOK'
  <2> SUFFICES ASSUME TypeOK, [Next]_vars PROVE TypeOK'
    OBVIOUS
  <2>1. CASE UNCHANGED vars
    BY <2>1 DEF vars, dataVars, eventVars, serviceVars, linkVars, TypeOK,
         DataTypeOK, EventsTypeOK, ServiceTypeOK, LinksTypeOK, DeliveryTypeOK
  <2> QED
    BY <2>1, EventsTypeStep, ServiceTypeStep, LinksTypeStep, DeliveryTypeStep
       DEF Next
<1> QED
  BY <1>1, <1>2, PTL DEF Spec


-----------------------------------------------------------------------------
(* What the steps of each component may do to the variables the invariants *)
(* speak about.                                                            *)

Shipping == {"PAID", "FULFILLING", "FULFILLED"}
Sending == {"send", "release"}

(* One step of worker w inside a job.                                      *)
WorkerMove(w) ==
  /\ UNCHANGED <<charge, declined, inflight>>
  /\ pc[w] # "idle"
  /\ \A v \in Workers \ {w} : pc'[v] = pc[v] /\ cur'[v] = cur[v]
  /\ pc'[w] # "idle" => cur'[w] = cur[w]
  /\ pc'[w] \in Claiming => pc[w] = "claim" /\ pc'[w] = "tx"
  /\ \A e \in Events : /\ evt'[e] # "none" => evt[e] # "none"
                       /\ job'[e] # "none" => job[e] # "none" \/ e = cur[w]

(* What it does to payments and deductions.                                *)
PaymentMove(w) ==
  /\ \A r \in Refs : /\ payment[r] = "SUCCESS" => payment'[r] = "SUCCESS"
                     /\ payment[r] = "none" <=> payment'[r] = "none"
  /\ pc'[w] = "tx" => payment[Ref(w)] # "SUCCESS" /\ payment'[Ref(w)] = "SUCCESS"
  /\ \/ settled' = settled
     \/ pc[w] = "tx" /\ settled' = [settled EXCEPT ![Ref(w)] = @ + 1]

(* What it does to an order and its receipt.                               *)
OrderMove(w) ==
  /\ \A o \in Orders : status'[o] \in Shipping =>
       status[o] \in Shipping \/ (pc[w] = "tx" /\ o = Ord(w) /\ settled' # settled)
  /\ \A o \in Orders : tracked[o] => tracked'[o]
  /\ settled' # settled => tracked'[Ord(w)]
  /\ \/ UNCHANGED <<conf, confirmed>> /\ (pc'[w] \in Sending => pc[w] \in Sending)
     \/ /\ pc[w] = "confirm" /\ pc'[w] = "send"
        /\ status[Ord(w)] = "PAID" /\ ~conf[Ord(w)]
        /\ conf' = [conf EXCEPT ![Ord(w)] = TRUE] /\ UNCHANGED confirmed
     \/ /\ pc[w] = "send" /\ pc'[w] \notin Sending /\ UNCHANGED conf
        /\ confirmed' = [confirmed EXCEPT ![Ord(w)] = @ + 1]
     \/ /\ pc[w] = "release" /\ pc'[w] \notin Sending /\ UNCHANGED confirmed
        /\ conf' = [conf EXCEPT ![Ord(w)] = FALSE]

LEMMA WorkerMoves ==
  ASSUME TypeOK, SettleInv, NEW w \in Workers, Handle(w) \/ Abort(w) \/ Crash(w)
  PROVE  WorkerMove(w)
<1> USE HandledRef DEF TypeOK, EventsTypeOK, ServiceTypeOK, Goto, KeepEvents, FailAttempt,
        WorkerMove, Claiming
<1>1. CASE ClaimFailed(w)
  BY <1>1 DEF ClaimFailed
<1>2. CASE HandleChargeFailed(w)
  BY <1>2 DEF HandleChargeFailed
<1>3. CASE ClaimSuccess(w)
  BY <1>3 DEF ClaimSuccess
<1>4. CASE Settle(w)
  BY <1>4 DEF Settle
<1>5. CASE StockRace(w)
  BY <1>5 DEF StockRace
<1>6. CASE HandleStockRace(w)
  BY <1>6 DEF HandleStockRace
<1>7. CASE ClaimConfirmation(w)
  BY <1>7 DEF ClaimConfirmation
<1>8. CASE SendReceipt(w)
  BY <1>8 DEF SendReceipt
<1>9. CASE ReplyLost(w)
  BY <1>9 DEF ReplyLost, Inject
<1>10. CASE SendFails(w)
  BY <1>10 DEF SendFails
<1>11. CASE ReleaseConfirmation(w)
  BY <1>11 DEF ReleaseConfirmation
<1>12. CASE PersistReceipt(w)
  BY <1>12 DEF PersistReceipt
<1>13. CASE MarkProcessed(w)
  BY <1>13 DEF MarkProcessed, Inject
<1>14. CASE Abort(w)
  BY <1>14 DEF Abort, Inject
<1>15. CASE Crash(w)
  BY <1>15 DEF Crash, Inject
<1> QED
  BY ONLY Handle(w) \/ Abort(w) \/ Crash(w), <1>1, <1>2, <1>3, <1>4, <1>5, <1>6, <1>7, <1>8,
     <1>9, <1>10, <1>11, <1>12, <1>13, <1>14, <1>15 DEF Handle

LEMMA PaymentMoves ==
  ASSUME TypeOK, SettleInv, NEW w \in Workers, Handle(w) \/ Abort(w) \/ Crash(w)
  PROVE  PaymentMove(w)
<1> USE HandledRef DEF TypeOK, DataTypeOK, ServiceTypeOK, Goto, Ref, FailAttempt,
        dataVars, historyVars, PaymentMove, Claiming, SettleInv
<1>1. CASE ClaimFailed(w)
  BY <1>1 DEF ClaimFailed, Claimable
<1>2. CASE HandleChargeFailed(w)
  BY <1>2 DEF HandleChargeFailed, ToFailed
<1>3. CASE ClaimSuccess(w)
  BY <1>3 DEF ClaimSuccess, Claimable
<1>4. CASE Settle(w)
  BY <1>4 DEF Settle
<1>5. CASE StockRace(w)
  BY <1>5 DEF StockRace
<1>6. CASE HandleStockRace(w)
  BY <1>6 DEF HandleStockRace
<1>7. CASE ClaimConfirmation(w)
  BY <1>7 DEF ClaimConfirmation
<1>8. CASE SendReceipt(w)
  BY <1>8 DEF SendReceipt
<1>9. CASE ReplyLost(w)
  BY <1>9 DEF ReplyLost
<1>10. CASE SendFails(w)
  BY <1>10 DEF SendFails
<1>11. CASE ReleaseConfirmation(w)
  BY <1>11 DEF ReleaseConfirmation
<1>12. CASE PersistReceipt(w)
  BY <1>12 DEF PersistReceipt
<1>13. CASE MarkProcessed(w)
  BY <1>13 DEF MarkProcessed
<1>14. CASE Abort(w)
  BY <1>14 DEF Abort
<1>15. CASE Crash(w)
  BY <1>15 DEF Crash
<1> QED
  BY ONLY Handle(w) \/ Abort(w) \/ Crash(w), <1>1, <1>2, <1>3, <1>4, <1>5, <1>6, <1>7, <1>8,
     <1>9, <1>10, <1>11, <1>12, <1>13, <1>14, <1>15 DEF Handle

LEMMA OrderMoves ==
  ASSUME TypeOK, SettleInv, NEW w \in Workers, Handle(w) \/ Abort(w) \/ Crash(w)
  PROVE  OrderMove(w)
<1> USE HandledRef DEF TypeOK, DataTypeOK, ServiceTypeOK, Goto, FailAttempt,
        dataVars, historyVars, OrderMove, Shipping, Sending
<1>1. CASE ClaimFailed(w)
  BY <1>1 DEF ClaimFailed
<1>2. CASE HandleChargeFailed(w)
  BY <1>2 DEF HandleChargeFailed
<1>3. CASE ClaimSuccess(w)
  BY <1>3 DEF ClaimSuccess
<1>4. CASE Settle(w)
  BY <1>4 DEF Settle
<1>5. CASE StockRace(w)
  BY <1>5 DEF StockRace
<1>6. CASE HandleStockRace(w)
  BY <1>6 DEF HandleStockRace
<1>7. CASE ClaimConfirmation(w)
  BY <1>7 DEF ClaimConfirmation, Unconfirmed
<1>8. CASE SendReceipt(w)
  BY <1>8 DEF SendReceipt
<1>9. CASE ReplyLost(w)
  BY <1>9 DEF ReplyLost
<1>10. CASE SendFails(w)
  BY <1>10 DEF SendFails
<1>11. CASE ReleaseConfirmation(w)
  BY <1>11 DEF ReleaseConfirmation
<1>12. CASE PersistReceipt(w)
  BY <1>12 DEF PersistReceipt
<1>13. CASE MarkProcessed(w)
  BY <1>13 DEF MarkProcessed
<1>14. CASE Abort(w)
  BY <1>14 DEF Abort
<1>15. CASE Crash(w)
  BY <1>15 DEF Crash
<1> QED
  BY ONLY Handle(w) \/ Abort(w) \/ Crash(w), <1>1, <1>2, <1>3, <1>4, <1>5, <1>6, <1>7, <1>8,
     <1>9, <1>10, <1>11, <1>12, <1>13, <1>14, <1>15 DEF Handle

(* Paystack, the endpoint and the queue.                                   *)
LEMMA EventMoves ==
  ASSUME TypeOK, EventsNext
  PROVE  /\ \A r \in Refs : /\ charge[r] # "unpaid" => charge'[r] = charge[r]
                            /\ declined[r] => declined'[r]
         /\ \A e \in Events :
              evt'[e] # "none" \/ inflight'[e] > 0 \/ job'[e] # "none"
                => \/ evt[e] # "none" \/ inflight[e] > 0 \/ job[e] # "none"
                   \/ Occurred(e)
<1> USE DEF TypeOK, EventsTypeOK
<1>1. ASSUME NEW r \in Refs, Pay(r)
      PROVE  /\ UNCHANGED <<declined, evt, inflight, job>> /\ charge[r] = "unpaid"
             /\ \A q \in Refs : q # r => charge'[q] = charge[q]
  BY <1>1 DEF Pay, Chargeable
<1>2. ASSUME NEW r \in Refs, Decline(r)
      PROVE  /\ UNCHANGED <<charge, evt, inflight, job>>
             /\ \A q \in Refs : declined[q] => declined'[q]
  BY <1>2 DEF Decline
<1>3. CASE \E e \in Events : CaptureRawEvent(e)
  BY <1>3 DEF CaptureRawEvent
<1>4. CASE \E e \in Events : EnqueuePaymentEvent(e)
  BY <1>4 DEF EnqueuePaymentEvent
<1>5. CASE \E e \in Events : ApiFails(e)
  BY <1>5 DEF ApiFails
<1>6. CASE \E e \in Events : Evict(e)
  BY <1>6 DEF Evict
<1> QED
  BY <1>1, <1>2, <1>3, <1>4, <1>5, <1>6 DEF EventsNext

(* The payment-link tool creates payments and reopens orders; the delivery *)
(* command moves orders along.                                             *)
LEMMA LinkMoves ==
  ASSUME TypeOK, LinksNext
  PROVE  /\ UNCHANGED <<delivery, tracked, conf, stock, charge, declined, evt,
                        inflight, job, attempts>>
         /\ \A r \in Refs : payment'[r] # payment[r] =>
              payment[r] = "none" /\ payment'[r] = "PENDING" /\ r \notin Foreign
         /\ \A o \in Orders : status'[o] \in Shipping => status[o] \in Shipping
<1> USE DEF TypeOK, DataTypeOK, LinksTypeOK, dataVars, KeepQueue, Shipping
<1>1. ASSUME NEW a \in Agents, NEW o \in Orders, ReadOrder(a, o)
      PROVE  UNCHANGED <<dataVars, charge, declined, evt, inflight, job, attempts>>
  BY <1>1 DEF ReadOrder
<1>2. ASSUME NEW a \in Agents,
             ReusePending(a) \/ CallPaystack(a) \/ PaystackRefuses(a) \/ AgentFails(a)
      PROVE  UNCHANGED <<dataVars, charge, declined, evt, inflight, job, attempts>>
  BY <1>2 DEF ReusePending, CallPaystack, PaystackRefuses, AgentFails
<1>3. CASE \E a \in Agents : CreatePayment(a)
  BY <1>3 DEF CreatePayment, Fresh
<1>4. CASE \E a \in Agents : FlipOrder(a)
  BY <1>4 DEF FlipOrder
<1> QED
  BY <1>1, <1>2, <1>3, <1>4 DEF LinksNext

LEMMA DeliveryMoves ==
  ASSUME TypeOK, DeliveryNext
  PROVE  /\ UNCHANGED <<tracked, conf, payment, stock>>
         /\ \A o \in Orders : status'[o] # status[o] =>
              \E s \in Staff : task[s] # NoTask /\ task[s].order = o
         /\ \A s \in Staff : task'[s] \notin {NoTask, task[s]} =>
              task'[s].order \in Orders /\ status[task'[s].order] \in Shipping
<1> USE DEF TypeOK, DataTypeOK, DeliveryTypeOK, dataVars, Shipping
<1>1. ASSUME NEW s \in Staff, NEW o \in Orders,
             NEW next \in {"PROCESSING", "SHIPPED", "DELIVERED"},
             ReadDelivery(s, o, next)
      PROVE  /\ UNCHANGED dataVars /\ status[o] \in Shipping
             /\ task' = [task EXCEPT ![s] = [order |-> o, next |-> next]]
  BY <1>1 DEF ReadDelivery, Ships
<1>2. ASSUME NEW s \in Staff, WriteDelivery(s)
      PROVE  /\ UNCHANGED <<tracked, conf, payment, stock>> /\ task[s] # NoTask
             /\ task' = [task EXCEPT ![s] = NoTask]
             /\ \A o \in Orders : status'[o] # status[o] => task[s].order = o
  BY <1>2 DEF WriteDelivery
<1> QED
  BY <1>1, <1>2 DEF DeliveryNext

-----------------------------------------------------------------------------
(* Deductions.  The reads of a new job establish what the claim rests on;  *)
(* the claim is what makes a settling worker the only one for its payment. *)
LEMMA SettleInvStep ==
  ASSUME TypeOK, SettleInv, [Next]_vars
  PROVE  SettleInv'
<1> USE HandledRef DEF SettleInv, Claiming, TypeOK, DataTypeOK, EventsTypeOK,
        ServiceTypeOK, Ref
<1>1. CASE EventsNext /\ UNCHANGED <<dataVars, serviceVars, linkVars, task>>
  <2>1. UNCHANGED <<payment, settled, pc, cur>>
    BY <1>1 DEF dataVars, serviceVars
  <2>2. \A w \in Workers : pc[w] # "idle" => Ref(w)' = Ref(w) /\ Ref(w) \in Refs
    BY <2>1
  <2>3. \A e \in Events : Occurred(e) => Occurred(e)'
    BY <1>1, EventMoves DEF Occurred
  <2>4. \A e \in Events :
          evt'[e] # "none" \/ inflight'[e] > 0 \/ job'[e] # "none" => Occurred(e)
    BY <1>1, EventMoves
  <2> QED
    BY ONLY SettleInv, TypeOK, <1>1, <2>1, <2>2, <2>3, <2>4, EventMoves
       DEF SettleInv, TypeOK, ServiceTypeOK, Claiming
<1>2. CASE LinksNext /\ UNCHANGED <<serviceVars, task>>
  <2>1. UNCHANGED <<settled, pc, cur>>
    BY <1>2 DEF serviceVars
  <2>2. \A e \in Events : Occurred(e)' = Occurred(e)
    BY <1>2, LinkMoves DEF Occurred
  <2>3. \A w \in Workers : pc[w] # "idle" => Ref(w)' = Ref(w) /\ Ref(w) \in Refs
    BY <2>1
  <2>4. \A r \in Refs : /\ payment[r] # "none" => payment'[r] = payment[r]
                        /\ r \in Foreign => payment'[r] = payment[r]
    BY <1>2, LinkMoves
  <2>5. (\A w \in Workers : pc[w] \in Claiming => payment[Ref(w)] # "none")'
    <3>1. \A w \in Workers : pc[w] \in Claiming => payment[Ref(w)] # "none"
      BY DEF SettleInv
    <3>2. \A w \in Workers : pc[w] \in Claiming => pc[w] # "idle"
      BY DEF Claiming
    <3> QED
      BY ONLY <2>1, <2>3, <2>4, <3>1, <3>2 DEF Claiming
  <2>6. (\A w \in Workers : pc[w] \in {"claim", "tx"} => charge[Ref(w)] = "paid")'
    BY <1>2, <2>1, <2>3, LinkMoves
  <2>7. (\A w \in Workers :
           pc[w] = "tx" => payment[Ref(w)] = "SUCCESS" /\ settled[Ref(w)] = 0)'
    BY <2>1, <2>3, <2>4
  <2>8. (\A v, w \in Workers :
           v # w /\ pc[v] = "tx" /\ pc[w] = "tx" => Ref(v) # Ref(w))'
    BY <2>1
  <2>9. (\A r \in Refs : settled[r] > 0 =>
           settled[r] = 1 /\ payment[r] = "SUCCESS" /\ charge[r] = "paid")'
    BY <1>2, <2>1, <2>4, LinkMoves
  <2>10. (\A r \in Foreign : payment[r] = "none")'
    BY <2>4
  <2>11. (\A w \in Workers : pc[w] # "idle" => Occurred(cur[w]))'
    BY <2>1, <2>2
  <2>12. (\A e \in Events :
            evt[e] # "none" \/ inflight[e] > 0 \/ job[e] # "none" => Occurred(e))'
    BY <1>2, <2>2, LinkMoves
  <2> QED
    BY ONLY <2>5, <2>6, <2>7, <2>8, <2>9, <2>10, <2>11, <2>12 DEF SettleInv
<1>3. CASE DeliveryNext /\ UNCHANGED <<eventVars, serviceVars, linkVars>>
  BY <1>3, DeliveryMoves DEF eventVars, serviceVars, Occurred
<1>4. ASSUME NEW w \in Workers, NEW e \in Events, TakeJob(w, e)
      PROVE  SettleInv'
  <2>1. /\ UNCHANGED <<payment, charge, settled, evt, inflight>>
        /\ cur' = [cur EXCEPT ![w] = e] /\ pc' = [pc EXCEPT ![w] = AfterRead(e)]
        /\ job' = [job EXCEPT ![e] = "active"] /\ Occurred(e)
    BY <1>4 DEF TakeJob, Goto, KeepEvents, dataVars, historyVars
  <2>2. \A d \in Events : Occurred(d)' = Occurred(d)
    BY <1>4 DEF TakeJob, KeepEvents, Occurred
  <2>3. /\ AfterRead(e) # "tx"
        /\ AfterRead(e) \in Claiming => payment[e.ref] # "none"
        /\ AfterRead(e) = "claim" => charge[e.ref] = "paid"
    BY <2>1 DEF AfterRead, SuccessStep, Occurred
  <2> QED
    BY <2>1, <2>2, <2>3
<1>5. ASSUME NEW w \in Workers, Handle(w) \/ Abort(w) \/ Crash(w)
      PROVE  SettleInv'
  <2>1. WorkerMove(w) /\ PaymentMove(w)
    BY <1>5, WorkerMoves, PaymentMoves
  <2>2. \A e \in Events : Occurred(e)' = Occurred(e)
    BY <2>1 DEF WorkerMove, Occurred
  <2>3. \A e \in Events :
          evt'[e] # "none" \/ inflight'[e] > 0 \/ job'[e] # "none" => Occurred(e)
    BY <2>1 DEF WorkerMove
  <2>4. \A v \in Workers : pc'[v] # "idle" => cur'[v] = cur[v] /\ pc[v] # "idle"
    BY <2>1 DEF WorkerMove
  <2>5. \A v \in Workers : pc'[v] \in Claiming =>
          /\ Ref(v)' = Ref(v) /\ Ref(v) \in Refs
          /\ pc[v] \in Claiming
          /\ pc'[v] # pc[v] => pc[v] = "claim" /\ pc'[v] = "tx" /\ v = w
    BY <2>1, <2>4 DEF WorkerMove
  <2>6. \A v \in Workers : pc'[v] = "tx" =>
          \/ pc[v] = "tx" /\ v # w
          \/ v = w /\ payment[Ref(v)] # "SUCCESS" /\ pc[v] = "claim" /\ settled' = settled
    BY <2>1, <2>5 DEF WorkerMove, PaymentMove
  <2>7. (\A v \in Workers : pc[v] \in Claiming => payment[Ref(v)] # "none")'
    BY SMTT(30), <2>1, <2>5 DEF PaymentMove
  <2>8. (\A v \in Workers : pc[v] \in {"claim", "tx"} => charge[Ref(v)] = "paid")'
    BY <2>1, <2>5 DEF WorkerMove
  <2>9. (\A v \in Workers :
           pc[v] = "tx" => payment[Ref(v)] = "SUCCESS" /\ settled[Ref(v)] = 0)'
    <3>1. ASSUME NEW v \in Workers, pc'[v] = "tx"
          PROVE  payment'[Ref(v)] = "SUCCESS" /\ settled'[Ref(v)] = 0
      <4>1. CASE pc[v] = "tx" /\ v # w
        <5>1. payment'[Ref(v)] = "SUCCESS" /\ settled[Ref(v)] = 0
          BY <2>1, <2>5, <3>1, <4>1 DEF PaymentMove
        <5>2. pc[w] = "tx" => Ref(w) # Ref(v)
          BY <4>1
        <5> QED
          BY <2>1, <4>1, <5>1, <5>2 DEF PaymentMove, WorkerMove
      <4>2. CASE v = w /\ payment[Ref(v)] # "SUCCESS" /\ settled' = settled
        BY <2>1, <2>5, <3>1, <4>2 DEF PaymentMove
      <4> QED
        BY <2>6, <3>1, <4>1, <4>2
    <3>2. \A v \in Workers : pc'[v] = "tx" => Ref(v)' = Ref(v)
      BY <2>5
    <3> QED
      BY <3>1, <3>2
  <2>10. (\A u, v \in Workers :
            u # v /\ pc[u] = "tx" /\ pc[v] = "tx" => Ref(u) # Ref(v))'
    <3>1. \A v \in Workers : pc'[v] = "tx" => Ref(v)' = Ref(v)
      BY <2>5
    <3>2. \A u, v \in Workers :
            u # v /\ pc'[u] = "tx" /\ pc'[v] = "tx" => Ref(u) # Ref(v)
      BY <2>6
    <3> QED
      BY <3>1, <3>2
  <2>11. (\A r \in Refs : settled[r] > 0 =>
            settled[r] = 1 /\ payment[r] = "SUCCESS" /\ charge[r] = "paid")'
    <3>1. CASE settled' = settled
      BY <2>1, <3>1 DEF WorkerMove, PaymentMove
    <3>2. CASE pc[w] = "tx" /\ settled' = [settled EXCEPT ![Ref(w)] = @ + 1]
      <4>1. Ref(w) \in Refs /\ payment[Ref(w)] = "SUCCESS" /\ settled[Ref(w)] = 0
            /\ charge[Ref(w)] = "paid"
        BY <3>2
      <4> QED
        BY <2>1, <3>2, <4>1 DEF WorkerMove, PaymentMove
    <3> QED
      BY <2>1, <3>1, <3>2 DEF PaymentMove
  <2>12. (\A r \in Foreign : payment[r] = "none")'
    BY <2>1 DEF PaymentMove
  <2>13. (\A v \in Workers : pc[v] # "idle" => Occurred(cur[v]))'
    BY <2>2, <2>4
  <2>14. (\A e \in Events :
            evt[e] # "none" \/ inflight[e] > 0 \/ job[e] # "none" => Occurred(e))'
    BY <2>2, <2>3
  <2> QED
    BY ONLY <2>7, <2>8, <2>9, <2>10, <2>11, <2>12, <2>13, <2>14 DEF SettleInv
<1>6. CASE UNCHANGED vars
  BY <1>6 DEF vars, dataVars, eventVars, serviceVars, Occurred
<1> QED
  BY ONLY [Next]_vars, <1>1, <1>2, <1>3, <1>4, <1>5, <1>6 DEF Next, ServiceNext


-----------------------------------------------------------------------------
(* Backing.  Nothing takes a tracking reference or a deduction back, so an *)
(* order once backed stays backed.                                         *)
LEMMA BackedStays ==
  ASSUME TypeOK, \A o \in Orders : tracked[o] => tracked'[o],
         \A r \in Refs : settled[r] > 0 => settled'[r] > 0
  PROVE  \A o \in Orders : Backed(o) => Backed(o)'
BY DEF Backed, RefsOf

LEMMA WorkerBacks ==
  ASSUME TypeOK, SettleInv, NEW w \in Workers, WorkerMove(w), PaymentMove(w), OrderMove(w)
  PROVE  \A o \in Orders :
           Backed(o) \/ (o = Ord(w) /\ settled' # settled) => Backed(o)'
<1>1. Ref(w) \in Refs /\ Ord(w) = OrderOf[Ref(w)] /\ Ord(w) \in Orders
  BY HandledRef DEF WorkerMove, Ref, Ord
<1>2. \A r \in Refs : settled[r] > 0 => settled'[r] > 0
  BY SMTT(30), <1>1 DEF TypeOK, ServiceTypeOK, PaymentMove
<1>3. settled' # settled => settled'[Ref(w)] > 0
  BY <1>1 DEF TypeOK, ServiceTypeOK, PaymentMove
<1>4. settled' # settled => tracked'[Ord(w)]
  BY DEF OrderMove
<1>5. \A o \in Orders : Backed(o) => Backed(o)'
  BY <1>2, BackedStays DEF OrderMove
<1>6. \A o \in Orders : o = Ord(w) /\ settled' # settled => Backed(o)'
  BY <1>1, <1>3, <1>4 DEF Backed, RefsOf
<1> QED
  BY <1>5, <1>6

LEMMA BackedInvStep ==
  ASSUME TypeOK, SettleInv, BackedInv, [Next]_vars
  PROVE  BackedInv'
<1> USE DEF BackedInv, PaidIsBacked, Shipping
<1>1. CASE UNCHANGED <<status, tracked, conf, settled, confirmed, task, pc, cur>>
  BY <1>1 DEF Backed, RefsOf, Ord
<1>2. CASE LinksNext /\ UNCHANGED <<serviceVars, task>>
  <2>1. \A o \in Orders : Backed(o)' = Backed(o)
    BY <1>2, LinkMoves DEF serviceVars, Backed, RefsOf
  <2>2. UNCHANGED <<pc, cur, confirmed, task>>
    BY <1>2 DEF serviceVars
  <2>3. \A s \in Staff : task[s] # NoTask => task[s].order \in Orders
    BY DEF TypeOK, DeliveryTypeOK
  <2>4. \A w \in Workers : pc[w] \in {"send", "release"} =>
          Ord(w) \in Orders /\ Ord(w)' = Ord(w)
    BY <2>2, HandledRef DEF Ord
  <2> QED
    BY <1>2, <2>1, <2>2, <2>3, <2>4, LinkMoves
<1>3. CASE DeliveryNext /\ UNCHANGED <<eventVars, serviceVars, linkVars>>
  <2>1. \A o \in Orders : Backed(o)' = Backed(o)
    BY <1>3, DeliveryMoves DEF serviceVars, Backed, RefsOf
  <2>2. UNCHANGED <<pc, cur, confirmed>>
    BY <1>3 DEF serviceVars
  <2>3. \A s \in Staff : task[s] # NoTask => task[s].order \in Orders
    BY DEF TypeOK, DeliveryTypeOK
  <2>4. \A w \in Workers : pc[w] \in {"send", "release"} =>
          Ord(w) \in Orders /\ Ord(w)' = Ord(w)
    BY <2>2, HandledRef DEF Ord
  <2>5. \A o \in Orders : status'[o] \in Shipping => Backed(o)
    BY <1>3, DeliveryMoves
  <2>6. \A s \in Staff : task'[s] # NoTask =>
          task'[s].order \in Orders /\ Backed(task'[s].order)
    BY <1>3, <2>3, DeliveryMoves
  <2> QED
    BY <2>1, <2>2, <2>4, <2>5, <2>6
<1>4. ASSUME NEW w \in Workers, NEW e \in Events, TakeJob(w, e), UNCHANGED task
      PROVE  BackedInv'
  <2>1. UNCHANGED <<status, tracked, settled, confirmed>>
    BY <1>4 DEF TakeJob, dataVars, historyVars
  <2>2. AfterRead(e) \notin {"send", "release"}
    BY DEF AfterRead, SuccessStep
  <2>3. \A v \in Workers : pc'[v] \in {"send", "release"} =>
          pc[v] \in {"send", "release"} /\ cur'[v] = cur[v]
    BY <1>4, <2>2 DEF TakeJob, Goto, TypeOK, ServiceTypeOK
  <2> QED
    BY <1>4, <2>1, <2>3 DEF Backed, RefsOf, Ord
<1>5. ASSUME NEW w \in Workers, Handle(w) \/ Abort(w) \/ Crash(w), UNCHANGED task
      PROVE  BackedInv'
  <2>1. WorkerMove(w) /\ PaymentMove(w) /\ OrderMove(w)
    BY <1>5, WorkerMoves, PaymentMoves, OrderMoves
  <2>2. \A o \in Orders :
          Backed(o) \/ (o = Ord(w) /\ settled' # settled) => Backed(o)'
    BY <2>1, WorkerBacks
  <2>3. Ord(w) \in Orders
    BY <2>1, HandledRef DEF WorkerMove
  <2>4. \A s \in Staff : task[s] # NoTask => task[s].order \in Orders
    BY DEF TypeOK, DeliveryTypeOK
  <2>5. \A v \in Workers : pc'[v] \in {"send", "release"} =>
          /\ cur'[v] = cur[v] /\ Ord(v)' = Ord(v) /\ Ord(v) \in Orders
          /\ \/ pc[v] \in {"send", "release"}
             \/ v = w /\ status[Ord(w)] = "PAID"
    BY <2>1, HandledRef DEF WorkerMove, OrderMove, Sending, Ord
  <2>6. \A o \in Orders : status'[o] \in Shipping => Backed(o)'
    BY <2>1, <2>2 DEF OrderMove
  <2>7. \A v \in Workers : pc'[v] \in {"send", "release"} => (Backed(Ord(v)))'
    BY <2>2, <2>5
  <2>8. \A o \in Orders : confirmed'[o] > 0 => Backed(o)'
    BY SMTT(30), <2>1, <2>2, <2>3 DEF OrderMove, TypeOK, ServiceTypeOK
  <2>9. \A s \in Staff : task'[s] # NoTask => (Backed(task[s].order))'
    BY <1>5, <2>2, <2>4
  <2> QED
    BY <2>6, <2>7, <2>8, <2>9
<1> QED
  BY ONLY [Next]_vars, <1>1, <1>2, <1>3, <1>4, <1>5
     DEF Next, ServiceNext, vars, dataVars, serviceVars

-----------------------------------------------------------------------------
(* Receipts.  The claim on the order row makes its holder the only sender. *)
LEMMA ReceiptInvStep ==
  ASSUME TypeOK, SettleInv, ReceiptInv, [Next]_vars
  PROVE  ReceiptInv'
<1> USE DEF ReceiptInv, Sending
<1>1. CASE UNCHANGED <<conf, confirmed, pc, cur>>
  BY <1>1 DEF Ord
<1>2. CASE LinksNext /\ UNCHANGED <<serviceVars, task>>
  BY <1>1, <1>2, LinkMoves DEF serviceVars
<1>3. CASE DeliveryNext /\ UNCHANGED <<eventVars, serviceVars, linkVars>>
  BY <1>1, <1>3, DeliveryMoves DEF serviceVars
<1>4. ASSUME NEW w \in Workers, NEW e \in Events, TakeJob(w, e)
      PROVE  ReceiptInv'
  <2>1. UNCHANGED <<conf, confirmed>>
    BY <1>4 DEF TakeJob, dataVars, historyVars
  <2>2. AfterRead(e) \notin {"send", "release"}
    BY DEF AfterRead, SuccessStep
  <2>3. \A v \in Workers : pc'[v] \in {"send", "release"} =>
          pc[v] \in {"send", "release"} /\ cur'[v] = cur[v]
    BY <1>4, <2>2 DEF TakeJob, Goto, TypeOK, ServiceTypeOK
  <2> QED
    BY SMTT(30), <2>1, <2>3 DEF Ord
<1>5. ASSUME NEW w \in Workers, Handle(w) \/ Abort(w) \/ Crash(w)
      PROVE  ReceiptInv'
  <2> USE DEF TypeOK, DataTypeOK, ServiceTypeOK
  <2>1. WorkerMove(w) /\ OrderMove(w) /\ Ord(w) \in Orders
    BY <1>5, WorkerMoves, OrderMoves, HandledRef DEF WorkerMove
  <2>2. \A v \in Workers : pc'[v] \in Sending =>
          /\ Ord(v)' = Ord(v) /\ Ord(v) \in Orders
          /\ v # w => pc[v] \in Sending
    BY <2>1, HandledRef DEF WorkerMove, Ord
  <2>3. CASE UNCHANGED <<conf, confirmed>> /\ (pc'[w] \in Sending => pc[w] \in Sending)
    <3>1. \A v \in Workers : pc'[v] \in Sending => pc[v] \in Sending
      BY <2>2, <2>3
    <3> QED
      BY <2>2, <2>3, <3>1
  <2>4. CASE /\ pc[w] = "confirm" /\ pc'[w] = "send" /\ ~conf[Ord(w)]
             /\ conf' = [conf EXCEPT ![Ord(w)] = TRUE] /\ UNCHANGED confirmed
    <3>1. \A v \in Workers : pc[v] \in Sending => Ord(v) # Ord(w)
      BY <2>4
    <3>2. confirmed[Ord(w)] = 0
      BY <2>1, <2>4
    <3> QED
      BY SMTT(30), <2>1, <2>2, <2>4, <3>1, <3>2
  <2>5. CASE /\ pc[w] = "send" /\ pc'[w] \notin Sending /\ UNCHANGED conf
             /\ confirmed' = [confirmed EXCEPT ![Ord(w)] = @ + 1]
    <3>1. \A v \in Workers : pc'[v] \in Sending => v # w /\ Ord(v) # Ord(w)
      BY <2>2, <2>5
    <3> QED
      BY <2>1, <2>2, <2>5, <3>1
  <2>6. CASE /\ pc[w] = "release" /\ pc'[w] \notin Sending /\ UNCHANGED confirmed
             /\ conf' = [conf EXCEPT ![Ord(w)] = FALSE]
    <3>1. \A v \in Workers : pc'[v] \in Sending => v # w /\ Ord(v) # Ord(w)
      BY <2>2, <2>6
    <3>2. confirmed[Ord(w)] = 0
      BY <2>6
    <3> QED
      BY <2>1, <2>2, <2>6, <3>1, <3>2
  <2> QED
    BY <2>1, <2>3, <2>4, <2>5, <2>6 DEF OrderMove
<1> QED
  BY ONLY [Next]_vars, <1>1, <1>2, <1>3, <1>4, <1>5
     DEF Next, ServiceNext, vars, dataVars, serviceVars
-----------------------------------------------------------------------------
(* The strengthened invariant holds in every reachable state.              *)
THEOREM Strengthened == Spec => []IInv
<1>1. Init => IInv
  BY DEF Init, DataInit, EventsInit, ServiceInit, LinksInit, DeliveryInit,
         IInv, SettleInv, BackedInv, ReceiptInv, PaidIsBacked, Claiming
<1>2. TypeOK /\ IInv /\ [Next]_vars => IInv'
  BY SettleInvStep, BackedInvStep, ReceiptInvStep DEF IInv
<1> QED
  BY <1>1, <1>2, TypeCorrect, PTL DEF Spec

(* One payment deducts stock at most once, whatever is redelivered, retried*)
(* or crashes (the claim of handleChargeSuccess).                          *)
THEOREM SettledOnce == Spec => []SettledOncePerPayment
<1>1. TypeOK /\ IInv => SettledOncePerPayment
  BY DEF TypeOK, ServiceTypeOK, IInv, SettleInv, SettledOncePerPayment
<1> QED
  BY <1>1, TypeCorrect, Strengthened, PTL

(* Goods leave the stock only for a reference of the shop that Paystack    *)
(* charged with the amount of its payment row (the amount check).          *)
THEOREM OnlyFullCharges == Spec => []OnlyFullChargesSettle
<1>1. TypeOK /\ IInv => OnlyFullChargesSettle
  BY DEF TypeOK, DataTypeOK, IInv, SettleInv, OnlyFullChargesSettle
<1> QED
  BY <1>1, TypeCorrect, Strengthened, PTL

(* A paid, shipping or fulfilled order has a settled payment and a tracking*)
(* reference, although staff write from a stale read (delivery.ts).        *)
THEOREM PaidBacked == Spec => []PaidIsBacked
<1>1. IInv => PaidIsBacked
  BY DEF IInv, BackedInv
<1> QED
  BY <1>1, Strengthened, PTL

(* sendText succeeds at most once for the receipt of an order, although    *)
(* several payments, workers and retries may try (sendPaidConfirmation).   *)
THEOREM ReceiptOnce == Spec => []ReceiptAtMostOnce
<1>1. TypeOK /\ IInv => ReceiptAtMostOnce
  BY DEF TypeOK, ServiceTypeOK, IInv, ReceiptInv, ReceiptAtMostOnce
<1> QED
  BY <1>1, TypeCorrect, Strengthened, PTL


-----------------------------------------------------------------------------
(* A payment that reached SUCCESS stays there: the claims of the worker    *)
(* are conditional updates and the link tool only adds rows.               *)
THEOREM SuccessFinal == Spec => SuccessIsFinal
<1>1. TypeOK /\ IInv /\ [Next]_vars =>
        [\A r \in Refs : payment[r] = "SUCCESS" => payment'[r] = "SUCCESS"]_vars
  <2> SUFFICES ASSUME TypeOK, IInv, Next
               PROVE  \A r \in Refs : payment[r] = "SUCCESS" => payment'[r] = "SUCCESS"
    OBVIOUS
  <2>1. CASE EventsNext /\ UNCHANGED <<dataVars, serviceVars, linkVars, task>>
    BY <2>1 DEF dataVars
  <2>2. ASSUME NEW w \in Workers, NEW e \in Events, TakeJob(w, e)
        PROVE  UNCHANGED payment
    BY <2>2 DEF TakeJob, dataVars
  <2>3. ASSUME NEW w \in Workers, Handle(w) \/ Abort(w) \/ Crash(w)
        PROVE  \A r \in Refs : payment[r] = "SUCCESS" => payment'[r] = "SUCCESS"
    BY <2>3, PaymentMoves DEF IInv, PaymentMove
  <2>4. CASE LinksNext /\ UNCHANGED <<serviceVars, task>>
    BY <2>4, LinkMoves
  <2>5. CASE DeliveryNext /\ UNCHANGED <<eventVars, serviceVars, linkVars>>
    BY <2>5, DeliveryMoves
  <2> QED
    BY <2>1, <2>2, <2>3, <2>4, <2>5 DEF Next, ServiceNext
<1> QED
  BY <1>1, TypeCorrect, Strengthened, PTL DEF Spec, SuccessIsFinal

-----------------------------------------------------------------------------
(* Refinement.  Three steps matter to the promise: a charge in full, a     *)
(* committed deduction and a sent receipt; every other one stutters.       *)
LEMMA QuietWork ==
  ASSUME TypeOK, NEW w \in Workers, Handle(w) \/ Abort(w) \/ Crash(w),
         ~Settle(w), ~SendReceipt(w)
  PROVE  UNCHANGED <<charge, settled, confirmed, stock>>
<1> USE DEF KeepEvents, dataVars, historyVars
<1>1. CASE ClaimFailed(w) \/ HandleChargeFailed(w) \/ ClaimSuccess(w)
  BY <1>1 DEF ClaimFailed, HandleChargeFailed, ClaimSuccess
<1>2. CASE StockRace(w) \/ HandleStockRace(w) \/ PersistReceipt(w)
  BY <1>2 DEF StockRace, HandleStockRace, PersistReceipt
<1>3. CASE ClaimConfirmation(w) \/ ReplyLost(w) \/ SendFails(w)
  BY <1>3 DEF ClaimConfirmation, ReplyLost, SendFails
<1>4. CASE ReleaseConfirmation(w) \/ MarkProcessed(w) \/ Abort(w) \/ Crash(w)
  BY <1>4 DEF ReleaseConfirmation, MarkProcessed, Abort, Crash
<1> QED
  BY <1>1, <1>2, <1>3, <1>4 DEF Handle

LEMMA SettleSells ==
  ASSUME TypeOK, IInv, NEW w \in Workers, Settle(w)
  PROVE  Promise!Next
<1>1. PICK r \in Refs : r = Ref(w) /\ Ord(w) = OrderOf[r]
  BY HandledRef DEF Settle, Ref, Ord
<1>2. charge[r] = "paid" /\ settled[r] = 0
  BY <1>1 DEF Settle, IInv, SettleInv
<1>3. settled' = [settled EXCEPT ![r] = @ + 1] /\ UNCHANGED <<charge, confirmed>>
  BY <1>1 DEF Settle, KeepEvents
<1>4. {q \in Refs : settled'[q] > 0} = {q \in Refs : settled[q] > 0} \cup {r}
  BY <1>1, <1>3 DEF TypeOK, ServiceTypeOK
<1>5. /\ \A p \in Products : stock[p] >= Items[OrderOf[r]][p]
      /\ stock' = [p \in Products |-> stock[p] - Items[OrderOf[r]][p]]
  BY <1>1 DEF Settle, Covered, InStock, Deduct
<1>6. r \in {q \in Refs : charge[q] = "paid"} \ {q \in Refs : settled[q] > 0}
  BY <1>1, <1>2
<1>7. Promise!Sell(r)
  BY <1>3, <1>4, <1>5, <1>6 DEF Promise!Sell
<1> QED
  BY <1>7 DEF Promise!Next

LEMMA SendConfirms ==
  ASSUME TypeOK, IInv, NEW w \in Workers, SendReceipt(w)
  PROVE  Promise!Next
<1>1. PICK o \in Orders : o = Ord(w)
  BY HandledRef DEF SendReceipt
<1>2. confirmed[o] = 0 /\ \E r \in {q \in Refs : settled[q] > 0} : OrderOf[r] = o
  BY <1>1 DEF SendReceipt, IInv, ReceiptInv, BackedInv, Backed, RefsOf
<1>3. /\ confirmed' = [confirmed EXCEPT ![o] = @ + 1]
      /\ UNCHANGED <<charge, settled, stock>>
  BY <1>1 DEF SendReceipt, KeepEvents, dataVars
<1>4. {q \in Orders : confirmed'[q] > 0} = {q \in Orders : confirmed[q] > 0} \cup {o}
  BY <1>1, <1>3 DEF TypeOK, ServiceTypeOK
<1>5. Promise!Confirm(o)
  BY <1>1, <1>2, <1>3, <1>4 DEF Promise!Confirm
<1> QED
  BY <1>5 DEF Promise!Next

LEMMA ChargePays ==
  ASSUME TypeOK, EventsNext, UNCHANGED <<dataVars, serviceVars, linkVars, task>>
  PROVE  [Promise!Next]_(Promise!vars)
<1>1. UNCHANGED <<settled, confirmed, stock>>
  BY DEF dataVars, serviceVars
<1>2. ASSUME NEW r \in Refs, Pay(r)
      PROVE  [Promise!Next]_(Promise!vars)
  <2>1. PICK c \in {"paid", "wrongAmount"} : charge' = [charge EXCEPT ![r] = c]
    BY <1>2 DEF Pay
  <2>2. charge[r] = "unpaid"
    BY <1>2 DEF Pay, Chargeable
  <2>3. CASE c = "paid"
    <3>1. {q \in Refs : charge'[q] = "paid"} = {q \in Refs : charge[q] = "paid"} \cup {r}
      BY <2>1, <2>3 DEF TypeOK, EventsTypeOK
    <3>2. r \notin {q \in Refs : charge[q] = "paid"}
      BY <2>2
    <3>3. Promise!PayInFull(r)
      BY <1>1, <3>1, <3>2 DEF Promise!PayInFull
    <3> QED
      BY <3>3 DEF Promise!Next
  <2>4. CASE c = "wrongAmount"
    <3>1. {q \in Refs : charge'[q] = "paid"} = {q \in Refs : charge[q] = "paid"}
      BY <2>1, <2>2, <2>4 DEF TypeOK, EventsTypeOK
    <3> QED
      BY <1>1, <3>1 DEF Promise!vars
  <2> QED
    BY <2>3, <2>4
<1>3. ASSUME UNCHANGED charge
      PROVE  [Promise!Next]_(Promise!vars)
  BY <1>1, <1>3 DEF Promise!vars
<1> QED
  BY <1>2, <1>3 DEF EventsNext, Decline, CaptureRawEvent, EnqueuePaymentEvent,
                    ApiFails, Evict

LEMMA Quiet ==
  ASSUME UNCHANGED <<charge, settled, confirmed, stock>>
  PROVE  [Promise!Next]_(Promise!vars)
BY DEF Promise!vars

(* The payment subsystem keeps its promise (Settlement): whatever is       *)
(* redelivered, retried, lost or crashes, goods are sold only against full *)
(* payments, once, from stock, and a receipt is confirmed once.            *)
THEOREM Refinement == Spec => ImplementsSettlement
<1>1. Init => Promise!Init
  BY DEF Init, DataInit, EventsInit, ServiceInit, Promise!Init
<1>2. TypeOK /\ IInv /\ [Next]_vars => [Promise!Next]_(Promise!vars)
  <2> SUFFICES ASSUME TypeOK, IInv, [Next]_vars
               PROVE  [Promise!Next]_(Promise!vars)
    OBVIOUS
  <2>1. CASE EventsNext /\ UNCHANGED <<dataVars, serviceVars, linkVars, task>>
    BY <2>1, ChargePays
  <2>2. ASSUME NEW w \in Workers, NEW e \in Events, TakeJob(w, e)
        PROVE  [Promise!Next]_(Promise!vars)
    BY <2>2, Quiet DEF TakeJob, KeepEvents, dataVars, historyVars
  <2>3. ASSUME NEW w \in Workers, Handle(w) \/ Abort(w) \/ Crash(w)
        PROVE  [Promise!Next]_(Promise!vars)
    BY <2>3, SettleSells, SendConfirms, QuietWork, Quiet
  <2>4. CASE LinksNext /\ UNCHANGED <<serviceVars, task>>
    BY <2>4, LinkMoves, Quiet DEF serviceVars
  <2>5. CASE DeliveryNext /\ UNCHANGED <<eventVars, serviceVars, linkVars>>
    BY <2>5, DeliveryMoves, Quiet DEF eventVars, serviceVars
  <2>6. CASE UNCHANGED vars
    BY <2>6, Quiet DEF vars, dataVars, eventVars, serviceVars
  <2> QED
    BY ONLY [Next]_vars, <2>1, <2>2, <2>3, <2>4, <2>5, <2>6 DEF Next, ServiceNext
<1> QED
  BY <1>1, <1>2, TypeCorrect, Strengthened, PTL DEF Spec, ImplementsSettlement, Promise!Spec

-----------------------------------------------------------------------------
(* Stock.  Only the deduction transaction touches it, and it counts what   *)
(* it takes.                                                               *)
LEMMA StockMoves ==
  ASSUME TypeOK, [Next]_vars
  PROVE  UNCHANGED <<settled, stock>> \/ \E w \in Workers : Settle(w)
<1>1. CASE EventsNext /\ UNCHANGED <<dataVars, serviceVars, linkVars, task>>
  BY <1>1 DEF dataVars, serviceVars
<1>2. ASSUME NEW w \in Workers, NEW e \in Events, TakeJob(w, e)
      PROVE  UNCHANGED <<settled, stock>>
  BY <1>2 DEF TakeJob, dataVars, historyVars
<1>3. ASSUME NEW w \in Workers, Handle(w) \/ Abort(w) \/ Crash(w), ~Settle(w)
      PROVE  UNCHANGED <<settled, stock>>
  BY <1>3, QuietWork DEF SendReceipt, dataVars
<1>4. CASE LinksNext /\ UNCHANGED <<serviceVars, task>>
  BY <1>4, LinkMoves DEF serviceVars
<1>5. CASE DeliveryNext /\ UNCHANGED <<eventVars, serviceVars, linkVars>>
  BY <1>5, DeliveryMoves DEF serviceVars
<1>6. CASE UNCHANGED vars
  BY <1>6 DEF vars, dataVars, serviceVars
<1> QED
  BY ONLY [Next]_vars, <1>1, <1>2, <1>3, <1>4, <1>5, <1>6 DEF Next, ServiceNext

Takings(p) == [r \in Refs |-> settled[r] * Items[OrderOf[r]][p]]

LEMMA TakingsType ==
  ASSUME TypeOK, NEW p \in Products
  PROVE  \A r \in Refs : Takings(p)[r] \in Int
<1> SUFFICES ASSUME NEW r \in Refs PROVE settled[r] * Items[OrderOf[r]][p] \in Int
  BY DEF Takings
<1>1. settled[r] \in Int /\ Items[OrderOf[r]][p] \in Int
  BY DEF TypeOK, ServiceTypeOK
<1> QED BY ONLY <1>1

LEMMA SettleConserves ==
  ASSUME TypeOK, NEW w \in Workers, Settle(w), NEW p \in Products
  PROVE  stock'[p] + Sold(p)' = stock[p] + Sold(p)
<1>1. PICK r \in Refs : r = Ref(w) /\ Ord(w) = OrderOf[r]
  BY HandledRef DEF Settle, Ref, Ord
<1>2. PICK n \in Nat : n = Items[OrderOf[r]][p]
  OBVIOUS
<1>3. settled' = [settled EXCEPT ![r] = @ + 1] /\ stock'[p] = stock[p] - n
  BY <1>1, <1>2 DEF Settle, Deduct
<1>4. \A q \in Refs \ {r} : Takings(p)[q] = Takings(p)'[q]
  BY <1>3 DEF TypeOK, ServiceTypeOK, Takings
<1>5. Takings(p)'[r] = Takings(p)[r] + n
  <2>1. PICK k \in Nat : k = settled[r]
    BY DEF TypeOK, ServiceTypeOK
  <2>2. Takings(p)[r] = k * n
    BY <1>2, <2>1 DEF Takings
  <2>3. Takings(p)'[r] = (k + 1) * n
    BY <1>2, <1>3, <2>1 DEF Takings, TypeOK, ServiceTypeOK
  <2>4. (k + 1) * n = k * n + n
    BY ONLY k \in Nat, n \in Nat
  <2> QED BY <2>2, <2>3, <2>4
<1>6. (\A q \in Refs : Takings(p)[q] \in Int) /\ (\A q \in Refs : Takings(p)'[q] \in Int)
  BY <1>2, <1>4, <1>5, TakingsType
<1>7. Total(Takings(p)', Refs) = Total(Takings(p), Refs) + Takings(p)'[r] - Takings(p)[r]
  BY <1>4, <1>6, TotalUpdate
<1>8. Sold(p) = Total(Takings(p), Refs) /\ Sold(p)' = Total(Takings(p)', Refs)
  BY DEF Sold, Takings
<1>9. Total(Takings(p), Refs) \in Int /\ stock[p] \in Int /\ Takings(p)[r] \in Int
  BY <1>6, TotalInt DEF TypeOK, DataTypeOK
<1> HIDE DEF Takings
<1> QED BY <1>3, <1>5, <1>7, <1>8, <1>9

(* Stock is conserved: what is left and what the committed deductions took *)
(* make up the initial stock, whatever fails, is retried or crashes (the   *)
(* deduction transaction of handleChargeSuccess).                          *)
THEOREM Conserved == Spec => []StockConserved
<1>1. Init => StockConserved
  <2> SUFFICES ASSUME Init, NEW p \in Products PROVE stock[p] + Sold(p) = InitStock[p]
    BY DEF StockConserved
  <2>1. \A r \in Refs : Takings(p)[r] = 0
    BY DEF Init, ServiceInit, Takings
  <2>2. Sold(p) = 0
    BY <2>1, TotalZero DEF Sold, Takings
  <2> QED BY <2>2 DEF Init, DataInit
<1>2. TypeOK /\ StockConserved /\ [Next]_vars => StockConserved'
  <2> SUFFICES ASSUME TypeOK, StockConserved, [Next]_vars PROVE StockConserved'
    OBVIOUS
  <2>1. CASE UNCHANGED <<settled, stock>>
    BY <2>1 DEF StockConserved, Sold
  <2>2. ASSUME NEW w \in Workers, Settle(w) PROVE StockConserved'
    BY <2>2, SettleConserves DEF StockConserved
  <2> QED BY <2>1, <2>2, StockMoves
<1> QED
  BY <1>1, <1>2, TypeCorrect, PTL DEF Spec
-----------------------------------------------------------------------------
(* Deductions of an order by one worker.                                   *)

(* What a step of the handler does to sales.                               *)
SaleMove(w) ==
  /\ UNCHANGED relinked
  /\ \A o \in Orders : status'[o] # status[o] => status'[o] \in Progressed
  /\ \/ UNCHANGED settled
     \/ /\ pc[w] = "tx" /\ pc'[w] = "confirm"
        /\ settled' = [settled EXCEPT ![Ref(w)] = @ + 1]
        /\ status'[Ord(w)] \in Progressed
  /\ pc'[w] \in {"claim", "tx"} =>
       pc[w] = "claim" /\ pc'[w] = "tx" /\ MaySettle(snap[w]) /\ UNCHANGED <<cur, snap>>

LEMMA SaleMoves ==
  ASSUME TypeOK, NEW w \in Workers, Handle(w) \/ Abort(w) \/ Crash(w), UNCHANGED linkVars
  PROVE  SaleMove(w)
<1> USE HandledRef DEF TypeOK, DataTypeOK, ServiceTypeOK, Goto, FailAttempt,
        dataVars, historyVars, SaleMove, Progressed
<1>0. UNCHANGED relinked
  BY DEF linkVars
<1>1. CASE ClaimFailed(w)
  BY <1>0, <1>1 DEF ClaimFailed
<1>2. CASE HandleChargeFailed(w)
  BY <1>0, <1>2 DEF HandleChargeFailed
<1>3. CASE ClaimSuccess(w)
  BY <1>0, <1>3 DEF ClaimSuccess
<1>4. CASE Settle(w)
  BY <1>0, <1>4 DEF Settle
<1>5. CASE StockRace(w)
  BY <1>0, <1>5 DEF StockRace
<1>6. CASE HandleStockRace(w)
  BY <1>0, <1>6 DEF HandleStockRace
<1>7. CASE ClaimConfirmation(w)
  BY <1>0, <1>7 DEF ClaimConfirmation
<1>8. CASE SendReceipt(w)
  BY <1>0, <1>8 DEF SendReceipt
<1>9. CASE ReplyLost(w)
  BY <1>0, <1>9 DEF ReplyLost
<1>10. CASE SendFails(w)
  BY <1>0, <1>10 DEF SendFails
<1>11. CASE ReleaseConfirmation(w)
  BY <1>0, <1>11 DEF ReleaseConfirmation
<1>12. CASE PersistReceipt(w)
  BY <1>0, <1>12 DEF PersistReceipt
<1>13. CASE MarkProcessed(w)
  BY <1>0, <1>13 DEF MarkProcessed
<1>14. CASE Abort(w)
  BY <1>0, <1>14 DEF Abort
<1>15. CASE Crash(w)
  BY <1>0, <1>15 DEF Crash
<1> QED
  BY ONLY Handle(w) \/ Abort(w) \/ Crash(w), <1>1, <1>2, <1>3, <1>4, <1>5, <1>6, <1>7, <1>8,
     <1>9, <1>10, <1>11, <1>12, <1>13, <1>14, <1>15 DEF Handle

(* An order is taken out of a status past payment only by a link that is   *)
(* noted as having reopened it.                                            *)
LEMMA LinkReopens ==
  ASSUME TypeOK, LinksNext
  PROVE  \A o \in Orders :
           /\ relinked[o] => relinked'[o]
           /\ status'[o] # status[o] =>
                status'[o] = "PAYMENT_PENDING" /\ (status[o] \in Progressed => relinked'[o])
<1> USE DEF TypeOK, DataTypeOK, LinksTypeOK, dataVars
<1>1. ASSUME NEW a \in Agents, NEW o \in Orders, ReadOrder(a, o)
      PROVE  UNCHANGED <<status, relinked>>
  BY <1>1 DEF ReadOrder
<1>2. ASSUME NEW a \in Agents,
             ReusePending(a) \/ CallPaystack(a) \/ PaystackRefuses(a) \/ AgentFails(a)
             \/ CreatePayment(a)
      PROVE  UNCHANGED <<status, relinked>>
  BY <1>2 DEF ReusePending, CallPaystack, PaystackRefuses, AgentFails, CreatePayment
<1>3. ASSUME NEW a \in Agents, FlipOrder(a)
      PROVE  \A o \in Orders :
           /\ relinked[o] => relinked'[o]
           /\ status'[o] # status[o] =>
                status'[o] = "PAYMENT_PENDING" /\ (status[o] \in Progressed => relinked'[o])
  BY <1>3 DEF FlipOrder
<1> QED BY <1>1, <1>2, <1>3 DEF LinksNext

LEMMA DeliveryFulfils ==
  ASSUME TypeOK, DeliveryNext
  PROVE  \A o \in Orders : status'[o] # status[o] => status'[o] = "FULFILLED"
<1> USE DEF TypeOK, DataTypeOK, DeliveryTypeOK, dataVars
<1>1. ASSUME NEW s \in Staff, NEW o \in Orders,
             NEW next \in {"PROCESSING", "SHIPPED", "DELIVERED"}, ReadDelivery(s, o, next)
      PROVE  UNCHANGED status
  BY <1>1 DEF ReadDelivery
<1>2. ASSUME NEW s \in Staff, WriteDelivery(s)
      PROVE  \A o \in Orders : status'[o] # status[o] => status'[o] = "FULFILLED"
  BY <1>2 DEF WriteDelivery
<1> QED BY <1>1, <1>2 DEF DeliveryNext

OneWorker == \A v, w \in Workers : v = w

LEMMA OnceInvStep ==
  ASSUME TypeOK, IInv, OnceInv, OneWorker, [Next]_vars
  PROVE  OnceInv'
<1> USE DEF RefsOf
<1>0. \A w \in Workers : pc[w] # "idle" => Ord(w) \in Orders
  BY HandledRef
<1>1. CASE UNCHANGED <<status, settled, relinked, pc, cur, snap>>
  BY <1>1 DEF OnceInv, Ord
<1>2. CASE LinksNext /\ UNCHANGED <<serviceVars, task>>
  <2>1. UNCHANGED <<settled, pc, cur, snap>>
    BY <1>2 DEF serviceVars
  <2>2. \A o \in Orders : ~relinked'[o] =>
          ~relinked[o] /\ (status[o] \in Progressed => status'[o] \in Progressed)
    BY <1>2, LinkReopens
  <2> QED BY <1>0, <2>1, <2>2 DEF OnceInv, Ord
<1>3. CASE DeliveryNext /\ UNCHANGED <<eventVars, serviceVars, linkVars>>
  <2>1. UNCHANGED <<settled, pc, cur, snap, relinked>>
    BY <1>3 DEF serviceVars, linkVars
  <2>2. \A o \in Orders : status[o] \in Progressed => status'[o] \in Progressed
    BY <1>3, DeliveryFulfils DEF Progressed
  <2> QED BY <1>0, <2>1, <2>2 DEF OnceInv, Ord
<1>4. ASSUME NEW w \in Workers, NEW e \in Events, TakeJob(w, e), UNCHANGED linkVars
      PROVE  OnceInv'
  <2>1. UNCHANGED <<status, settled, relinked>>
    BY <1>4 DEF TakeJob, dataVars, historyVars, linkVars
  <2>2. AfterRead(e) # "tx"
    BY DEF AfterRead, SuccessStep
  <2>3. \A v \in Workers : pc'[v] # "tx" /\ Ord(v)' = OrderOf[e.ref]
                           /\ snap'[v].status = status[OrderOf[e.ref]]
    BY <1>4, <2>2 DEF TakeJob, Goto, Snapshot, Ord, TypeOK, ServiceTypeOK, OneWorker
  <2>4. OrderOf[e.ref] \in Orders
    OBVIOUS
  <2>5. status[OrderOf[e.ref]] \notin Progressed /\ ~relinked[OrderOf[e.ref]]
          => \A r \in Refs : OrderOf[r] = OrderOf[e.ref] => settled[r] = 0
    BY <2>4 DEF OnceInv, TypeOK, ServiceTypeOK
  <2>6. (\A v \in Workers :
           pc[v] \in {"claim", "tx"} /\ MaySettle(snap[v]) /\ ~relinked[Ord(v)]
             => \A r \in RefsOf(Ord(v)) : settled[r] = 0)'
    BY <2>1, <2>3, <2>5 DEF MaySettle
  <2>7. (\A v \in Workers : pc[v] = "tx" => MaySettle(snap[v]))'
    BY <2>3
  <2> QED BY <2>1, <2>6, <2>7 DEF OnceInv
<1>5. ASSUME NEW w \in Workers, Handle(w) \/ Abort(w) \/ Crash(w), UNCHANGED linkVars
      PROVE  OnceInv'
  <2>1. SaleMove(w) /\ pc[w] # "idle"
    BY <1>5, SaleMoves, WorkerMoves DEF WorkerMove, IInv
  <2>2. Ref(w) \in Refs /\ Ord(w) = OrderOf[Ref(w)] /\ Ord(w) \in Orders
    BY <2>1, HandledRef DEF Ref, Ord
  <2>3. \A v \in Workers : pc'[v] \in {"claim", "tx"} =>
          pc[v] = "claim" /\ MaySettle(snap[v]) /\ snap'[v] = snap[v] /\ Ord(v)' = Ord(v)
          /\ settled' = settled
    BY <2>1 DEF SaleMove, OneWorker, Ord
  <2>4. \A o \in Orders : status[o] \in Progressed => status'[o] \in Progressed
    BY <2>1 DEF SaleMove
  <2>5. CASE UNCHANGED settled
    <3>1. (\A o \in Orders :
             ~relinked[o] /\ (\E r \in RefsOf(o) : settled[r] > 0) => status[o] \in Progressed)'
      BY <2>1, <2>4, <2>5 DEF OnceInv, SaleMove
    <3>2. (\A v \in Workers : pc[v] = "tx" => MaySettle(snap[v]))'
      BY <2>3 DEF MaySettle
    <3>3. (\A v \in Workers :
             pc[v] \in {"claim", "tx"} /\ MaySettle(snap[v]) /\ ~relinked[Ord(v)]
               => \A r \in RefsOf(Ord(v)) : settled[r] = 0)'
      BY <2>1, <2>3, <2>5 DEF OnceInv, SaleMove
    <3>4. (\A o \in Orders :
             ~relinked[o] => \A q, r \in RefsOf(o) : settled[q] > 0 /\ settled[r] > 0 => q = r)'
      BY <2>1, <2>5 DEF OnceInv, SaleMove
    <3> QED BY <3>1, <3>2, <3>3, <3>4 DEF OnceInv
  <2>6. CASE /\ pc[w] = "tx" /\ settled' = [settled EXCEPT ![Ref(w)] = @ + 1]
             /\ status'[Ord(w)] \in Progressed
    <3>1. \A o \in Orders, r \in Refs : OrderOf[r] = o /\ settled'[r] > 0 =>
            settled[r] > 0 \/ (r = Ref(w) /\ o = Ord(w))
      BY <2>2, <2>6 DEF TypeOK, ServiceTypeOK
    <3>2. ~relinked[Ord(w)] => \A r \in Refs : OrderOf[r] = Ord(w) => settled[r] = 0
      BY <2>6 DEF OnceInv
    <3>3. (\A o \in Orders :
             ~relinked[o] /\ (\E r \in RefsOf(o) : settled[r] > 0) => status[o] \in Progressed)'
      BY <2>1, <2>4, <2>6, <3>1 DEF OnceInv, SaleMove
    <3>4. (\A o \in Orders :
             ~relinked[o] => \A q, r \in RefsOf(o) : settled[q] > 0 /\ settled[r] > 0 => q = r)'
      BY <2>1, <3>1, <3>2 DEF OnceInv, SaleMove, TypeOK, ServiceTypeOK
    <3>5. \A v \in Workers : pc'[v] \notin {"claim", "tx"}
      BY <2>3, <2>6 DEF OneWorker
    <3> QED BY <3>3, <3>4, <3>5 DEF OnceInv
  <2> QED BY <2>1, <2>5, <2>6 DEF SaleMove
<1> QED
  BY ONLY [Next]_vars, <1>1, <1>2, <1>3, <1>4, <1>5
     DEF Next, ServiceNext, vars, dataVars, serviceVars, linkVars

(* However many payments of an order are charged, one worker deducts its   *)
(* stock once, unless create_payment_link reopened it (the status check of *)
(* handleChargeSuccess on the order it read before the claim).             *)
THEOREM OnceUnlessRelinked ==
  ASSUME OneWorker
  PROVE  Spec => []DeductedOnceUnlessRelinked
<1>1. Init => OnceInv
  BY DEF Init, DataInit, ServiceInit, LinksInit, OnceInv, RefsOf
<1>2. TypeOK /\ IInv /\ OnceInv /\ [Next]_vars => OnceInv'
  BY OnceInvStep
<1>3. TypeOK /\ IInv /\ OnceInv => DeductedOnceUnlessRelinked
  <2> SUFFICES ASSUME TypeOK, IInv, OnceInv, NEW o \in Orders, ~relinked[o]
               PROVE  Total(settled, RefsOf(o)) <= 1
    BY DEF DeductedOnceUnlessRelinked
  <2>1. IsFiniteSet(RefsOf(o))
    BY FS_Subset DEF RefsOf
  <2>2. \A r \in RefsOf(o) : settled[r] \in 0..1
    BY DEF RefsOf, IInv, SettleInv, TypeOK, ServiceTypeOK
  <2>3. \A q, r \in RefsOf(o) : settled[q] > 0 /\ settled[r] > 0 => q = r
    BY DEF OnceInv
  <2> QED BY <2>1, <2>2, <2>3, TotalOfOne
<1> QED
  BY <1>1, <1>2, <1>3, TypeCorrect, Strengthened, PTL DEF Spec
-----------------------------------------------------------------------------
(* Money, while no worker dies and no database call of the handler throws. *)
NoBreaks == {"crash", "db"} \cap Faults = {}

Paying == {"confirm", "send", "release", "persist"}

(* What a step of the handler does to the money of the payment it handles. *)
MoneyMove(w) ==
  /\ UNCHANGED <<charge, shown>>
  /\ pc[w] # "idle" /\ \A v \in Workers : v # w =>
       pc'[v] = pc[v] /\ cur'[v] = cur[v] /\ snap'[v] = snap[v]
  /\ pc'[w] = "idle" \/ (cur'[w] = cur[w] /\ snap'[w] = snap[w] /\ UNCHANGED job)
  /\ \A e \in Events : e # cur[w] => job'[e] = job[e]
  /\ \A e \in Events : evt'[e] = "PROCESSED" =>
       evt[e] = "PROCESSED" \/ (e = cur[w] /\ pc[w] = "done")
  /\ \A o \in Orders : status'[o] # status[o] =>
       o = Ord(w) /\ \/ status'[o] = "PAID" /\ settled'[Ref(w)] > 0
                     \/ status'[o] = "CANCELLED"
  /\ \A r \in Refs : settled[r] > 0 => settled'[r] > 0
  /\ pc'[w] \notin {"claimFailed", "failClaim", "claim"}
  /\ pc'[w] \in Settling => pc[w] = "claim" \/ pc[w] \in Settling
  /\ pc[w] \in Settling /\ pc'[w] \notin Settling =>
       settled'[Ref(w)] > 0 \/ status'[Ord(w)] = "CANCELLED"
  /\ pc'[w] \in Paying => \/ pc[w] \in Paying \cup Settling
                          \/ pc[w] = "claim" /\ snap[w].status = "PAID"
  /\ pc'[w] = "done" =>
       \/ pc[w] \in {"claimFailed", "failClaim"} \cup Settling \cup Paying
       \/ pc[w] = "claim" /\ (payment[Ref(w)] = "SUCCESS" \/ snap[w].status \in Progressed)
  /\ \A r \in Refs : payment'[r] = "SUCCESS" =>
       \/ payment[r] = "SUCCESS"
       \/ r = Ref(w) /\ pc[w] = "claim" /\ (pc'[w] = "tx" \/ snap[w].status \in Progressed)
  /\ \A r \in Refs : payment[r] # "none" => payment'[r] # "none"

LEMMA MoneyMoves ==
  ASSUME TypeOK, NEW w \in Workers, Handle(w)
  PROVE  MoneyMove(w)
<1> USE HandledRef DEF TypeOK, DataTypeOK, EventsTypeOK, ServiceTypeOK, Goto, KeepEvents,
        FailAttempt, dataVars, historyVars, MoneyMove, Settling, Paying
<1>1. CASE ClaimFailed(w)
  BY <1>1 DEF ClaimFailed
<1>2. CASE HandleChargeFailed(w)
  BY <1>2 DEF HandleChargeFailed, ToFailed
<1>3. CASE ClaimSuccess(w)
  BY <1>3 DEF ClaimSuccess, Claimable, MaySettle, NeedsReceipt
<1>4. CASE Settle(w)
  BY <1>4 DEF Settle
<1>5. CASE StockRace(w)
  BY <1>5 DEF StockRace
<1>6. CASE HandleStockRace(w)
  BY <1>6 DEF HandleStockRace
<1>7. CASE ClaimConfirmation(w)
  BY <1>7 DEF ClaimConfirmation
<1>8. CASE SendReceipt(w)
  BY <1>8 DEF SendReceipt
<1>9. CASE ReplyLost(w)
  BY <1>9 DEF ReplyLost
<1>10. CASE SendFails(w)
  BY <1>10 DEF SendFails
<1>11. CASE ReleaseConfirmation(w)
  BY <1>11 DEF ReleaseConfirmation
<1>12. CASE PersistReceipt(w)
  BY <1>12 DEF PersistReceipt
<1>13. CASE MarkProcessed(w)
  BY <1>13 DEF MarkProcessed
<1> QED
  BY ONLY Handle(w), <1>1, <1>2, <1>3, <1>4, <1>5, <1>6, <1>7, <1>8,
     <1>9, <1>10, <1>11, <1>12, <1>13 DEF Handle

(* Nothing takes an accounted payment back.                                *)
LEMMA AccountedStays ==
  ASSUME TypeOK, IInv, NEW o \in Orders, Accounted(o),
         \A r \in Refs : settled[r] > 0 => settled'[r] > 0,
         relinked[o] => relinked'[o],
         status'[o] # status[o] =>
           \/ Backed(o) \/ \E r \in RefsOf(o) : settled'[r] > 0
           \/ status'[o] = "CANCELLED"
           \/ status[o] \in Progressed => relinked'[o]
  PROVE  Accounted(o)'
BY DEF Accounted, Backed, RefsOf, Progressed

LEMMA EventsKeepMoney ==
  ASSUME TypeOK, EventsNext
  PROVE  /\ UNCHANGED shown
         /\ \A r \in Refs : charge'[r] # charge[r] =>
              charge[r] = "unpaid" /\ (r \in shown \/ r \in Foreign)
         /\ \A e \in Events : /\ job[e] = "active" => job'[e] = "active"
                              /\ evt'[e] = "PROCESSED" => evt[e] = "PROCESSED"
<1> USE DEF TypeOK, EventsTypeOK
<1>1. ASSUME NEW r \in Refs, Pay(r)
      PROVE  /\ UNCHANGED <<evt, job, shown>>
             /\ \A q \in Refs : charge'[q] # charge[q] =>
                  charge[q] = "unpaid" /\ (q \in shown \/ q \in Foreign)
  BY <1>1 DEF Pay, Chargeable
<1>2. ASSUME NEW r \in Refs, Decline(r) PROVE UNCHANGED <<evt, job, shown, charge>>
  BY <1>2 DEF Decline
<1>3. ASSUME NEW e \in Events,
             CaptureRawEvent(e) \/ EnqueuePaymentEvent(e) \/ ApiFails(e) \/ Evict(e)
      PROVE  /\ UNCHANGED <<charge, shown>>
             /\ \A f \in Events : /\ job[f] = "active" => job'[f] = "active"
                                  /\ evt'[f] = "PROCESSED" => evt[f] = "PROCESSED"
  BY <1>3 DEF CaptureRawEvent, EnqueuePaymentEvent, ApiFails, Evict
<1> QED BY <1>1, <1>2, <1>3 DEF EventsNext

(* A link is shown, and an order flipped, for a payment row that exists.   *)
LEMMA LinksKeepMoney ==
  ASSUME TypeOK, MoneyInv, LinksNext
  PROVE  /\ \A r \in shown' : payment'[r] # "none"
         /\ \A a \in Agents : lpc'[a] = "flip" => payment'[lref'[a]] # "none"
<1> USE DEF TypeOK, DataTypeOK, EventsTypeOK, LinksTypeOK, MoneyInv, Leave, dataVars
<1>1. ASSUME NEW a \in Agents, NEW o \in Orders, ReadOrder(a, o)
      PROVE  /\ \A r \in shown' : payment'[r] # "none"
             /\ \A b \in Agents : lpc'[b] = "flip" => payment'[lref'[b]] # "none"
  BY <1>1 DEF ReadOrder
<1>2. ASSUME NEW a \in Agents,
             ReusePending(a) \/ CallPaystack(a) \/ PaystackRefuses(a) \/ AgentFails(a)
      PROVE  /\ \A r \in shown' : payment'[r] # "none"
             /\ \A b \in Agents : lpc'[b] = "flip" => payment'[lref'[b]] # "none"
  BY <1>2 DEF ReusePending, PendingOf, CallPaystack, PaystackRefuses, AgentFails
<1>3. ASSUME NEW a \in Agents, CreatePayment(a)
      PROVE  /\ \A r \in shown' : payment'[r] # "none"
             /\ \A b \in Agents : lpc'[b] = "flip" => payment'[lref'[b]] # "none"
  BY <1>3 DEF CreatePayment, Fresh
<1>4. ASSUME NEW a \in Agents, FlipOrder(a)
      PROVE  /\ \A r \in shown' : payment'[r] # "none"
             /\ \A b \in Agents : lpc'[b] = "flip" => payment'[lref'[b]] # "none"
  BY <1>4 DEF FlipOrder
<1> QED BY <1>1, <1>2, <1>3, <1>4 DEF LinksNext

LEMMA MoneyEvents ==
  ASSUME TypeOK, IInv, MoneyInv, EventsNext, UNCHANGED <<dataVars, serviceVars, linkVars, task>>
  PROVE  MoneyInv'
<1>1. UNCHANGED <<status, payment, settled, pc, cur, snap, lpc, lref, relinked, shown>>
  BY EventsKeepMoney DEF dataVars, serviceVars, linkVars
<1>2. \A o \in Orders : Accounted(o)' <=> Accounted(o)
  BY <1>1 DEF Accounted
<1>3. \A w \in Workers : pc[w] # "idle" => cur[w] \in Events /\ Ref(w) \in Refs
        /\ Ord(w) \in Orders /\ Occurred(cur[w])
  BY HandledRef DEF IInv, SettleInv
<1>4. \A r \in Refs : charge[r] # "unpaid" => charge'[r] = charge[r]
  BY EventMoves
<1>5. \A w \in Workers : /\ Ref(w)' = Ref(w) /\ Ord(w)' = Ord(w)
  BY <1>1 DEF Ref, Ord
<1>6. (\A w \in Workers : pc[w] # "idle" => job[cur[w]] = "active")'
  BY <1>1, <1>3, EventsKeepMoney DEF MoneyInv
<1>7. (\A r \in Refs \ Foreign : charge[r] # "unpaid" => payment[r] # "none")'
  BY <1>1, <1>4, EventsKeepMoney DEF MoneyInv
<1>8. ASSUME NEW w \in Workers
      PROVE
       (/\ pc[w] \in {"claim"} \cup Settling => cur[w].kind = "success"
        /\ pc[w] = "failClaim" => cur[w].kind = "failed"
        /\ pc[w] = "claimFailed" => charge[Ref(w)] = "wrongAmount"
        /\ pc[w] # "idle" /\ snap[w].status \in Progressed => Accounted(Ord(w))
        /\ pc[w] \in {"confirm", "send", "release", "persist"} => Accounted(Ord(w)))'
  <2>1. (pc[w] \in {"claim"} \cup Settling => cur[w].kind = "success")'
    BY <1>1 DEF MoneyInv, Settling
  <2>2. (pc[w] = "failClaim" => cur[w].kind = "failed")'
    BY <1>1 DEF MoneyInv
  <2>3. (pc[w] = "claimFailed" => charge[Ref(w)] = "wrongAmount")'
    BY <1>1, <1>3, <1>4, <1>5 DEF MoneyInv
  <2>4. (pc[w] # "idle" /\ snap[w].status \in Progressed => Accounted(Ord(w)))'
    BY <1>1, <1>2, <1>3 DEF MoneyInv, Accounted, Ord
  <2>5. (pc[w] \in {"confirm", "send", "release", "persist"} => Accounted(Ord(w)))'
    BY <1>1, <1>2, <1>3 DEF MoneyInv, Accounted, Ord
  <2> QED BY <2>1, <2>2, <2>3, <2>4, <2>5
<1>9. ASSUME NEW w \in Workers
      PROVE (pc[w] = "done" /\ cur[w].kind = "success" /\ charge[Ref(w)] = "paid"
               /\ Ref(w) \notin Foreign => Accounted(Ord(w)))'
  <2>1. pc[w] = "done" /\ cur[w].kind = "success" => charge'[Ref(w)] = charge[Ref(w)]
    BY <1>3, <1>4 DEF Occurred, Ref
  <2>2. Accounted(Ord(w))' <=> Accounted(Ord(w))
    BY <1>1 DEF Accounted, Ord, RefsOf
  <2> QED BY <1>1, <1>5, <2>1, <2>2 DEF MoneyInv
<1>10. (\A r \in Refs : payment[r] = "SUCCESS" =>
         \/ Accounted(OrderOf[r])
         \/ \E w \in Workers : pc[w] \in Settling /\ Ref(w) = r)'
  BY <1>1, <1>2, <1>5 DEF MoneyInv
<1>11. NoMoneyLost'
  <2>1. \A e \in Events : evt'[e] = "PROCESSED" /\ e.kind = "success" =>
          evt[e] = "PROCESSED" /\ charge'[e.ref] = charge[e.ref]
    BY <1>4, EventsKeepMoney DEF IInv, SettleInv, Occurred
  <2> QED BY <1>2, <2>1 DEF MoneyInv, NoMoneyLost
<1>12. (\A o \in Orders : status[o] # "REFUNDED")' /\ (\A r \in shown : payment[r] # "none")'
       /\ (\A a \in Agents : lpc[a] = "flip" => payment[lref[a]] # "none")'
       /\ (\A v, w \in Workers : v # w /\ pc[v] # "idle" /\ pc[w] # "idle" => cur[v] # cur[w])'
  BY <1>1 DEF MoneyInv
<1> QED BY <1>6, <1>7, <1>8, <1>9, <1>10, <1>11, <1>12 DEF MoneyInv

LEMMA MoneyLinks ==
  ASSUME TypeOK, IInv, MoneyInv, LinksNext, UNCHANGED <<serviceVars, task>>
  PROVE  MoneyInv'
<1>1. UNCHANGED <<settled, pc, cur, snap, charge, evt, job>>
  BY LinkMoves DEF serviceVars
<1>2. \A r \in Refs : /\ payment[r] # "none" => payment'[r] # "none"
                      /\ payment'[r] = "SUCCESS" => payment[r] = "SUCCESS"
  BY LinkMoves
<1>3. \A o \in Orders : Accounted(o) => Accounted(o)'
  BY <1>1, LinkReopens, AccountedStays
<1>4. \A w \in Workers : pc[w] # "idle" => Ref(w) \in Refs /\ Ord(w) \in Orders
  BY HandledRef
<1>5. \A w \in Workers : /\ Ref(w)' = Ref(w) /\ Ord(w)' = Ord(w)
  BY <1>1 DEF Ref, Ord
<1>6. \A w \in Workers : pc[w] # "idle" /\ Accounted(Ord(w)) => Accounted(Ord(w))'
  BY <1>1, <1>3, <1>4, <1>5 DEF Accounted, Ord
<1>7. (\A r \in shown : payment[r] # "none")'
      /\ (\A a \in Agents : lpc[a] = "flip" => payment[lref[a]] # "none")'
  BY LinksKeepMoney
<1>8. (\A r \in Refs \ Foreign : charge[r] # "unpaid" => payment[r] # "none")'
  BY <1>1, <1>2 DEF MoneyInv
<1>9. (\A o \in Orders : status[o] # "REFUNDED")'
  BY LinkReopens DEF MoneyInv
<1>10. (\A w \in Workers :
         /\ pc[w] \in {"claim"} \cup Settling => cur[w].kind = "success"
         /\ pc[w] = "failClaim" => cur[w].kind = "failed"
         /\ pc[w] = "claimFailed" => charge[Ref(w)] = "wrongAmount")'
  BY <1>1, <1>5 DEF MoneyInv
<1>11. ASSUME NEW w \in Workers
       PROVE (/\ pc[w] # "idle" /\ snap[w].status \in Progressed => Accounted(Ord(w))
              /\ pc[w] \in {"confirm", "send", "release", "persist"} => Accounted(Ord(w))
              /\ pc[w] = "done" /\ cur[w].kind = "success" /\ charge[Ref(w)] = "paid"
                   /\ Ref(w) \notin Foreign => Accounted(Ord(w)))'
  BY <1>1, <1>5, <1>6 DEF MoneyInv
<1>12. (\A r \in Refs : payment[r] = "SUCCESS" =>
         \/ Accounted(OrderOf[r])
         \/ \E w \in Workers : pc[w] \in Settling /\ Ref(w) = r)'
  BY <1>1, <1>2, <1>3, <1>5 DEF MoneyInv
<1>13. NoMoneyLost'
  BY <1>1, <1>3 DEF MoneyInv, NoMoneyLost
<1>14. (\A w \in Workers : pc[w] # "idle" => job[cur[w]] = "active")'
       /\ (\A v, w \in Workers : v # w /\ pc[v] # "idle" /\ pc[w] # "idle" => cur[v] # cur[w])'
  BY <1>1 DEF MoneyInv
<1> QED BY <1>7, <1>8, <1>9, <1>10, <1>11, <1>12, <1>13, <1>14 DEF MoneyInv

LEMMA MoneyDelivery ==
  ASSUME TypeOK, IInv, MoneyInv, DeliveryNext, UNCHANGED <<eventVars, serviceVars, linkVars>>
  PROVE  MoneyInv'
<1>1. UNCHANGED <<settled, payment, pc, cur, snap, charge, evt, job, shown, lpc, lref, relinked>>
  BY DeliveryMoves DEF serviceVars, eventVars, linkVars
<1>2. \A o \in Orders : status'[o] # status[o] => Backed(o)
  BY DeliveryMoves DEF IInv, BackedInv
<1>3. \A o \in Orders : Accounted(o) => Accounted(o)'
  BY <1>1, <1>2, AccountedStays
<1>4. \A w \in Workers : pc[w] # "idle" => Ref(w) \in Refs /\ Ord(w) \in Orders
  BY HandledRef
<1>5. \A w \in Workers : /\ Ref(w)' = Ref(w) /\ Ord(w)' = Ord(w)
  BY <1>1 DEF Ref, Ord
<1>6. \A w \in Workers : pc[w] # "idle" /\ Accounted(Ord(w)) => Accounted(Ord(w))'
  BY <1>1, <1>3, <1>4, <1>5 DEF Accounted, Ord
<1>9. (\A o \in Orders : status[o] # "REFUNDED")'
  BY DeliveryFulfils DEF MoneyInv
<1>10. (\A w \in Workers :
         /\ pc[w] \in {"claim"} \cup Settling => cur[w].kind = "success"
         /\ pc[w] = "failClaim" => cur[w].kind = "failed"
         /\ pc[w] = "claimFailed" => charge[Ref(w)] = "wrongAmount")'
  BY <1>1, <1>5 DEF MoneyInv
<1>11. ASSUME NEW w \in Workers
       PROVE (/\ pc[w] # "idle" /\ snap[w].status \in Progressed => Accounted(Ord(w))
              /\ pc[w] \in {"confirm", "send", "release", "persist"} => Accounted(Ord(w))
              /\ pc[w] = "done" /\ cur[w].kind = "success" /\ charge[Ref(w)] = "paid"
                   /\ Ref(w) \notin Foreign => Accounted(Ord(w)))'
  BY <1>1, <1>5, <1>6 DEF MoneyInv
<1>12. (\A r \in Refs : payment[r] = "SUCCESS" =>
         \/ Accounted(OrderOf[r])
         \/ \E w \in Workers : pc[w] \in Settling /\ Ref(w) = r)'
  BY <1>1, <1>3, <1>5 DEF MoneyInv
<1>13. NoMoneyLost'
  BY <1>1, <1>3 DEF MoneyInv, NoMoneyLost
<1>14. (\A w \in Workers : pc[w] # "idle" => job[cur[w]] = "active")'
       /\ (\A v, w \in Workers : v # w /\ pc[v] # "idle" /\ pc[w] # "idle" => cur[v] # cur[w])'
       /\ (\A r \in shown : payment[r] # "none")'
       /\ (\A a \in Agents : lpc[a] = "flip" => payment[lref[a]] # "none")'
       /\ (\A r \in Refs \ Foreign : charge[r] # "unpaid" => payment[r] # "none")'
  BY <1>1 DEF MoneyInv
<1> QED BY <1>9, <1>10, <1>11, <1>12, <1>13, <1>14 DEF MoneyInv

LEMMA MoneyTake ==
  ASSUME TypeOK, IInv, MoneyInv, UNCHANGED linkVars,
         NEW w \in Workers, NEW e \in Events, TakeJob(w, e)
  PROVE  MoneyInv'
<1> DEFINE o == OrderOf[e.ref]
<1>1. UNCHANGED <<settled, payment, status, charge, evt, shown, lpc, lref, relinked>>
  BY DEF TakeJob, dataVars, historyVars, KeepEvents, linkVars
<1>2. /\ pc[w] = "idle" /\ job[e] = "wait" /\ job'[e] = "active"
      /\ \A f \in Events : f # e => job'[f] = job[f]
      /\ pc'[w] = AfterRead(e) /\ cur'[w] = e /\ snap'[w].status = status[o]
      /\ \A v \in Workers : v # w => pc'[v] = pc[v] /\ cur'[v] = cur[v] /\ snap'[v] = snap[v]
  BY DEF TakeJob, Goto, Snapshot, TypeOK, EventsTypeOK, ServiceTypeOK
<1>3. /\ o \in Orders /\ Ref(w)' = e.ref /\ Ord(w)' = o
      /\ \A v \in Workers : v # w => Ref(v)' = Ref(v) /\ Ord(v)' = Ord(v)
  BY <1>2 DEF Ref, Ord
<1> HIDE DEF o
<1>4. \A p \in Orders : Accounted(p)' <=> Accounted(p)
  BY <1>1 DEF Accounted
<1>5. \A v \in Workers : pc[v] # "idle" => Ord(v) \in Orders
  BY HandledRef
<1>6. \A v \in Workers : v # w /\ pc[v] # "idle" => (Accounted(Ord(v))' <=> Accounted(Ord(v)))
  BY <1>1, <1>2 DEF Accounted, Ord, RefsOf
<1>7. Accounted(Ord(w))' <=> Accounted(o)
  BY <1>1, <1>2, <1>3 DEF Accounted, Ord, RefsOf, o
<1>8. status[o] \in Progressed => Accounted(o)
  BY <1>3 DEF IInv, BackedInv, PaidIsBacked, Backed, MoneyInv, Accounted, Progressed
<1>9. /\ AfterRead(e) \notin Settling \cup Paying /\ (AfterRead(e) = "claim" => e.kind = "success")
      /\ (AfterRead(e) = "failClaim" => e.kind = "failed")
      /\ (AfterRead(e) = "claimFailed" => charge[e.ref] = "wrongAmount")
      /\ (AfterRead(e) = "done" /\ e.kind = "success" => payment[e.ref] = "none")
  BY DEF AfterRead, SuccessStep, Settling, Paying
<1>10. (\A v \in Workers : pc[v] # "idle" => job[cur[v]] = "active")'
       /\ (\A u, v \in Workers : u # v /\ pc[u] # "idle" /\ pc[v] # "idle" => cur[u] # cur[v])'
  <2>1. \A v \in Workers : v # w /\ pc[v] # "idle" => cur[v] \in Events /\ cur[v] # e
                                                     /\ job[cur[v]] = "active"
    BY <1>2, HandledRef DEF MoneyInv
  <2>2. (\A v \in Workers : pc[v] # "idle" => job[cur[v]] = "active")'
    BY <1>2, <2>1
  <2>3. (\A u, v \in Workers : u # v /\ pc[u] # "idle" /\ pc[v] # "idle" => cur[u] # cur[v])'
    <3> SUFFICES ASSUME NEW u \in Workers, NEW v \in Workers, u # v, pc'[u] # "idle",
                        pc'[v] # "idle"
                 PROVE  cur'[u] # cur'[v]
      OBVIOUS
    <3>1. CASE u = w \/ v = w
      BY <1>2, <2>1, <3>1
    <3>2. CASE u # w /\ v # w
      BY <1>2, <3>2 DEF MoneyInv
    <3> QED BY <3>1, <3>2
  <2> QED BY <2>2, <2>3
<1>11. (\A v \in Workers :
         /\ pc[v] \in {"claim"} \cup Settling => cur[v].kind = "success"
         /\ pc[v] = "failClaim" => cur[v].kind = "failed"
         /\ pc[v] = "claimFailed" => charge[Ref(v)] = "wrongAmount")'
  BY <1>1, <1>2, <1>3, <1>9 DEF MoneyInv
<1>12. (\A v \in Workers : pc[v] # "idle" /\ snap[v].status \in Progressed => Accounted(Ord(v)))'
  BY <1>2, <1>6, <1>7, <1>8 DEF MoneyInv
<1>13. (\A v \in Workers : pc[v] \in {"confirm", "send", "release", "persist"} => Accounted(Ord(v)))'
  BY <1>2, <1>6, <1>9 DEF MoneyInv, Paying
<1>14. ASSUME NEW v \in Workers
       PROVE (pc[v] = "done" /\ cur[v].kind = "success" /\ charge[Ref(v)] = "paid"
                /\ Ref(v) \notin Foreign => Accounted(Ord(v)))'
  <2>1. CASE v = w
    BY <2>1, <1>1, <1>2, <1>3, <1>9 DEF MoneyInv
  <2>2. CASE v # w
    BY <2>2, <1>1, <1>2, <1>3, <1>6 DEF MoneyInv
  <2> QED BY <2>1, <2>2
<1>15. (\A r \in Refs : payment[r] = "SUCCESS" =>
         \/ Accounted(OrderOf[r])
         \/ \E v \in Workers : pc[v] \in Settling /\ Ref(v) = r)'
  BY <1>1, <1>2, <1>3, <1>4 DEF MoneyInv, Settling
<1>16. NoMoneyLost'
  BY <1>1, <1>4 DEF MoneyInv, NoMoneyLost
<1>17. (\A r \in shown : payment[r] # "none")'
       /\ (\A a \in Agents : lpc[a] = "flip" => payment[lref[a]] # "none")'
       /\ (\A r \in Refs \ Foreign : charge[r] # "unpaid" => payment[r] # "none")'
       /\ (\A p \in Orders : status[p] # "REFUNDED")'
  BY <1>1 DEF MoneyInv
<1> QED BY <1>10, <1>11, <1>12, <1>13, <1>14, <1>15, <1>16, <1>17 DEF MoneyInv

LEMMA SameEvent ==
  ASSUME NEW e \in Events, NEW f \in Events, e.kind = f.kind, e.ref = f.ref
  PROVE  e = f
<1>1. e \in [kind : {"success", "failed"}, ref : Refs]
      /\ f \in [kind : {"success", "failed"}, ref : Refs]
  OBVIOUS
<1> QED BY ONLY <1>1, e.kind = f.kind, e.ref = f.ref

LEMMA MoneyHandle ==
  ASSUME TypeOK, IInv, MoneyInv, UNCHANGED linkVars, NEW w \in Workers, Handle(w)
  PROVE  MoneyInv'
<1>1. MoneyMove(w) /\ UNCHANGED <<lpc, lref, relinked>>
  BY MoneyMoves DEF linkVars
<1>2. Ref(w) \in Refs /\ Ord(w) = OrderOf[Ref(w)] /\ Ord(w) \in Orders /\ cur[w] \in Events
      /\ cur[w].ref = Ref(w) /\ \A v \in Workers : pc[v] # "idle" => Ref(v) \in Refs /\ Ord(v) \in Orders
                                   /\ cur[v] \in Events /\ cur[v].ref = Ref(v)
  BY <1>1, HandledRef DEF MoneyMove, Ref, Ord
<1>3. \A o \in Orders : Accounted(o) => Accounted(o)'
  <2> SUFFICES ASSUME NEW o \in Orders, Accounted(o) PROVE Accounted(o)'
    OBVIOUS
  <2>1. \A r \in Refs : settled[r] > 0 => settled'[r] > 0
    BY <1>1 DEF MoneyMove
  <2>2. status'[o] # status[o] =>
           (\E r \in RefsOf(o) : settled'[r] > 0) \/ status'[o] = "CANCELLED"
    BY <1>1, <1>2 DEF MoneyMove, RefsOf
  <2> QED BY <1>1, <2>1, <2>2, AccountedStays
<1>4. settled'[Ref(w)] > 0 \/ status'[Ord(w)] = "CANCELLED" => Accounted(Ord(w))' \/ pc'[w] = "idle"
  <2>1. pc'[w] # "idle" => Ord(w)' = Ord(w)
    BY <1>1 DEF MoneyMove, Ord
  <2> QED BY <1>2, <2>1 DEF Accounted, RefsOf, Ord
<1>5. \A v \in Workers : pc'[v] # "idle" =>
        /\ pc[v] # "idle" /\ cur'[v] = cur[v] /\ snap'[v] = snap[v]
        /\ Ref(v)' = Ref(v) /\ Ord(v)' = Ord(v) /\ (Accounted(Ord(v)) => Accounted(Ord(v))')
  <2> SUFFICES ASSUME NEW v \in Workers, pc'[v] # "idle"
               PROVE  /\ pc[v] # "idle" /\ cur'[v] = cur[v] /\ snap'[v] = snap[v]
                      /\ Ref(v)' = Ref(v) /\ Ord(v)' = Ord(v)
                      /\ (Accounted(Ord(v)) => Accounted(Ord(v))')
    OBVIOUS
  <2>1. pc[v] # "idle" /\ cur'[v] = cur[v] /\ snap'[v] = snap[v]
    BY <1>1 DEF MoneyMove
  <2>2. Ref(v)' = Ref(v) /\ Ord(v)' = Ord(v)
    BY <2>1 DEF Ref, Ord
  <2>3. PICK o \in Orders : o = Ord(v)
    BY <1>2, <2>1
  <2>4. Accounted(Ord(v))' <=> Accounted(o)'
    BY <2>2, <2>3 DEF Accounted, RefsOf
  <2> QED BY <1>3, <2>1, <2>2, <2>3, <2>4
<1>6. (\A v \in Workers : pc[v] # "idle" => job[cur[v]] = "active")'
  BY <1>1, <1>2, <1>5 DEF MoneyInv, MoneyMove
<1>7. (\A u, v \in Workers : u # v /\ pc[u] # "idle" /\ pc[v] # "idle" => cur[u] # cur[v])'
  BY <1>5 DEF MoneyInv
<1>8. (\A v \in Workers :
         /\ pc[v] \in {"claim"} \cup Settling => cur[v].kind = "success"
         /\ pc[v] = "failClaim" => cur[v].kind = "failed"
         /\ pc[v] = "claimFailed" => charge[Ref(v)] = "wrongAmount")'
  BY <1>1, <1>5 DEF MoneyInv, MoneyMove, Settling
<1>9. (\A v \in Workers : pc[v] # "idle" /\ snap[v].status \in Progressed => Accounted(Ord(v)))'
  BY <1>5 DEF MoneyInv
<1>10. \A v \in Workers : v # w => pc'[v] = pc[v]
  BY <1>1 DEF MoneyMove
<1>11. (\A v \in Workers : pc[v] \in {"confirm", "send", "release", "persist"} => Accounted(Ord(v)))'
  <2>1. ASSUME pc'[w] \in Paying PROVE Accounted(Ord(w))'
    <3>1. CASE pc[w] \in Settling
      BY <1>1, <1>4, <2>1, <3>1 DEF MoneyMove, Settling, Paying
    <3>2. CASE pc[w] \in Paying \/ (pc[w] = "claim" /\ snap[w].status = "PAID")
      BY <1>5, <2>1, <3>2 DEF MoneyInv, Paying, Progressed
    <3> QED BY <1>1, <2>1, <3>1, <3>2 DEF MoneyMove
  <2> QED BY <1>5, <1>10, <2>1 DEF MoneyInv, Paying
<1>12. ASSUME pc'[w] = "done", cur[w].kind = "success", charge[Ref(w)] = "paid"
       PROVE  Accounted(Ord(w))'
  <2>1. CASE pc[w] \in Settling
    BY <1>1, <1>4, <1>12, <2>1 DEF MoneyMove, Settling
  <2>2. CASE pc[w] \in Paying \/ (pc[w] = "claim" /\ snap[w].status \in Progressed)
    BY <1>5, <1>12, <2>2 DEF MoneyInv, Paying
  <2>3. CASE pc[w] = "claim" /\ payment[Ref(w)] = "SUCCESS"
    <3>1. ASSUME NEW v \in Workers, pc[v] \in Settling, Ref(v) = Ref(w) PROVE FALSE
      <4>1. v # w /\ pc[v] # "idle" /\ pc[w] # "idle" /\ cur[v].kind = "success"
        BY <2>3, <3>1 DEF MoneyInv, Settling
      <4>2. cur[v] = cur[w]
        BY <1>2, <1>12, <3>1, <4>1, SameEvent
      <4> QED BY <4>1, <4>2 DEF MoneyInv
    <3>2. Accounted(Ord(w))
      BY <1>2, <2>3, <3>1 DEF MoneyInv
    <3> QED BY <1>5, <1>12, <3>2
  <2>4. pc[w] \notin {"claimFailed", "failClaim"}
    BY <1>12 DEF MoneyInv
  <2> QED BY <1>1, <1>12, <2>1, <2>2, <2>3, <2>4 DEF MoneyMove
<1>13. ASSUME NEW v \in Workers
       PROVE (pc[v] = "done" /\ cur[v].kind = "success" /\ charge[Ref(v)] = "paid"
                /\ Ref(v) \notin Foreign => Accounted(Ord(v)))'
  <2>1. charge' = charge
    BY <1>1 DEF MoneyMove
  <2>2. CASE v = w
    BY <1>5, <1>12, <2>1, <2>2
  <2>3. CASE v # w
    BY <1>5, <1>10, <2>1, <2>3 DEF MoneyInv
  <2> QED BY <2>2, <2>3
<1>14. ASSUME NEW r \in Refs, payment'[r] = "SUCCESS"
       PROVE  Accounted(OrderOf[r])' \/ \E v \in Workers : pc'[v] \in Settling /\ Ref(v)' = r
  <2>0. OrderOf[r] \in Orders
    OBVIOUS
  <2>1. CASE payment[r] = "SUCCESS" /\ Accounted(OrderOf[r])
    BY <1>3, <2>0, <2>1
  <2>2. ASSUME NEW v \in Workers, pc[v] \in Settling, Ref(v) = r, pc'[v] \in Settling
        PROVE  pc'[v] \in Settling /\ Ref(v)' = r
    BY <1>5, <2>2 DEF Settling
  <2>3. CASE pc[w] \in Settling /\ Ref(w) = r /\ pc'[w] \notin Settling
    BY <1>1, <1>2, <2>3 DEF MoneyMove, Accounted, RefsOf
  <2>4. CASE r = Ref(w) /\ pc'[w] = "tx"
    BY <1>5, <2>4 DEF Settling
  <2>5. CASE r = Ref(w) /\ pc[w] = "claim" /\ snap[w].status \in Progressed
    BY <1>2, <1>3, <2>5 DEF MoneyInv
  <2> QED
    BY <1>1, <1>10, <1>14, <2>1, <2>2, <2>3, <2>4, <2>5 DEF MoneyMove, MoneyInv
<1>15. NoMoneyLost'
  <2> SUFFICES ASSUME NEW e \in Events, e.kind = "success", evt'[e] = "PROCESSED",
                      charge'[e.ref] = "paid", e.ref \notin Foreign
               PROVE  Accounted(OrderOf[e.ref])'
    BY DEF NoMoneyLost
  <2>1. charge[e.ref] = "paid" /\ OrderOf[e.ref] \in Orders
        /\ (evt[e] = "PROCESSED" \/ (e = cur[w] /\ pc[w] = "done"))
    BY <1>1 DEF MoneyMove
  <2>2. Accounted(OrderOf[e.ref])
    BY <1>2, <2>1 DEF MoneyInv, NoMoneyLost
  <2> QED BY <1>3, <2>1, <2>2
<1>16. (\A r \in shown : payment[r] # "none")'
       /\ (\A a \in Agents : lpc[a] = "flip" => payment[lref[a]] # "none")'
       /\ (\A r \in Refs \ Foreign : charge[r] # "unpaid" => payment[r] # "none")'
       /\ (\A o \in Orders : status[o] # "REFUNDED")'
  <2>1. UNCHANGED <<charge, shown>> /\ \A r \in Refs : payment[r] # "none" => payment'[r] # "none"
    BY <1>1 DEF MoneyMove
  <2>2. shown \subseteq Refs /\ \A a \in Agents : lpc[a] = "flip" => lref[a] \in Refs
    BY DEF TypeOK, EventsTypeOK, LinksTypeOK
  <2>3. \A o \in Orders : status'[o] # status[o] => status'[o] \in {"PAID", "CANCELLED"}
    BY <1>1 DEF MoneyMove
  <2>4. (\A r \in shown : payment[r] # "none")'
    BY <2>1, <2>2 DEF MoneyInv
  <2>5. (\A a \in Agents : lpc[a] = "flip" => payment[lref[a]] # "none")'
    BY <1>1, <2>1, <2>2 DEF MoneyInv
  <2>6. (\A r \in Refs \ Foreign : charge[r] # "unpaid" => payment[r] # "none")'
    BY <2>1 DEF MoneyInv
  <2>7. (\A o \in Orders : status[o] # "REFUNDED")'
    BY <2>3 DEF MoneyInv
  <2> QED BY <2>4, <2>5, <2>6, <2>7
<1> QED BY <1>6, <1>7, <1>8, <1>9, <1>11, <1>13, <1>14, <1>15, <1>16 DEF MoneyInv

(* A payment made in full whose event counts as processed has settled its  *)
(* order, or the order was cancelled, or a link reopened it, whatever      *)
(* attempts, duplicates and rival payments the queue interleaves, while no *)
(* worker dies and no database call of the handler throws (the outcomes of *)
(* handleChargeSuccess).                                                   *)
THEOREM MoneyKept ==
  ASSUME NoBreaks
  PROVE  Spec => []NoMoneyLost
<1>1. Init => MoneyInv
  BY DEF Init, DataInit, EventsInit, ServiceInit, LinksInit, MoneyInv, NoMoneyLost, Settling
<1>2. TypeOK /\ IInv /\ MoneyInv /\ [Next]_vars => MoneyInv'
  <2> SUFFICES ASSUME TypeOK, IInv, MoneyInv, [Next]_vars PROVE MoneyInv'
    OBVIOUS
  <2>1. \A w \in Workers : ~Abort(w) /\ ~Crash(w)
    BY DEF Abort, Crash, Inject, NoBreaks
  <2>2. CASE UNCHANGED vars
    BY <2>2 DEF vars, dataVars, eventVars, serviceVars, linkVars, MoneyInv, NoMoneyLost,
         Accounted, RefsOf, Ref, Ord
  <2> QED
    BY <2>1, <2>2, MoneyEvents, MoneyLinks, MoneyDelivery, MoneyTake, MoneyHandle
       DEF Next, ServiceNext
<1>3. MoneyInv => NoMoneyLost
  BY DEF MoneyInv
<1> QED
  BY <1>1, <1>2, <1>3, TypeCorrect, Strengthened, PTL DEF Spec
=============================================================================
