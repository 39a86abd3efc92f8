--------------------------- MODULE PaymentSystem ---------------------------
(***************************************************************************)
(* The payment subsystem: Paystack, the webhook endpoint and the queue     *)
(* (PaymentEvents), the worker (PaymentService), the payment-link tool     *)
(* (PaymentLinks) and the delivery command (DeliveryCli), interleaved over *)
(* the rows of ShopData.                                                   *)
(***************************************************************************)
EXTENDS PaymentService, PaymentLinks, DeliveryCli, Sums

vars == <<dataVars, eventVars, serviceVars, linkVars, task>>

Init == DataInit /\ EventsInit /\ ServiceInit /\ LinksInit /\ DeliveryInit

Next ==
  \/ EventsNext /\ UNCHANGED <<dataVars, serviceVars, linkVars, task>>
  \/ ServiceNext /\ UNCHANGED <<linkVars, task>>
  \/ LinksNext /\ UNCHANGED <<serviceVars, task>>
  \/ DeliveryNext /\ UNCHANGED <<eventVars, serviceVars, linkVars>>

Spec == Init /\ [][Next]_vars

(* Paystack posts an event until it is acknowledged, BullMQ hands out jobs *)
(* in order of arrival, and a running handler goes on.  Nothing forces a   *)
(* customer to pay, an agent or staff to act, or a finished job to be      *)
(* dropped.                                                                *)
Rest == UNCHANGED <<linkVars, task>>
Fairness ==
  /\ \A e \in Events :
       /\ WF_vars(CaptureRawEvent(e) /\ UNCHANGED <<dataVars, serviceVars>> /\ Rest)
       /\ WF_vars(EnqueuePaymentEvent(e) /\ UNCHANGED <<dataVars, serviceVars>> /\ Rest)
       /\ SF_vars((\E w \in Workers : TakeJob(w, e)) /\ Rest)
  /\ \A w \in Workers : WF_vars(Handle(w) /\ Rest)

FairSpec == Spec /\ Fairness

-----------------------------------------------------------------------------
TypeOK ==
  /\ DataTypeOK /\ EventsTypeOK /\ ServiceTypeOK /\ LinksTypeOK /\ DeliveryTypeOK

RefsOf(o) == {r \in Refs : OrderOf[r] = o}
Sold(p) == Total([r \in Refs |-> settled[r] * Items[OrderOf[r]][p]], Refs)

(* No unit is lost or sold twice: what left the stock is what the          *)
(* committed deductions of all payments took, across rolled-back           *)
(* transactions, crashes and retried jobs.                                 *)
StockConserved == \A p \in Products : stock[p] + Sold(p) = InitStock[p]

(* However often its events arrive, fail and are retried, and on however   *)
(* many workers, one payment deducts stock at most once.                   *)
SettledOncePerPayment == \A r \in Refs : settled[r] <= 1

(* Goods leave the stock only for a reference the shop created and the     *)
(* customer charged with exactly the amount of its payment row.            *)
OnlyFullChargesSettle ==
  \A r \in Refs : settled[r] > 0 => charge[r] = "paid" /\ r \notin Foreign

(* An order that counts as paid, or ships, or is fulfilled has a tracking  *)
(* reference and a payment that deducted its stock, whoever moved it there.*)
Backed(o) == tracked[o] /\ \E r \in RefsOf(o) : settled[r] > 0
PaidIsBacked ==
  \A o \in Orders : status[o] \in {"PAID", "FULFILLING", "FULFILLED"} => Backed(o)

(* At most one receipt is sent with success for an order.                  *)
ReceiptAtMostOnce == \A o \in Orders : confirmed[o] <= 1

(* A confirmed payment is never un-confirmed, whatever failed or           *)
(* mismatching events still arrive for its reference.                      *)
SuccessIsFinal ==
  [][\A r \in Refs : payment[r] = "SUCCESS" => payment'[r] = "SUCCESS"]_vars

(* An order that create_payment_link did not reopen deducts stock once,    *)
(* also when two of its payments are charged.  (One worker.)               *)
DeductedOnceUnlessRelinked ==
  \A o \in Orders : ~relinked[o] => Total(settled, RefsOf(o)) <= 1

(* The stronger claim of the comment in handleChargeSuccess: an order that *)
(* moved past payment is never deducted again.                             *)
DeductedOnce ==
  \A o \in Orders : Total(settled, RefsOf(o)) <= 1

(* Once the event of a payment made in full is marked PROCESSED, the       *)
(* customer's money is accounted for: it settled the order, or the order   *)
(* was cancelled for want of stock, or another payment had settled it, or  *)
(* create_payment_link has reopened it since.                              *)
Accounted(o) ==
  (\E r \in RefsOf(o) : settled[r] > 0) \/ status[o] = "CANCELLED" \/ relinked[o]
NoMoneyLost ==
  \A e \in Events :
    /\ e.kind = "success" /\ evt[e] = "PROCESSED"
    /\ charge[e.ref] = "paid" /\ e.ref \notin Foreign
    => Accounted(OrderOf[e.ref])

(* The customer never receives two receipts for an order.                  *)
OneReceiptDelivered == \A o \in Orders : copies[o] <= 1

Rank(d) == CASE d = "PENDING" -> 0 [] d = "PROCESSING" -> 1
             [] d = "SHIPPED" -> 2 [] d = "DELIVERED" -> 3

(* The delivery status of an order never skips a stage nor goes back, with *)
(* the worker and the delivery command both writing it.                    *)
DeliveryForward ==
  [][\A o \in Orders : \/ delivery'[o] = delivery[o]
                       \/ Rank(delivery'[o]) = Rank(delivery[o]) + 1
                       \/ relinked[o]]_vars

(* A full payment's event is eventually processed or its job used up every *)
(* attempt, although the endpoint may die between storing and enqueueing.  *)
ChargeHandled ==
  \A e \in Events :
    Occurred(e) ~> evt[e] = "PROCESSED" \/ job[e] = "failed"

(* A settled order's receipt is eventually sent, unless the sends of every *)
(* attempt of its job failed.                                              *)
ReceiptResumed ==
  \A e \in Events :
    e.kind = "success" /\ settled[e.ref] > 0
      ~> confirmed[OrderOf[e.ref]] > 0 \/ job[e] = "failed"

-----------------------------------------------------------------------------
(* Inductive strengthenings, named for the property each one carries.      *)

Claiming == {"claimFailed", "failClaim", "claim", "tx"}

(* Settlement: an event in the system has occurred; a worker about to claim*)
(* or settle holds a real, fully paid reference; one about to settle owns  *)
(* it alone.                                                               *)
SettleInv ==
  /\ \A e \in Events :
       evt[e] # "none" \/ inflight[e] > 0 \/ job[e] # "none" => Occurred(e)
  /\ \A w \in Workers : pc[w] # "idle" => Occurred(cur[w])
  /\ \A r \in Foreign : payment[r] = "none"
  /\ \A w \in Workers : pc[w] \in Claiming => payment[Ref(w)] # "none"
  /\ \A w \in Workers : pc[w] \in {"claim", "tx"} => charge[Ref(w)] = "paid"
  /\ \A w \in Workers :
       pc[w] = "tx" => payment[Ref(w)] = "SUCCESS" /\ settled[Ref(w)] = 0
  /\ \A v, w \in Workers :
       v # w /\ pc[v] = "tx" /\ pc[w] = "tx" => Ref(v) # Ref(w)
  /\ \A r \in Refs :
       settled[r] > 0 => settled[r] = 1 /\ payment[r] = "SUCCESS" /\ charge[r] = "paid"

(* Backing: what staff and workers are about to do rests on a settled      *)
(* payment, which nothing takes back.                                      *)
BackedInv ==
  /\ PaidIsBacked
  /\ \A s \in Staff : task[s] # NoTask => Backed(task[s].order)
  /\ \A w \in Workers : pc[w] \in {"send", "release"} => Backed(Ord(w))
  /\ \A o \in Orders : confirmed[o] > 0 => Backed(o)

(* Receipts: whoever claimed the confirmation holds it alone until it is   *)
(* sent or released.                                                       *)
ReceiptInv ==
  /\ \A w \in Workers :
       pc[w] \in {"send", "release"} => conf[Ord(w)] /\ confirmed[Ord(w)] = 0
  /\ \A v, w \in Workers :
       v # w /\ pc[v] \in {"send", "release"} /\ pc[w] \in {"send", "release"}
         => Ord(v) # Ord(w)
  /\ \A o \in Orders : confirmed[o] > 0 => confirmed[o] = 1 /\ conf[o]

IInv == SettleInv /\ BackedInv /\ ReceiptInv

(* Deductions by one worker: an order that has deducted and was not        *)
(* reopened is past payment, and the worker settles one that has not.      *)
OnceInv ==
  /\ \A o \in Orders :
       ~relinked[o] /\ (\E r \in RefsOf(o) : settled[r] > 0) => status[o] \in Progressed
  /\ \A w \in Workers : pc[w] = "tx" => MaySettle(snap[w])
  /\ \A w \in Workers :
       pc[w] \in {"claim", "tx"} /\ MaySettle(snap[w]) /\ ~relinked[Ord(w)]
         => \A r \in RefsOf(Ord(w)) : settled[r] = 0
  /\ \A o \in Orders :
       ~relinked[o] => \A q, r \in RefsOf(o) : settled[q] > 0 /\ settled[r] > 0 => q = r

(* Money: a job is handled by one worker at a time, who accounts for what  *)
(* it claimed before the job is done; what was paid in full has a row.     *)
Settling == {"tx", "cancel"}
MoneyInv ==
  /\ \A w \in Workers : pc[w] # "idle" => job[cur[w]] = "active"
  /\ \A v, w \in Workers : v # w /\ pc[v] # "idle" /\ pc[w] # "idle" => cur[v] # cur[w]
  /\ \A r \in shown : payment[r] # "none"
  /\ \A a \in Agents : lpc[a] = "flip" => payment[lref[a]] # "none"
  /\ \A r \in Refs \ Foreign : charge[r] # "unpaid" => payment[r] # "none"
  /\ \A o \in Orders : status[o] # "REFUNDED"
  /\ \A w \in Workers :
       /\ pc[w] \in {"claim"} \cup Settling => cur[w].kind = "success"
       /\ pc[w] = "failClaim" => cur[w].kind = "failed"
       /\ pc[w] = "claimFailed" => charge[Ref(w)] = "wrongAmount"
       /\ pc[w] # "idle" /\ snap[w].status \in Progressed => Accounted(Ord(w))
       /\ pc[w] \in {"confirm", "send", "release", "persist"} => Accounted(Ord(w))
       /\ pc[w] = "done" /\ cur[w].kind = "success" /\ charge[Ref(w)] = "paid"
            /\ Ref(w) \notin Foreign => Accounted(Ord(w))
  /\ \A r \in Refs :
       payment[r] = "SUCCESS" =>
         \/ Accounted(OrderOf[r])
         \/ \E w \in Workers : pc[w] \in Settling /\ Ref(w) = r
  /\ NoMoneyLost

-----------------------------------------------------------------------------
(* The subsystem implements Settlement: a payment is made in full when     *)
(* Paystack charged it so, sold when its deduction committed, and the      *)
(* order confirmed when sendText returned.                                 *)
Promise == INSTANCE Settlement WITH
  paid <- {r \in Refs : charge[r] = "paid"},
  sold <- {r \in Refs : settled[r] > 0},
  receipts <- {o \in Orders : confirmed[o] > 0}

ImplementsSettlement == Promise!Spec

=============================================================================
