--------------------------- MODULE PaymentService ---------------------------
(***************************************************************************)
(* The payment-events worker: PaymentService.handleChargeEvent and the job *)
(* processor around it.  Every database or network call of the handler is  *)
(* an await, so every one is a step; several worker processes may run, each*)
(* handling one job at a time (concurrency 1 is per process).              *)
(*                                                                         *)
(* The order is read once, before the payment is claimed, and the branches *)
(* that follow use that snapshot.                                          *)
(***************************************************************************)
EXTENDS PaymentEvents

CONSTANTS
  Workers,      \* worker processes
  NoEvent,      \* the event of an idle worker
  MaxCopies     \* bound: copies of one receipt the network may deliver

ASSUME PaymentServiceAssumption ==
  /\ NoEvent \notin Events
  /\ MaxCopies \in Nat \ {0}

VARIABLES
  pc,           \* where each worker is in the handler
  cur,          \* the event it is handling
  snap,         \* its snapshot of the order
  settled,      \* history: deduction transactions committed by each payment
  confirmed,    \* history: sendText calls that returned success, by order
  copies        \* history: receipts that reached the customer, by order

serviceVars == <<pc, cur, snap, settled, confirmed, copies>>
historyVars == <<settled, confirmed, copies>>

Steps == {"idle", "claimFailed", "failClaim", "claim", "tx", "cancel",
          "confirm", "send", "release", "persist", "done"}
Snapshots == [status : OrderStatus, conf : BOOLEAN, tracked : BOOLEAN]
NoSnap == [status |-> "DRAFT", conf |-> FALSE, tracked |-> FALSE]

ServiceTypeOK ==
  /\ pc \in [Workers -> Steps]
  /\ cur \in [Workers -> Events \cup {NoEvent}]
  /\ \A w \in Workers : pc[w] # "idle" => cur[w] \in Events
  /\ snap \in [Workers -> Snapshots]
  /\ settled \in [Refs -> Nat]
  /\ confirmed \in [Orders -> Nat]
  /\ copies \in [Orders -> Nat]

ServiceInit ==
  /\ pc = [w \in Workers |-> "idle"]
  /\ cur = [w \in Workers |-> NoEvent]
  /\ snap = [w \in Workers |-> NoSnap]
  /\ settled = [r \in Refs |-> 0]
  /\ confirmed = [o \in Orders |-> 0]
  /\ copies = [o \in Orders |-> 0]

Ref(w) == cur[w].ref
Ord(w) == OrderOf[cur[w].ref]

Goto(w, step) == pc' = [pc EXCEPT ![w] = step]
KeepEvents == UNCHANGED <<charge, declined, shown, evt, inflight>>

-----------------------------------------------------------------------------
(* Job start: read the payment and, for charge.success, the order, then    *)
(* compare the amount.  An unknown reference and a charge.failed after     *)
(* SUCCESS are ignored.                                                    *)

(* Mutant: the amount of the event is not compared with the payment row.   *)
SuccessStep_TrustsAmount(r) == "claim"
SuccessStep(r) == IF charge[r] = "wrongAmount" THEN "claimFailed" ELSE "claim"

AfterRead(e) ==
  IF \/ payment[e.ref] = "none"
     \/ e.kind = "failed" /\ payment[e.ref] = "SUCCESS"
    THEN "done"
    ELSE IF e.kind = "failed" THEN "failClaim" ELSE SuccessStep(e.ref)

Snapshot(o) == [status |-> status[o], conf |-> conf[o], tracked |-> tracked[o]]

TakeJob(w, e) ==
  /\ pc[w] = "idle"
  /\ job[e] = "wait"
  /\ job' = [job EXCEPT ![e] = "active"]
  /\ cur' = [cur EXCEPT ![w] = e]
  /\ Goto(w, AfterRead(e))
  /\ snap' = [snap EXCEPT ![w] = Snapshot(OrderOf[e.ref])]
  /\ KeepEvents
  /\ UNCHANGED <<dataVars, historyVars, attempts, faults>>

-----------------------------------------------------------------------------
(* Conditional updates of the payment row (updateMany with a status guard).*)

Claimable_Always(r) == payment[r] # "none"       \* mutant: unguarded update
Claimable(r) == payment[r] # "SUCCESS"

ToFailed(r) == IF payment[r] = "PENDING" THEN "FAILED" ELSE payment[r]

(* charge.success with an amount other than the one initialised.           *)
ClaimFailed(w) ==
  /\ pc[w] = "claimFailed"
  /\ payment' = [payment EXCEPT
       ![Ref(w)] = IF Claimable(Ref(w)) THEN "FAILED" ELSE @]
  /\ Goto(w, "done")
  /\ KeepEvents
  /\ UNCHANGED <<status, delivery, tracked, conf, stock,
                 cur, snap, historyVars, job, attempts, faults>>

(* charge.failed: only a PENDING payment fails; the order is left alone.   *)
HandleChargeFailed(w) ==
  /\ pc[w] = "failClaim"
  /\ payment' = [payment EXCEPT ![Ref(w)] = ToFailed(Ref(w))]
  /\ Goto(w, "done")
  /\ KeepEvents
  /\ UNCHANGED <<status, delivery, tracked, conf, stock,
                 cur, snap, historyVars, job, attempts, faults>>

(* Already SUCCESS: a duplicate, unless the snapshot says the receipt of a *)
(* paid order never went out.                                              *)
NeedsReceipt(s) == s.status = "PAID" /\ ~s.conf /\ s.tracked

(* Claimed by us: the order is settled unless the snapshot is already past *)
(* payment.                                                                *)
MaySettle_Always(s) == TRUE                      \* mutant: check dropped
MaySettle_Linked(s) == s.status = "PAYMENT_PENDING"   \* mutant: DRAFT forgotten
MaySettle(s) == s.status \notin Progressed

ClaimSuccess(w) ==
  /\ pc[w] = "claim"
  /\ IF Claimable(Ref(w))
       THEN /\ payment' = [payment EXCEPT ![Ref(w)] = "SUCCESS"]
            /\ Goto(w, IF MaySettle(snap[w]) THEN "tx" ELSE "done")
       ELSE /\ Goto(w, IF NeedsReceipt(snap[w]) THEN "confirm" ELSE "done")
            /\ UNCHANGED payment
  /\ KeepEvents
  /\ UNCHANGED <<status, delivery, tracked, conf, stock,
                 cur, snap, historyVars, job, attempts, faults>>

-----------------------------------------------------------------------------
(* The deduction transaction: all lines or none, and the order row is      *)
(* overwritten whatever its status has become.                             *)

Covered(o) == InStock(o)

Settle(w) ==
  /\ pc[w] = "tx"
  /\ Covered(Ord(w))
  /\ stock' = Deduct(Ord(w))
  /\ status' = [status EXCEPT ![Ord(w)] = "PAID"]
  /\ delivery' = [delivery EXCEPT ![Ord(w)] = "PROCESSING"]
  /\ tracked' = [tracked EXCEPT ![Ord(w)] = TRUE]
  /\ settled' = [settled EXCEPT ![Ref(w)] = @ + 1]
  /\ Goto(w, "confirm")
  /\ KeepEvents
  /\ UNCHANGED <<conf, payment, cur, snap, confirmed, copies,
                 job, attempts, faults>>

(* StockRaceError: the transaction rolls back.                             *)
StockRace(w) ==
  /\ pc[w] = "tx"
  /\ ~Covered(Ord(w))
  /\ Goto(w, "cancel")
  /\ KeepEvents
  /\ UNCHANGED <<dataVars, cur, snap, historyVars, job, attempts, faults>>

(* handleStockRace: the cancellation is retried inside withRetry; when all *)
(* tries fail the error leaves the handler (Abort).                        *)
HandleStockRace(w) ==
  /\ pc[w] = "cancel"
  /\ status' = [status EXCEPT ![Ord(w)] = "CANCELLED"]
  /\ Goto(w, "done")
  /\ KeepEvents
  /\ UNCHANGED <<delivery, tracked, conf, payment, stock,
                 cur, snap, historyVars, job, attempts, faults>>

-----------------------------------------------------------------------------
(* sendPaidConfirmation.                                                   *)

Unconfirmed_NoFlag(o) == status[o] = "PAID"      \* mutant: flag not tested
Unconfirmed(o) == status[o] = "PAID" /\ ~conf[o]

ClaimConfirmation(w) ==
  /\ pc[w] = "confirm"
  /\ IF Unconfirmed(Ord(w))
       THEN conf' = [conf EXCEPT ![Ord(w)] = TRUE] /\ Goto(w, "send")
       ELSE Goto(w, "done") /\ UNCHANGED conf
  /\ KeepEvents
  /\ UNCHANGED <<status, delivery, tracked, payment, stock,
                 cur, snap, historyVars, job, attempts, faults>>

(* sendText answers: the receipt reached the customer.                     *)
SendReceipt(w) ==
  /\ pc[w] = "send"
  /\ confirmed' = [confirmed EXCEPT ![Ord(w)] = @ + 1]
  /\ copies' = [copies EXCEPT ![Ord(w)] = @ + 1]
  /\ Goto(w, "persist")
  /\ KeepEvents
  /\ UNCHANGED <<dataVars, cur, snap, settled, job, attempts, faults>>

(* The receipt was delivered but the answer was lost: the client retries a *)
(* network error inside sendText.                                          *)
ReplyLost(w) ==
  /\ pc[w] = "send"
  /\ Inject("reply")
  /\ copies[Ord(w)] < MaxCopies
  /\ copies' = [copies EXCEPT ![Ord(w)] = @ + 1]
  /\ KeepEvents
  /\ UNCHANGED <<dataVars, pc, cur, snap, settled, confirmed, job, attempts>>

(* sendText throws after its own retries.                                  *)
SendFails(w) ==
  /\ pc[w] = "send"
  /\ Goto(w, "release")
  /\ KeepEvents
  /\ UNCHANGED <<dataVars, cur, snap, historyVars, job, attempts, faults>>

(* A thrown error ends the attempt; the job is retried or finally failed.  *)
FailAttempt(w) ==
  /\ attempts' = [attempts EXCEPT ![cur[w]] = @ + 1]
  /\ job' = [job EXCEPT ![cur[w]] =
       IF attempts[cur[w]] + 1 >= MaxAttempts THEN "failed" ELSE "wait"]
  /\ Goto(w, "idle")
  /\ cur' = [cur EXCEPT ![w] = NoEvent]
  /\ snap' = [snap EXCEPT ![w] = NoSnap]

(* Mutant: the claim is kept after a failed send.                          *)
ReleaseConfirmation_Keeps(w) ==
  /\ pc[w] = "release"
  /\ FailAttempt(w)
  /\ KeepEvents
  /\ UNCHANGED <<dataVars, historyVars, faults>>

(* The claim is released and the send error rethrown.                      *)
ReleaseConfirmation(w) ==
  /\ pc[w] = "release"
  /\ conf' = [conf EXCEPT ![Ord(w)] = FALSE]
  /\ FailAttempt(w)
  /\ KeepEvents
  /\ UNCHANGED <<status, delivery, tracked, payment, stock, historyVars, faults>>

(* The sent receipt is stored on the customer's open conversation.         *)
PersistReceipt(w) ==
  /\ pc[w] = "persist"
  /\ Goto(w, "done")
  /\ KeepEvents
  /\ UNCHANGED <<dataVars, cur, snap, historyVars, job, attempts, faults>>

-----------------------------------------------------------------------------
(* The job processor and the queue around the handler.                     *)

(* The raw event is marked PROCESSED after the business work; a failure to *)
(* mark it is only logged, and the job completes all the same.             *)
MarkProcessed(w) ==
  /\ pc[w] = "done"
  /\ \/ /\ evt' = [evt EXCEPT ![cur[w]] = IF @ = "PENDING" THEN "PROCESSED" ELSE @]
        /\ UNCHANGED faults
     \/ Inject("db") /\ UNCHANGED evt
  /\ job' = [job EXCEPT ![cur[w]] = "done"]
  /\ Goto(w, "idle")
  /\ cur' = [cur EXCEPT ![w] = NoEvent]
  /\ snap' = [snap EXCEPT ![w] = NoSnap]
  /\ UNCHANGED <<dataVars, charge, declined, shown, inflight, attempts, historyVars>>

(* A database call of the handler throws.                                  *)
Abort(w) ==
  /\ Inject("db")
  /\ pc[w] \notin {"idle", "send", "done"}
  /\ FailAttempt(w)
  /\ KeepEvents
  /\ UNCHANGED <<dataVars, historyVars>>

(* The worker process dies; the stalled job goes back to the queue.        *)
Crash(w) ==
  /\ Inject("crash")
  /\ pc[w] # "idle"
  /\ job' = [job EXCEPT ![cur[w]] = "wait"]
  /\ Goto(w, "idle")
  /\ cur' = [cur EXCEPT ![w] = NoEvent]
  /\ snap' = [snap EXCEPT ![w] = NoSnap]
  /\ KeepEvents
  /\ UNCHANGED <<dataVars, historyVars, attempts>>

Handle(w) ==
  \/ ClaimFailed(w) \/ HandleChargeFailed(w) \/ ClaimSuccess(w)
  \/ Settle(w) \/ StockRace(w) \/ HandleStockRace(w)
  \/ ClaimConfirmation(w) \/ SendReceipt(w) \/ ReplyLost(w) \/ SendFails(w)
  \/ ReleaseConfirmation(w) \/ PersistReceipt(w) \/ MarkProcessed(w)

ServiceNext ==
  \E w \in Workers :
    \/ \E e \in Events : TakeJob(w, e)
    \/ Handle(w) \/ Abort(w) \/ Crash(w)

=============================================================================
