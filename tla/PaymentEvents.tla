--------------------------- MODULE PaymentEvents ---------------------------
(***************************************************************************)
(* Paystack, the webhook endpoint and the payment-events queue.            *)
(*                                                                         *)
(* A customer who was shown a checkout link pays it, in full or with an    *)
(* amount that differs from the payment row, or has attempts declined.     *)
(* Paystack posts each event until it is acknowledged and may post it      *)
(* again afterwards, in any order.  The endpoint stores the raw event      *)
(* under its unique key and enqueues a job whose id is that key; a crash   *)
(* between the two leaves the event stored and unacknowledged.             *)
(***************************************************************************)
EXTENDS ShopData

CONSTANTS
  Foreign,       \* references charged at Paystack that the shop never created
  Events,        \* the charge events considered: records [kind, ref]
  MaxInflight,   \* bound: concurrent deliveries of one event
  MaxAttempts,   \* QUEUE_DEFAULTS.attempts (5 in the code)
  Faults,        \* kinds of failure the environment may inject
  MaxFaults      \* bound: failures injected in one behaviour

ASSUME PaymentEventsAssumption ==
  /\ Foreign \subseteq Refs
  /\ Events \subseteq [kind : {"success", "failed"}, ref : Refs]
  /\ MaxInflight \in Nat \ {0}
  /\ MaxAttempts \in Nat \ {0}
  /\ Faults \subseteq {"api", "crash", "db", "reply", "agent"}
  /\ MaxFaults \in Nat

VARIABLES
  charge,        \* Paystack's view of a reference: unpaid, paid, wrongAmount
  declined,      \* a charge attempt on the reference was declined
  shown,         \* references whose checkout link reached the customer
  evt,           \* incoming_events.status by event, "none" before capture
  inflight,      \* deliveries captured and not yet enqueued
  job,           \* BullMQ job state by event (the job id is the event key)
  attempts,      \* failed attempts of the job
  faults         \* failures injected so far

eventVars == <<charge, declined, shown, evt, inflight, job, attempts, faults>>

EventsTypeOK ==
  /\ charge \in [Refs -> {"unpaid", "paid", "wrongAmount"}]
  /\ declined \in [Refs -> BOOLEAN]
  /\ shown \subseteq Refs
  /\ evt \in [Events -> {"none", "PENDING", "PROCESSED"}]
  /\ inflight \in [Events -> 0..MaxInflight]
  /\ job \in [Events -> {"none", "wait", "active", "done", "failed"}]
  /\ attempts \in [Events -> Nat]
  /\ faults \in 0..MaxFaults

EventsInit ==
  /\ charge = [r \in Refs |-> "unpaid"]
  /\ declined = [r \in Refs |-> FALSE]
  /\ shown = {}
  /\ evt = [e \in Events |-> "none"]
  /\ inflight = [e \in Events |-> 0]
  /\ job = [e \in Events |-> "none"]
  /\ attempts = [e \in Events |-> 0]
  /\ faults = 0

(* The environment injects a failure of kind k, within its budget.         *)
Inject(k) == k \in Faults /\ faults < MaxFaults /\ faults' = faults + 1

-----------------------------------------------------------------------------
(* Paystack (external).                                                    *)

Chargeable(r) == (r \in shown \/ r \in Foreign) /\ charge[r] = "unpaid"

Pay(r) ==
  /\ Chargeable(r)
  /\ \E c \in {"paid", "wrongAmount"} : charge' = [charge EXCEPT ![r] = c]
  /\ UNCHANGED <<declined, shown, evt, inflight, job, attempts, faults>>

Decline(r) ==
  /\ Chargeable(r)
  /\ [kind |-> "failed", ref |-> r] \in Events
  /\ declined' = [declined EXCEPT ![r] = TRUE]
  /\ UNCHANGED <<charge, shown, evt, inflight, job, attempts, faults>>

Occurred(e) ==
  IF e.kind = "success" THEN charge[e.ref] # "unpaid" ELSE declined[e.ref]

-----------------------------------------------------------------------------
(* PaystackWebhookService.handleWebhook, one delivery of event e.          *)

(* An event stored before is enqueued again unless it is PROCESSED.        *)
StillOpen_NewOnly(e) == evt[e] = "none"   \* mutant: any stored event is skipped
StillOpen(e) == evt[e] # "PROCESSED"

CaptureRawEvent(e) ==
  /\ Occurred(e)
  /\ StillOpen(e)
  /\ inflight[e] < MaxInflight
  /\ evt' = [evt EXCEPT ![e] = "PENDING"]
  /\ inflight' = [inflight EXCEPT ![e] = @ + 1]
  /\ UNCHANGED <<charge, declined, shown, job, attempts, faults>>

(* queue.add ignores a job whose id exists in whatever state.              *)
EnqueuePaymentEvent(e) ==
  /\ inflight[e] > 0
  /\ inflight' = [inflight EXCEPT ![e] = @ - 1]
  /\ IF job[e] = "none"
       THEN /\ job' = [job EXCEPT ![e] = "wait"]
            /\ attempts' = [attempts EXCEPT ![e] = 0]
       ELSE UNCHANGED <<job, attempts>>
  /\ UNCHANGED <<charge, declined, shown, evt, faults>>

(* The endpoint dies, or Redis refuses the add, between the two steps.     *)
ApiFails(e) ==
  /\ Inject("api")
  /\ inflight[e] > 0
  /\ inflight' = [inflight EXCEPT ![e] = @ - 1]
  /\ UNCHANGED <<charge, declined, shown, evt, job, attempts>>

(* removeOnComplete / removeOnFail drop finished jobs, freeing the job id. *)
Evict(e) ==
  /\ job[e] \in {"done", "failed"}
  /\ job' = [job EXCEPT ![e] = "none"]
  /\ UNCHANGED <<charge, declined, shown, evt, inflight, attempts, faults>>

EventsNext ==
  \/ \E r \in Refs : Pay(r) \/ Decline(r)
  \/ \E e \in Events :
       CaptureRawEvent(e) \/ EnqueuePaymentEvent(e) \/ ApiFails(e) \/ Evict(e)

=============================================================================
