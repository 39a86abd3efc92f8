---------------------------- MODULE MessageSystem ----------------------------
(***************************************************************************)
(* The path of a WhatsApp message: Meta, the webhook and the queue         *)
(* (InboundWebhook) and the worker with its agent turns (InboundHandler),  *)
(* interleaved over the rows of ChatData.                                  *)
(***************************************************************************)
EXTENDS InboundHandler

vars == <<chatVars, webhookVars, handlerVars>>

Init == ChatInit /\ WebhookInit /\ HandlerInit

Next ==
  \/ WebhookNext /\ UNCHANGED handlerVars
  \/ HandlerNext

Spec == Init /\ [][Next]_vars

(* Meta posts an envelope until it gets a 200, a request being served and  *)
(* a running job go on, the model ends its turn (tool rounds are capped),  *)
(* and BullMQ hands out waiting jobs in order.  A post finds a free        *)
(* request only now and then, a job a free slot, hence strong fairness.    *)
Fairness ==
  /\ \A e \in Envelopes :
       SF_vars((\E p \in Posts : Receive(p, e) /\ ~acked[e]) /\ UNCHANGED handlerVars)
  /\ \A p \in Posts : WF_vars(Serve(p) /\ UNCHANGED handlerVars)
  /\ \A m \in Msgs : SF_vars(\E s \in Slots : TakeJob(s, m))
  /\ \A s \in Slots : WF_vars(Proceed(s))

FairSpec == Spec /\ Fairness

-----------------------------------------------------------------------------
TypeOK == ChatTypeOK /\ WebhookTypeOK /\ HandlerTypeOK

IsProcessed(c) == event[Key(c)] # NoEvent /\ event[Key(c)].status = "PROCESSED"

(* Once a raw event is PROCESSED, which makes every later delivery of it a *)
(* no-op, each of its messages is stored and was put to work, whatever     *)
(* requests died on the way and however deliveries overlapped.             *)
ProcessedIsQueued ==
  \A c \in Changes : \A i \in DOMAIN c.msgs :
    IsProcessed(c) /\ event[Key(c)].raw = c
      => row[c.msgs[i]] # "none" /\ items[c.msgs[i]] > 0

(* A message delivered twice is answered once, while every failure comes   *)
(* before the reply is sent and finished jobs keep their id.               *)
AnsweredOnce == \A m \in Msgs : sent[m] <= 1

(* A webhook delivered twice never creates two work items.                 *)
OneWorkItem == \A m \in Msgs : items[m] <= 1

(* A conversation handed over to a human is in the escalation queue.       *)
HandedOverIsQueued == \A v \in Convs : conv[v] = "ESCALATED" => tickets[v] > 0

(* At most one OPEN escalation per conversation, across retries.           *)
OneOpenEscalation == \A v \in Convs : tickets[v] <= 1

(* The persisted cart is what the turns' edits give one after the other.   *)
CartIsSerial == \A v \in Convs : cart[v] = serial[v]

(* A customer has one OPEN conversation.                                   *)
OneOpenConversation == \A c \in Customers : Cardinality(OpenOf(c)) <= 1

(* A change that was answered with 200 is in the raw store.                *)
EveryChangeStored ==
  \A e \in Envelopes : acked[e] =>
    \A i \in DOMAIN Carries[e] :
      event[Key(Carries[e][i])] # NoEvent /\ event[Key(Carries[e][i])].raw = Carries[e][i]

(* A message Meta posted is worked through, or its job used every attempt. *)
MessageHandled ==
  \A e \in Envelopes : \A i \in DOMAIN Carries[e] : \A j \in DOMAIN Carries[e][i].msgs :
    <>(LET m == Carries[e][i].msgs[j] IN row[m] = "PROCESSED" \/ job[m] = "failed")

(* A status event that was left PENDING because its reply was not recorded *)
(* yet is applied in the end.                                              *)
LateStatusApplied ==
  \A c \in Changes : c.msgs = <<>> /\ c.statuses # <<>> =>
    (event[Key(c)] # NoEvent /\ outRow[Head(c.statuses).of] # "none"
       ~> IsProcessed(c))

=============================================================================
