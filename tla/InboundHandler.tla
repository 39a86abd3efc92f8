---------------------------- MODULE InboundHandler ----------------------------
(***************************************************************************)
(* The worker's message jobs: handleInboundMessage with the agent turn it  *)
(* runs.  A slot is one of the jobs that are processed at the same time    *)
(* (concurrency 5 in a process, and as many processes as are deployed).    *)
(*                                                                         *)
(* What the language model says is free: in a turn it may call tools in    *)
(* any order, escalate, reply or stay silent.  The cart tools work on a    *)
(* copy of the cart read at the start of the turn, which is written back   *)
(* at its end.                                                             *)
(***************************************************************************)
EXTENDS InboundWebhook

CONSTANTS
  Slots,         \* jobs processed at the same time
  NoMsg          \* a slot without a job

ASSUME InboundHandlerAssumption == NoMsg \notin Msgs

VARIABLES
  slot,          \* the running jobs
  paused,        \* the kill switch is set
  serial         \* history: the carts if the turns' edits ran one by one

handlerVars == <<slot, paused, serial>>

IdleSlot ==
  [pc |-> "idle", msg |-> NoMsg, cart |-> 0, plus |-> 0, cleared |-> FALSE,
   escalated |-> FALSE, nth |-> 0]

SlotSteps ==
  {"idle", "mark", "switch", "canned", "cannedRow", "load", "turn", "persist", "ticket",
   "newTicket", "reply", "handOver", "send", "record", "finish", "fail"}

HandlerTypeOK ==
  /\ slot \in [Slots -> [pc : SlotSteps, msg : Msgs \cup {NoMsg}, cart : 0..Available,
                         plus : 0..Available, cleared : BOOLEAN, escalated : BOOLEAN,
                         nth : Nat]]
  /\ paused \in BOOLEAN
  /\ serial \in [Convs -> Nat]

HandlerInit ==
  /\ slot = [s \in Slots |-> IdleSlot]
  /\ paused = FALSE
  /\ serial = [v \in Convs |-> 0]

Conv(s) == home[slot[s].msg]
Dirty_AddsOnly(q) == q.plus > 0     \* mutant: create_order does not set cartDirty
Dirty(q) == q.plus > 0 \/ q.cleared

At(s, step) == slot[s].pc = step
Go(s, step) == slot' = [slot EXCEPT ![s].pc = step]

-----------------------------------------------------------------------------
TakeJob(s, m) ==
  /\ At(s, "idle")
  /\ job[m] = "wait"
  /\ job' = [job EXCEPT ![m] = "active"]
  /\ slot' = [slot EXCEPT ![s] = [IdleSlot EXCEPT !.pc = "mark", !.msg = m]]
  /\ UNCHANGED <<chatVars, event, acked, post, tries, items, lapses, paused, serial>>

MarkProcessing(s) ==
  /\ At(s, "mark")
  /\ row' = [row EXCEPT ![slot[s].msg] = "PROCESSING"]
  /\ Go(s, "switch")
  /\ UNCHANGED <<customer, owner, conv, cart, home, sent, outRow, tickets>>
  /\ UNCHANGED <<webhookVars, paused, serial>>

(* While paused every message gets the same short reply; media without a   *)
(* text gets none, a voice note above the cap a request for a shorter one. *)
CheckKillSwitch(s) ==
  /\ At(s, "switch")
  /\ Go(s, IF paused \/ Kind[slot[s].msg] = "long" THEN "canned"
           ELSE IF Kind[slot[s].msg] = "media" THEN "finish" ELSE "load")
  /\ UNCHANGED <<chatVars, webhookVars, paused, serial>>

(* Agent.run loads the cart with the conversation.                         *)
LoadCart(s) ==
  /\ At(s, "load")
  /\ slot' = [slot EXCEPT ![s] = [@ EXCEPT !.pc = "turn", !.cart = cart[Conv(s)]]]
  /\ UNCHANGED <<chatVars, webhookVars, paused, serial>>

(* What the cart already holds counts towards the units in stock.          *)
Fits_NewUnits(q) == q.plus < Available   \* mutant: only the units being added count
Fits(q) == q.cart < Available

AddToCart(s) ==
  /\ At(s, "turn")
  /\ Fits(slot[s])
  /\ LET q == slot[s] IN
     slot' = [slot EXCEPT ![s] = [q EXCEPT !.cart = @ + 1, !.plus = @ + 1]]
  /\ UNCHANGED <<chatVars, webhookVars, paused, serial>>

(* An order of the cart, or of items the model names, empties the cart.    *)
CreateOrder(s) ==
  /\ At(s, "turn")
  /\ slot' = [slot EXCEPT ![s] = [@ EXCEPT !.cart = 0, !.plus = 0, !.cleared = TRUE]]
  /\ UNCHANGED <<chatVars, webhookVars, paused, serial>>

(* The escalate_to_human tool, or the guard against a repeated reply.      *)
Escalate(s) ==
  /\ At(s, "turn")
  /\ slot' = [slot EXCEPT ![s].escalated = TRUE]
  /\ UNCHANGED <<chatVars, webhookVars, paused, serial>>

AfterCart_NoTicket(q) == "reply"   \* mutant: the escalation is not recorded
AfterCart(q) == IF q.escalated THEN "ticket" ELSE "reply"

(* The turn's edits take effect: on the stored cart, if cartDirty, and on  *)
(* the cart that serial turns would have left.                             *)
Edited(q, n) == IF q.cleared THEN q.plus ELSE n + q.plus

EndTurn(s) ==
  /\ At(s, "turn")
  /\ Go(s, IF Dirty(slot[s]) THEN "persist" ELSE AfterCart(slot[s]))
  /\ serial' = IF Dirty(slot[s]) THEN serial
               ELSE [serial EXCEPT ![Conv(s)] = Edited(slot[s], @)]
  /\ UNCHANGED <<chatVars, webhookVars, paused>>

PersistCart(s) ==
  /\ At(s, "persist")
  /\ cart' = [cart EXCEPT ![Conv(s)] = slot[s].cart]
  /\ serial' = [serial EXCEPT ![Conv(s)] = Edited(slot[s], @)]
  /\ Go(s, AfterCart(slot[s]))
  /\ UNCHANGED <<customer, owner, conv, row, home, sent, outRow, tickets>>
  /\ UNCHANGED <<webhookVars, paused>>

(* recordEscalation looks for an OPEN escalation before it creates one.    *)
AfterTicketLookup_Always(v) == "newTicket"   \* mutant: a row for every escalation
AfterTicketLookup(v) == IF tickets[v] > 0 THEN "reply" ELSE "newTicket"

FindTicket(s) ==
  /\ At(s, "ticket")
  /\ Go(s, AfterTicketLookup(Conv(s)))
  /\ UNCHANGED <<chatVars, webhookVars, paused, serial>>

CreateTicket(s) ==
  /\ At(s, "newTicket")
  /\ tickets' = [tickets EXCEPT ![Conv(s)] = @ + 1]
  /\ Go(s, "reply")
  /\ UNCHANGED <<customer, owner, conv, cart, row, home, sent, outRow>>
  /\ UNCHANGED <<webhookVars, paused, serial>>

(* An empty reply ends the job before the hand-over and the send.          *)
UseReply(s) ==
  /\ At(s, "reply")
  /\ \/ Go(s, IF slot[s].escalated THEN "handOver" ELSE "send")
     \/ Go(s, "finish")
  /\ UNCHANGED <<chatVars, webhookVars, paused, serial>>

HandOver(s) ==
  /\ At(s, "handOver")
  /\ conv' = [conv EXCEPT ![Conv(s)] = "ESCALATED"]
  /\ Go(s, "send")
  /\ UNCHANGED <<customer, owner, cart, row, home, sent, outRow, tickets>>
  /\ UNCHANGED <<webhookVars, paused, serial>>

SendReply(s) ==
  /\ slot[s].pc \in {"send", "canned"}
  /\ sent' = [sent EXCEPT ![slot[s].msg] = @ + 1]
  /\ slot' = [slot EXCEPT ![s] = [@ EXCEPT !.pc = IF At(s, "send") THEN "record" ELSE "cannedRow",
                                           !.nth = sent[slot[s].msg] + 1]]
  /\ UNCHANGED <<customer, owner, conv, cart, row, home, outRow, tickets>>
  /\ UNCHANGED <<webhookVars, paused, serial>>

(* The outbound row carries the id WhatsApp gave the reply; the row of a   *)
(* canned reply carries none, so no status ever finds it.                  *)
RecordReply(s) ==
  /\ slot[s].pc \in {"record", "cannedRow"}
  /\ outRow' = IF At(s, "record") /\ slot[s].nth = 1
               THEN [outRow EXCEPT ![slot[s].msg] = "SENT"] ELSE outRow
  /\ Go(s, "finish")
  /\ UNCHANGED <<customer, owner, conv, cart, row, home, sent, tickets>>
  /\ UNCHANGED <<webhookVars, paused, serial>>

MarkProcessed(s) ==
  /\ At(s, "finish")
  /\ row' = [row EXCEPT ![slot[s].msg] = "PROCESSED"]
  /\ job' = [job EXCEPT ![slot[s].msg] = "done"]
  /\ slot' = [slot EXCEPT ![s] = IdleSlot]
  /\ UNCHANGED <<customer, owner, conv, cart, home, sent, outRow, tickets>>
  /\ UNCHANGED <<event, acked, post, tries, items, lapses, paused, serial>>

-----------------------------------------------------------------------------
(* A database, model or WhatsApp call gives up before the reply was sent   *)
(* ("turn") or after ("record").                                           *)
StepFails(s) ==
  /\ slot[s].pc \notin {"idle", "fail"}
  /\ IF slot[s].pc \in {"record", "cannedRow", "finish"} THEN Lapse("record") ELSE Lapse("turn")
  /\ Go(s, "fail")
  /\ UNCHANGED <<chatVars, event, acked, post, job, tries, items, paused, serial>>

(* The row is marked FAILED and the error rethrown; BullMQ tries again.    *)
Retry(s, m) ==
  /\ job' = [job EXCEPT ![m] = IF tries[m] + 1 < MaxTries THEN "wait" ELSE "failed"]
  /\ tries' = [tries EXCEPT ![m] = @ + 1]
  /\ slot' = [slot EXCEPT ![s] = IdleSlot]

MarkFailed(s) ==
  /\ At(s, "fail")
  /\ row' = [row EXCEPT ![slot[s].msg] = "FAILED"]
  /\ Retry(s, slot[s].msg)
  /\ UNCHANGED <<customer, owner, conv, cart, home, sent, outRow, tickets>>
  /\ UNCHANGED <<event, acked, post, items, lapses, paused, serial>>

(* The worker dies; BullMQ finds the job stalled and hands it out again.   *)
WorkerDies(s) ==
  /\ Lapse("crash")
  /\ ~At(s, "idle")
  /\ job' = [job EXCEPT ![slot[s].msg] = "wait"]
  /\ slot' = [slot EXCEPT ![s] = IdleSlot]
  /\ UNCHANGED <<chatVars, event, acked, post, tries, items, paused, serial>>

(* POST and DELETE of the kill switch.                                     *)
Pause ==
  /\ ~paused
  /\ Lapse("pause")
  /\ paused' = TRUE
  /\ UNCHANGED <<chatVars, event, acked, post, job, tries, items, slot, serial>>

Resume ==
  /\ paused
  /\ paused' = FALSE
  /\ UNCHANGED <<chatVars, webhookVars, slot, serial>>

(* What a running job does next without failing, tools aside.              *)
Proceed(s) ==
  \/ MarkProcessing(s) \/ CheckKillSwitch(s)
  \/ LoadCart(s) \/ EndTurn(s) \/ PersistCart(s)
  \/ FindTicket(s) \/ CreateTicket(s) \/ UseReply(s) \/ HandOver(s)
  \/ SendReply(s) \/ RecordReply(s) \/ MarkProcessed(s) \/ MarkFailed(s)

HandlerNext ==
  \/ \E s \in Slots :
       \/ \E m \in Msgs : TakeJob(s, m)
       \/ AddToCart(s) \/ CreateOrder(s) \/ Escalate(s)
       \/ Proceed(s) \/ StepFails(s) \/ WorkerDies(s)
  \/ Pause \/ Resume

=============================================================================
