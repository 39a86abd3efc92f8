---------------------------- MODULE InboundWebhook ----------------------------
(***************************************************************************)
(* The WhatsApp webhook: WebhookService.handleWebhook, one action for each *)
(* of its awaits, run by several requests at once, and the message queue.  *)
(*                                                                         *)
(* An envelope is a sequence of changes.  A change carries messages, or    *)
(* delivery statuses of replies, and is stored raw under an event key made *)
(* from its first message or its first status.  Meta posts an envelope     *)
(* until it is answered with 200.                                          *)
(***************************************************************************)
EXTENDS ChatData

CONSTANTS
  Envelopes,     \* the bodies Meta posts
  Carries,       \* the changes of each, in order
  Posts,         \* bound: requests served at the same time
  MaxTries,      \* QUEUE_DEFAULTS.attempts (5 in the code)
  Faults,        \* kinds of failure the environment may inject
  MaxFaults,     \* bound: failures injected in one behaviour
  NoEvent,       \* no row in events
  NoEnvelope     \* an idle request

Statuses == [of : Msgs, val : {"sent", "delivered", "read", "failed"}]

ASSUME InboundWebhookAssumption ==
  /\ Carries \in [Envelopes -> Seq([msgs : Seq(Msgs), statuses : Seq(Statuses)])]
  /\ \A e \in Envelopes : Carries[e] # <<>>
  /\ MaxTries \in Nat \ {0}
  /\ Faults \subseteq {"api", "again", "turn", "record", "crash", "evict", "pause"}
  /\ MaxFaults \in Nat
  /\ NoEnvelope \notin Envelopes

VARIABLES
  event,         \* events rows by key: the raw change and its status
  acked,         \* the envelope was answered with 200
  post,          \* the requests being served
  job,           \* BullMQ job state by message (the job id is its WhatsApp id)
  tries,         \* failed attempts of the job
  items,         \* history: work items created for the message
  lapses         \* failures injected so far

webhookVars == <<event, acked, post, job, tries, items, lapses>>

Changes == UNION {{Carries[e][i] : i \in DOMAIN Carries[e]} : e \in Envelopes}

(* deriveEventKey.  A status names the reply it is about, whatever its     *)
(* value, so all statuses of one reply share a key.                        *)
Key(c) ==
  IF c.msgs # <<>> THEN <<"msg", Head(c.msgs)>>
  ELSE IF c.statuses # <<>> THEN <<"status", Head(c.statuses).of>>
  ELSE <<"change", c>>

Keys == {Key(c) : c \in Changes}

IdlePost ==
  [pc |-> "idle", env |-> NoEnvelope, ci |-> 1, at |-> 1, conv |-> NoConv, late |-> FALSE]

PostSteps ==
  {"idle", "capture", "customer", "newCustomer", "conversation", "newConversation",
   "insert", "enqueue", "status", "mark"}

EventType == [raw : Changes, status : {"PENDING", "PROCESSED"}]
ASSUME NoEventAssumption == NoEvent \notin EventType

WebhookTypeOK ==
  /\ event \in [Keys -> EventType \cup {NoEvent}]
  /\ acked \in [Envelopes -> BOOLEAN]
  /\ post \in [Posts -> [pc : PostSteps, env : Envelopes \cup {NoEnvelope},
                         ci : Nat, at : Nat, conv : Convs \cup {NoConv}, late : BOOLEAN]]
  /\ job \in [Msgs -> {"none", "wait", "active", "done", "failed"}]
  /\ tries \in [Msgs -> Nat]
  /\ items \in [Msgs -> Nat]
  /\ lapses \in 0..MaxFaults

WebhookInit ==
  /\ event = [k \in Keys |-> NoEvent]
  /\ acked = [e \in Envelopes |-> FALSE]
  /\ post = [p \in Posts |-> IdlePost]
  /\ job = [m \in Msgs |-> "none"]
  /\ tries = [m \in Msgs |-> 0]
  /\ items = [m \in Msgs |-> 0]
  /\ lapses = 0

(* The environment injects a failure of kind k, within its budget.         *)
Lapse(k) == k \in Faults /\ lapses < MaxFaults /\ lapses' = lapses + 1

Change(q) == Carries[q.env][q.ci]
Message(q) == Change(q).msgs[q.at]
Status(q) == Change(q).statuses[q.at - Len(Change(q).msgs)]

(* The loops of handleWebhook: messages, then statuses, then the mark.     *)
Goto(q, step) == [q EXCEPT !.pc = step]
Item(q, i) ==
  LET n == Len(Change(q).msgs) IN
  [q EXCEPT !.at = i,
            !.pc = CASE i <= n -> "customer"
                     [] i > n /\ i <= n + Len(Change(q).statuses) -> "status"
                     [] OTHER -> "mark"]
NextItem(q) == Item(q, q.at + 1)

(* After the last change the request is answered with 200.                 *)
NextChange(p) ==
  LET q == post[p] IN
  IF q.ci < Len(Carries[q.env])
  THEN /\ post' = [post EXCEPT ![p] = [IdlePost EXCEPT !.pc = "capture", !.env = q.env,
                                                       !.ci = q.ci + 1]]
       /\ UNCHANGED acked
  ELSE /\ post' = [post EXCEPT ![p] = IdlePost]
       /\ acked' = [acked EXCEPT ![q.env] = TRUE]

-----------------------------------------------------------------------------
(* Meta posts an envelope: messages at any time, a status once the reply   *)
(* it is about was sent.  "again" posts one that was acknowledged.         *)
Deliverable(e) ==
  \A i \in DOMAIN Carries[e] :
    \A j \in DOMAIN Carries[e][i].statuses : sent[Carries[e][i].statuses[j].of] > 0

Receive(p, e) ==
  /\ post[p].pc = "idle"
  /\ Deliverable(e)
  /\ \/ ~acked[e] /\ UNCHANGED lapses
     \/ acked[e] /\ Lapse("again")
  /\ post' = [post EXCEPT ![p] = [IdlePost EXCEPT !.pc = "capture", !.env = e]]
  /\ UNCHANGED <<chatVars, event, acked, job, tries, items>>

CaptureRawEvent(p) ==
  LET c == Change(post[p])
      k == Key(c) IN
  /\ post[p].pc = "capture"
  /\ IF event[k] # NoEvent /\ event[k].status = "PROCESSED"
       THEN NextChange(p) /\ UNCHANGED event
       ELSE /\ post' = [post EXCEPT ![p] = Item(post[p], 1)]
            /\ event' = IF event[k] = NoEvent
                        THEN [event EXCEPT ![k] = [raw |-> c, status |-> "PENDING"]]
                        ELSE event
            /\ UNCHANGED acked
  /\ UNCHANGED <<chatVars, job, tries, items, lapses>>

FindCustomer(p) ==
  /\ post[p].pc = "customer"
  /\ post' = [post EXCEPT ![p] =
       Goto(@, IF customer[From[Message(@)]] THEN "conversation" ELSE "newCustomer")]
  /\ UNCHANGED <<chatVars, event, acked, job, tries, items, lapses>>

(* [businessId, waId] is unique: the loser of a race throws, which answers *)
(* 500 and leaves the event PENDING for the next delivery.                 *)
CreateCustomer(p) ==
  LET c == From[Message(post[p])] IN
  /\ post[p].pc = "newCustomer"
  /\ customer' = [customer EXCEPT ![c] = TRUE]
  /\ post' = [post EXCEPT ![p] = IF customer[c] THEN IdlePost ELSE Goto(@, "conversation")]
  /\ UNCHANGED <<owner, conv, cart, row, home, sent, outRow, tickets>>
  /\ UNCHANGED <<event, acked, job, tries, items, lapses>>

(* The most recently updated OPEN conversation; other writers touch        *)
(* updatedAt, so with several any of them may be it.                       *)
FindConversation(p) ==
  LET open == OpenOf(From[Message(post[p])]) IN
  /\ post[p].pc = "conversation"
  /\ \/ \E v \in open : post' = [post EXCEPT ![p] = [Goto(@, "insert") EXCEPT !.conv = v]]
     \/ open = {} /\ post' = [post EXCEPT ![p] = Goto(@, "newConversation")]
  /\ UNCHANGED <<chatVars, event, acked, job, tries, items, lapses>>

(* Rows are interchangeable: which free one is taken does not matter.      *)
CreateConversation(p) ==
  /\ post[p].pc = "newConversation"
  /\ \E v \in Convs : conv[v] = "none"
  /\ LET v == CHOOSE u \in Convs : conv[u] = "none" IN
     /\ conv' = [conv EXCEPT ![v] = "OPEN"]
     /\ owner' = [owner EXCEPT ![v] = From[Message(post[p])]]
     /\ post' = [post EXCEPT ![p] = [Goto(@, "insert") EXCEPT !.conv = v]]
  /\ UNCHANGED <<customer, cart, row, home, sent, outRow, tickets>>
  /\ UNCHANGED <<event, acked, job, tries, items, lapses>>

(* waMessageId is unique: the row is created once, by whichever request.   *)
InsertMessage(p) ==
  LET m == Message(post[p]) IN
  /\ post[p].pc = "insert"
  /\ row[m] = "none"
  /\ row' = [row EXCEPT ![m] = "RECEIVED"]
  /\ home' = [home EXCEPT ![m] = post[p].conv]
  /\ post' = [post EXCEPT ![p] = Goto(@, "enqueue")]
  /\ UNCHANGED <<customer, owner, conv, cart, sent, outRow, tickets>>
  /\ UNCHANGED <<event, acked, job, tries, items, lapses>>

(* A request that finds the row enqueues it all the same.                  *)
AfterDuplicate_Skips(q) == NextItem(q)   \* mutant: a known message is not enqueued
AfterDuplicate(q) == Goto(q, "enqueue")

FindMessage(p) ==
  /\ post[p].pc = "insert"
  /\ row[Message(post[p])] # "none"
  /\ post' = [post EXCEPT ![p] = AfterDuplicate(@)]
  /\ UNCHANGED <<chatVars, event, acked, job, tries, items, lapses>>

(* BullMQ ignores an add while a job with the id exists in any state.      *)
Enqueueable_Idle(m) == job[m] \in {"none", "done", "failed"}  \* mutant: finished jobs do not count
Enqueueable(m) == job[m] = "none"

EnqueueInboundMessage(p) ==
  LET m == Message(post[p]) IN
  /\ post[p].pc = "enqueue"
  /\ IF Enqueueable(m)
       THEN /\ job' = [job EXCEPT ![m] = "wait"]
            /\ tries' = [tries EXCEPT ![m] = 0]
            /\ items' = [items EXCEPT ![m] = @ + 1]
       ELSE UNCHANGED <<job, tries, items>>
  /\ post' = [post EXCEPT ![p] = NextItem(@)]
  /\ UNCHANGED <<chatVars, event, acked, lapses>>

StatusMap == [sent |-> "SENT", delivered |-> "DELIVERED", read |-> "READ", failed |-> "FAILED"]

(* A status of a reply whose row is not there yet leaves the event PENDING.*)
ApplyDeliveryStatus(p) ==
  LET s == Status(post[p])
      known == outRow[s.of] # "none" IN
  /\ post[p].pc = "status"
  /\ outRow' = IF known THEN [outRow EXCEPT ![s.of] = StatusMap[s.val]] ELSE outRow
  /\ post' = [post EXCEPT ![p] = [NextItem(@) EXCEPT !.late = post[p].late \/ ~known]]
  /\ UNCHANGED <<customer, owner, conv, cart, row, home, sent, tickets>>
  /\ UNCHANGED <<event, acked, job, tries, items, lapses>>

MarkEventProcessed(p) ==
  LET k == Key(Change(post[p])) IN
  /\ post[p].pc = "mark"
  /\ event' = IF post[p].late THEN event ELSE [event EXCEPT ![k].status = "PROCESSED"]
  /\ NextChange(p)
  /\ UNCHANGED <<chatVars, job, tries, items, lapses>>

(* A database or Redis call throws, or the process dies, at any step.      *)
RequestFails(p) ==
  /\ Lapse("api")
  /\ post[p].pc # "idle"
  /\ post' = [post EXCEPT ![p] = IdlePost]
  /\ UNCHANGED <<chatVars, event, acked, job, tries, items>>

(* removeOnComplete / removeOnFail drop finished jobs, freeing the job id. *)
DropJob(m) ==
  /\ Lapse("evict")
  /\ job[m] \in {"done", "failed"}
  /\ job' = [job EXCEPT ![m] = "none"]
  /\ UNCHANGED <<chatVars, event, acked, post, tries, items>>

Serve(p) ==
  \/ CaptureRawEvent(p)
  \/ FindCustomer(p) \/ CreateCustomer(p)
  \/ FindConversation(p) \/ CreateConversation(p)
  \/ InsertMessage(p) \/ FindMessage(p) \/ EnqueueInboundMessage(p)
  \/ ApplyDeliveryStatus(p) \/ MarkEventProcessed(p)

WebhookNext ==
  \/ \E p \in Posts : (\E e \in Envelopes : Receive(p, e)) \/ Serve(p) \/ RequestFails(p)
  \/ \E m \in Msgs : DropJob(m)

=============================================================================
