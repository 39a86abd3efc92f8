---------------------------- MODULE MessageProofs ----------------------------
(***************************************************************************)
(* Theorems about the path of a message for every set of customers,        *)
(* messages, envelopes, requests and slots, every bound and every failure  *)
(* budget.                                                                 *)
(***************************************************************************)
EXTENDS MessageSystem, FiniteSetTheorems, TLAPS

(* The parts of IInv that types need.  A request works on an item of a     *)
(* change of its envelope, whose event it stored.                          *)
OnMessage == {"customer", "newCustomer", "conversation", "newConversation", "insert", "enqueue"}
Waiting == {"idle", "capture"}

PostType ==
  [pc : PostSteps, env : Envelopes \cup {NoEnvelope},
   ci : Nat, at : Nat, conv : Convs \cup {NoConv}, late : BOOLEAN]

Well(q) ==
  /\ q \in PostType
  /\ q.pc # "idle" => q.env \in Envelopes /\ q.ci \in DOMAIN Carries[q.env]
  /\ q.pc \in OnMessage => q.at \in DOMAIN Change(q).msgs
  /\ q.pc = "insert" => q.conv \in Convs
  /\ q.pc = "status" => q.at - Len(Change(q).msgs) \in DOMAIN Change(q).statuses
  /\ q.pc = "mark" => q.at > Len(Change(q).msgs)

Stored(q) == q.pc \notin Waiting => event[Key(Change(q))] # NoEvent

SlotType ==
  [pc : SlotSteps, msg : Msgs \cup {NoMsg}, cart : 0..Available,
   plus : 0..Available, cleared : BOOLEAN, escalated : BOOLEAN, nth : Nat]

SoundSlot(q) ==
  /\ q \in SlotType
  /\ q.pc # "idle" => q.msg \in Msgs
  /\ q.plus <= q.cart
  /\ q.pc \in {"mark", "switch", "load"} => q.plus = 0 /\ ~q.cleared

Control ==
  /\ \A p \in Posts : Well(post[p]) /\ Stored(post[p])
  /\ \A s \in Slots : SoundSlot(slot[s])

TypeInv == TypeOK /\ Control

(* What a request has passed is stored and has a work item; so has what a  *)
(* slot works on.                                                          *)
Passed(q) ==
  q.pc \notin Waiting =>
    /\ \A i \in DOMAIN Change(q).msgs :
         i < q.at => row[Change(q).msgs[i]] # "none" /\ items[Change(q).msgs[i]] > 0
    /\ q.pc = "enqueue" => row[Message(q)] # "none"

ItemInv ==
  /\ \A m \in Msgs : /\ job[m] # "none" => items[m] > 0
                     /\ items[m] > 0 => row[m] # "none"
                     /\ row[m] # "none" => home[m] \in Convs
  /\ \A s \in Slots : slot[s].pc # "idle" => items[slot[s].msg] > 0
  /\ \A p \in Posts : Passed(post[p])

(* Whoever is past the record of an escalation finds it open.              *)
TicketInv ==
  /\ HandedOverIsQueued
  /\ \A s \in Slots :
       /\ slot[s].pc = "handOver" => slot[s].escalated
       /\ slot[s].pc \in {"reply", "handOver"} /\ slot[s].escalated => tickets[Conv(s)] > 0

(* Alone, a slot that is about to record one knows there is none, and the  *)
(* cart it works on is the stored one with its edits.                      *)
AloneInv ==
  /\ OneOpenEscalation
  /\ CartIsSerial
  /\ \A s \in Slots :
       /\ slot[s].pc = "newTicket" => tickets[Conv(s)] = 0
       /\ slot[s].pc \in {"turn", "persist"}
            => slot[s].cart = Edited(slot[s], cart[Conv(s)])

(* A job that waits was not answered, nor one whose slot is before its     *)
(* send or gave up before it.                                              *)
Unsent == SlotSteps \ {"idle", "record", "cannedRow", "finish"}
SendInv ==
  /\ AnsweredOnce
  /\ \A m \in Msgs : job[m] \in {"none", "wait"} => sent[m] = 0
  /\ \A s \in Slots :
       /\ slot[s].pc # "idle" => job[slot[s].msg] = "active"
       /\ slot[s].pc \in Unsent => sent[slot[s].msg] = 0
  /\ \A s, t \in Slots :
       slot[s].pc # "idle" /\ slot[t].pc # "idle" /\ slot[s].msg = slot[t].msg => s = t

-----------------------------------------------------------------------------
LEMMA Constants ==
  /\ From \in [Msgs -> Customers] /\ NoConv \notin Convs /\ Nobody \notin Customers
  /\ Available \in Nat /\ MaxFaults \in Nat
  /\ NoEnvelope \notin Envelopes /\ NoMsg \notin Msgs
  /\ Carries \in [Envelopes -> Seq([msgs : Seq(Msgs), statuses : Seq(Statuses)])]
  /\ \A e \in Envelopes : Carries[e] # <<>>
BY ChatDataAssumption, InboundWebhookAssumption, InboundHandlerAssumption
   DEF ChatDataAssumption, InboundWebhookAssumption, InboundHandlerAssumption

(* A change that is being worked on.                                       *)
LEMMA ChangeType ==
  ASSUME NEW q, q.env \in Envelopes, q.ci \in DOMAIN Carries[q.env]
  PROVE  /\ Change(q) \in Changes
         /\ Key(Change(q)) \in Keys
         /\ Change(q).msgs \in Seq(Msgs) /\ Change(q).statuses \in Seq(Statuses)
         /\ Len(Change(q).msgs) \in Nat /\ Len(Change(q).statuses) \in Nat
<1> DEFINE T == [msgs : Seq(Msgs), statuses : Seq(Statuses)]
<1>1. Carries[q.env] \in Seq(T)
  BY Constants
<1>2. Change(q) \in T
  <2> HIDE DEF T
  <2> QED BY <1>1 DEF Change
<1>3. Change(q) \in Changes
  BY DEF Change, Changes
<1> QED BY <1>2, <1>3 DEF Keys

LEMMA MessageType ==
  ASSUME NEW q, Well(q), q.pc \in OnMessage
  PROVE  /\ Message(q) \in Msgs /\ From[Message(q)] \in Customers
         /\ q.at \in Nat \ {0} /\ q.at <= Len(Change(q).msgs)
<1>1. q.pc # "idle"
  BY DEF OnMessage
<1>2. Change(q).msgs \in Seq(Msgs)
  BY <1>1, ChangeType DEF Well
<1>3. q.at \in DOMAIN Change(q).msgs
  BY DEF Well
<1>4. q.at \in Nat \ {0} /\ q.at <= Len(Change(q).msgs) /\ Message(q) \in Msgs
  BY <1>2, <1>3, SMT DEF Message
<1> QED BY <1>4, Constants

LEMMA StatusType ==
  ASSUME NEW q, Well(q), q.pc = "status"
  PROVE  /\ Status(q) \in Statuses
         /\ q.at \in Nat /\ q.at > Len(Change(q).msgs)
         /\ Len(Change(q).msgs) \in Nat
<1>1. q.env \in Envelopes /\ q.ci \in DOMAIN Carries[q.env]
  BY DEF Well
<1>2. Change(q).msgs \in Seq(Msgs) /\ Change(q).statuses \in Seq(Statuses)
  BY <1>1, ChangeType
<1>3. q.at - Len(Change(q).msgs) \in DOMAIN Change(q).statuses
  BY DEF Well
<1>4. q.at \in Nat
  BY DEF Well, PostType
<1> HIDE DEF Well
<1>5. Status(q) \in Statuses
  BY <1>2, <1>3 DEF Status
<1> QED BY <1>2, <1>3, <1>4, <1>5, SMT

-----------------------------------------------------------------------------
LEMMA IdleWell == Well(IdlePost)
BY SMT DEF Well, IdlePost, PostType, PostSteps, OnMessage

LEMMA PostUpdate ==
  ASSUME NEW q \in PostType, NEW step \in PostSteps
  PROVE  /\ [q EXCEPT !.pc = step] \in PostType
         /\ \A v \in Convs : [q EXCEPT !.conv = v] \in PostType
         /\ \A b \in BOOLEAN : [q EXCEPT !.late = b] \in PostType
         /\ \A i \in Nat : [q EXCEPT !.at = i] \in PostType
BY DEF PostType

(* Beginning a change, and going on to an item of it.                      *)
LEMMA StartWell ==
  ASSUME NEW e \in Envelopes, NEW i \in DOMAIN Carries[e]
  PROVE  Well([IdlePost EXCEPT !.pc = "capture", !.env = e, !.ci = i])
<1>1. i \in Nat
  BY Constants, SMT
<1> DEFINE q == [IdlePost EXCEPT !.pc = "capture", !.env = e, !.ci = i]
<1>2. q.pc = "capture" /\ q.env = e /\ q.ci = i
  BY SMT DEF IdlePost
<1>3. q \in PostType
  <2>1. q = [[[IdlePost EXCEPT !.pc = "capture"] EXCEPT !.env = e] EXCEPT !.ci = i]
    OBVIOUS
  <2>2. [IdlePost EXCEPT !.pc = "capture"] \in PostType
    BY IdleWell, PostUpdate DEF Well, PostSteps
  <2>3. [[IdlePost EXCEPT !.pc = "capture"] EXCEPT !.env = e] \in PostType
    BY <2>2 DEF PostType
  <2> QED BY <2>1, <2>3, <1>1 DEF PostType
<1> HIDE DEF q
<1>4. Well(q)
  BY <1>2, <1>3 DEF Well, OnMessage
<1> QED BY <1>4 DEF q

LEMMA ItemFields ==
  ASSUME NEW q \in PostType, NEW i
  PROVE  /\ Item(q, i).at = i /\ Item(q, i).env = q.env /\ Item(q, i).ci = q.ci
         /\ Item(q, i).conv = q.conv /\ Item(q, i).late = q.late
         /\ Change(Item(q, i)) = Change(q)
         /\ Item(q, i).pc = LET n == Len(Change(q).msgs) IN
              CASE i <= n -> "customer"
                [] i > n /\ i <= n + Len(Change(q).statuses) -> "status"
                [] OTHER -> "mark"
BY SMT DEF Item, Change, PostType

LEMMA ItemWell ==
  ASSUME NEW q, Well(q), q.pc # "idle", NEW i \in Nat \ {0}
  PROVE  Well(Item(q, i)) /\ Item(q, i).pc \in {"customer", "status", "mark"}
<1> DEFINE r == Item(q, i)
           n == Len(Change(q).msgs)
           k == Len(Change(q).statuses)
<1>1. q \in PostType /\ q.env \in Envelopes /\ q.ci \in DOMAIN Carries[q.env]
  BY DEF Well
<1>2. /\ Change(q).msgs \in Seq(Msgs) /\ Change(q).statuses \in Seq(Statuses)
      /\ n \in Nat /\ k \in Nat
  BY <1>1, ChangeType
<1>3. /\ r.at = i /\ r.env = q.env /\ r.ci = q.ci /\ Change(r) = Change(q)
      /\ r.pc = CASE i <= n -> "customer" [] i > n /\ i <= n + k -> "status" [] OTHER -> "mark"
  BY ZenonT(30), <1>1, ItemFields
<1>4. /\ r.pc \in {"customer", "status", "mark"}
      /\ r.pc = "customer" => i <= n
      /\ r.pc = "status" => i > n /\ i <= n + k
      /\ r.pc = "mark" => i > n
  <2> HIDE DEF r, n, k
  <2> QED BY <1>2, <1>3, SMT
<1>5. r \in PostType
  <2>1. r = [q EXCEPT !.at = i, !.pc = r.pc]
    BY <1>1, <1>3 DEF Item, PostType
  <2> HIDE DEF r
  <2>2. r.pc \in PostSteps
    BY <1>4 DEF PostSteps
  <2> QED BY <1>1, <2>1, <2>2 DEF PostType
<1>6. /\ i <= n => i \in DOMAIN Change(q).msgs
      /\ i > n /\ i <= n + k => i - n \in DOMAIN Change(q).statuses
  <2>1. DOMAIN Change(q).msgs = 1..n /\ DOMAIN Change(q).statuses = 1..k
    BY <1>2
  <2> HIDE DEF n, k
  <2> QED BY <1>2, <2>1, SMT
<1> HIDE DEF r
<1>7. Well(r)
  BY <1>1, <1>3, <1>4, <1>5, <1>6 DEF Well, OnMessage
<1> QED BY <1>4, <1>7 DEF r

(* Two records that work on the same change of the same envelope.          *)
SamePlace(r, q) == r.env = q.env /\ r.ci = q.ci /\ Change(r) = Change(q)

LEMMA GotoWell ==
  ASSUME NEW q, Well(q), q.pc \in OnMessage, NEW step \in OnMessage \ {"insert"}
  PROVE  LET r == Goto(q, step)
         IN /\ Well(r) /\ SamePlace(r, q)
            /\ r.pc = step /\ r.at = q.at /\ r.late = q.late
<1>1. q \in PostType /\ q.pc # "idle"
  BY DEF Well, OnMessage
<1> DEFINE r == Goto(q, step)
<1>2. /\ r.pc = step /\ r.at = q.at /\ r.env = q.env /\ r.ci = q.ci /\ r.conv = q.conv
      /\ r.late = q.late
  BY <1>1 DEF Goto, PostType
<1>3. r \in PostType
  BY <1>1 DEF Goto, PostType, PostSteps, OnMessage
<1>4. Change(r) = Change(q)
  BY <1>2 DEF Change
<1> HIDE DEF r
<1>5. Well(r)
  BY <1>1, <1>2, <1>3, <1>4 DEF Well, OnMessage
<1> QED BY <1>2, <1>4, <1>5 DEF r, SamePlace

LEMMA InsertWell ==
  ASSUME NEW q, Well(q), q.pc \in OnMessage, NEW v \in Convs
  PROVE  LET r == [Goto(q, "insert") EXCEPT !.conv = v]
         IN Well(r) /\ SamePlace(r, q) /\ r.pc = "insert" /\ r.at = q.at /\ r.conv = v
<1>1. q \in PostType /\ q.pc # "idle"
  BY DEF Well, OnMessage
<1> DEFINE r == [Goto(q, "insert") EXCEPT !.conv = v]
<1>2. r.pc = "insert" /\ r.at = q.at /\ r.env = q.env /\ r.ci = q.ci /\ r.conv = v
  BY <1>1, SMT DEF Goto, PostType
<1>3. r \in PostType
  <2>1. Goto(q, "insert") \in PostType
    BY <1>1, PostUpdate DEF Goto, PostSteps
  <2> QED BY <2>1, PostUpdate DEF PostSteps
<1>4. Change(r) = Change(q)
  BY <1>2 DEF Change
<1> HIDE DEF r
<1>5. Well(r)
  BY <1>1, <1>2, <1>3, <1>4 DEF Well, OnMessage
<1> QED BY <1>2, <1>4, <1>5 DEF r, SamePlace

-----------------------------------------------------------------------------
(* What a step of a request does to it: it goes on with its change, or it  *)
(* has none, or begins one.                                                *)
Moves(p, q) ==
  /\ post' = [post EXCEPT ![p] = q]
  /\ Well(q)
  /\ q.pc \notin Waiting => SamePlace(q, post[p]) /\ post[p].pc # "idle"

(* Events are kept as they were stored.                                    *)
EventsKept ==
  /\ event' \in [Keys -> EventType \cup {NoEvent}]
  /\ \A k \in Keys : event[k] # NoEvent => event'[k] # NoEvent /\ event'[k].raw = event[k].raw

LEMMA NextChangeMoves ==
  ASSUME NEW p \in Posts, WebhookTypeOK, Well(post[p]), post[p].pc # "idle", NextChange(p)
  PROVE  /\ \E q : Moves(p, q) /\ q.pc \in Waiting
         /\ acked' \in [Envelopes -> BOOLEAN]
<1> DEFINE o == post[p]
<1>1. o.env \in Envelopes /\ o.ci \in DOMAIN Carries[o.env]
  BY DEF Well
<1>2. acked \in [Envelopes -> BOOLEAN]
  BY DEF WebhookTypeOK
<1>3. CASE o.ci < Len(Carries[o.env])
  <2> DEFINE q == [IdlePost EXCEPT !.pc = "capture", !.env = o.env, !.ci = o.ci + 1]
  <2>1. post' = [post EXCEPT ![p] = q] /\ acked' = acked
    BY <1>3 DEF NextChange
  <2>2. o.ci + 1 \in DOMAIN Carries[o.env]
    <3> DEFINE T == [msgs : Seq(Msgs), statuses : Seq(Statuses)]
    <3>1. Carries[o.env] \in Seq(T)
      BY <1>1, Constants
    <3>2. DOMAIN Carries[o.env] = 1..Len(Carries[o.env]) /\ Len(Carries[o.env]) \in Nat
      <4> HIDE DEF T
      <4> QED BY <3>1
    <3> QED BY <1>1, <1>3, <3>2, SMT
  <2>3. Well(q)
    BY <1>1, <2>2, StartWell
  <2>4. q.pc = "capture"
    BY DEF IdlePost
  <2> HIDE DEF q
  <2> QED BY <1>2, <2>1, <2>3, <2>4 DEF Moves, SamePlace, Waiting
<1>4. CASE ~(o.ci < Len(Carries[o.env]))
  <2>1. post' = [post EXCEPT ![p] = IdlePost] /\ acked' = [acked EXCEPT ![o.env] = TRUE]
    BY <1>4 DEF NextChange
  <2>2. Well(IdlePost) /\ IdlePost.pc = "idle"
    BY IdleWell DEF IdlePost
  <2> QED BY <1>2, <2>1, <2>2 DEF Moves, SamePlace, Waiting
<1> QED BY <1>3, <1>4

LEMMA IdleMoves ==
  ASSUME NEW p \in Posts, post' = [post EXCEPT ![p] = IdlePost]
  PROVE  \E q : Moves(p, q) /\ q.pc \in Waiting
<1>1. Well(IdlePost) /\ IdlePost.pc = "idle"
  BY IdleWell DEF IdlePost
<1> QED BY <1>1 DEF Moves, SamePlace, Waiting

LEMMA EventsSame ==
  ASSUME WebhookTypeOK, UNCHANGED event
  PROVE  EventsKept
BY DEF EventsKept, WebhookTypeOK

LEMMA ReceiveMoves ==
  ASSUME WebhookTypeOK, NEW p \in Posts, NEW e \in Envelopes, Receive(p, e)
  PROVE  (\E q : Moves(p, q) /\ q.pc \in Waiting) /\ EventsKept
<1> DEFINE q == [IdlePost EXCEPT !.pc = "capture", !.env = e]
<1>1. post' = [post EXCEPT ![p] = q]
  BY DEF Receive
<1>2. 1 \in DOMAIN Carries[e]
  <2> DEFINE T == [msgs : Seq(Msgs), statuses : Seq(Statuses)]
  <2>1. Carries[e] \in Seq(T) /\ Carries[e] # <<>>
    BY Constants
  <2> HIDE DEF T
  <2> QED BY <2>1
<1>3. q \in PostType
  <2>1. [IdlePost EXCEPT !.pc = "capture"] \in PostType
    BY IdleWell, PostUpdate DEF Well, PostSteps
  <2>2. q = [[IdlePost EXCEPT !.pc = "capture"] EXCEPT !.env = e]
    OBVIOUS
  <2> QED BY <2>1, <2>2 DEF PostType
<1>4. Well(q) /\ q.pc = "capture"
  <2>1. q.pc = "capture" /\ q.env = e /\ q.ci = 1
    BY SMT DEF IdlePost
  <2> HIDE DEF q
  <2> QED BY <1>2, <1>3, <2>1 DEF Well, OnMessage
<1>5. EventsKept
  BY EventsSame DEF Receive
<1> HIDE DEF q
<1> QED BY <1>1, <1>4, <1>5 DEF Moves, SamePlace, Waiting

LEMMA CaptureMoves ==
  ASSUME WebhookTypeOK, NEW p \in Posts, Well(post[p]), CaptureRawEvent(p)
  PROVE  /\ EventsKept
         /\ acked' \in [Envelopes -> BOOLEAN]
         /\ \E q : /\ Moves(p, q)
                   /\ q.pc \notin Waiting => q.at = 1 /\ event'[Key(Change(q))] # NoEvent
                                             /\ q.pc # "enqueue"
<1> DEFINE o == post[p]
           c == Change(o)
           k == Key(c)
<1>1. o.pc = "capture"
  BY DEF CaptureRawEvent
<1>2. c \in Changes /\ k \in Keys
  BY <1>1, ChangeType DEF Well
<1>3. event \in [Keys -> EventType \cup {NoEvent}] /\ acked \in [Envelopes -> BOOLEAN]
  BY DEF WebhookTypeOK
<1>4. CASE event[k] # NoEvent /\ event[k].status = "PROCESSED"
  <2>1. NextChange(p) /\ event' = event
    BY <1>4 DEF CaptureRawEvent
  <2>2. EventsKept
    BY <2>1, EventsSame
  <2> QED BY <1>1, <2>1, <2>2, NextChangeMoves
<1>5. CASE ~(event[k] # NoEvent /\ event[k].status = "PROCESSED")
  <2> DEFINE q == Item(o, 1)
             r == [raw |-> c, status |-> "PENDING"]
  <2>1. /\ post' = [post EXCEPT ![p] = q] /\ acked' = acked
        /\ event' = IF event[k] = NoEvent THEN [event EXCEPT ![k] = r] ELSE event
    BY <1>5 DEF CaptureRawEvent
  <2>2. Well(q) /\ q.pc \in {"customer", "status", "mark"}
    BY <1>1, ItemWell
  <2>3. SamePlace(q, o) /\ Change(q) = c /\ q.at = 1
    BY ItemFields DEF Well, SamePlace
  <2>4. r \in EventType /\ r # NoEvent
    BY <1>2, NoEventAssumption DEF EventType
  <2> HIDE DEF q, r, k
  <2>5. event'[k] # NoEvent
    BY <1>2, <1>3, <2>1, <2>4
  <2>6. EventsKept
    BY <1>2, <1>3, <2>1, <2>4 DEF EventsKept
  <2> QED BY <1>1, <1>3, <2>1, <2>2, <2>3, <2>5, <2>6 DEF Moves, SamePlace, Waiting, k
<1> QED BY <1>4, <1>5

(* The steps from the lookup of the customer to the message row.           *)
LEMMA PrepareMoves ==
  ASSUME WebhookTypeOK, ChatTypeOK, NEW p \in Posts, Well(post[p]),
         FindCustomer(p) \/ CreateCustomer(p) \/ FindConversation(p) \/ CreateConversation(p)
           \/ InsertMessage(p) \/ FindMessage(p)
  PROVE  \E q : /\ Moves(p, q)
                /\ q.pc \notin Waiting => q.at = post[p].at /\ post[p].pc \in OnMessage
                                          /\ (q.pc = "enqueue" => post[p].pc = "insert")
<1> DEFINE o == post[p]
<1>1. ASSUME NEW step \in OnMessage \ {"insert"}, o.pc \in OnMessage,
             post' = [post EXCEPT ![p] = Goto(o, step)], step = "enqueue" => o.pc = "insert"
      PROVE  \E q : /\ Moves(p, q)
                    /\ q.pc \notin Waiting => q.at = o.at /\ o.pc \in OnMessage
                                              /\ (q.pc = "enqueue" => o.pc = "insert")
  <2> DEFINE q == Goto(o, step)
  <2>1. Well(q) /\ SamePlace(q, o) /\ q.at = o.at /\ q.pc = step
    BY <1>1, GotoWell
  <2>2. o.pc # "idle"
    BY <1>1 DEF OnMessage
  <2> HIDE DEF q
  <2> QED BY <1>1, <2>1, <2>2 DEF Moves, SamePlace, q
<1>2. ASSUME NEW v \in Convs, o.pc \in OnMessage,
             post' = [post EXCEPT ![p] = [Goto(o, "insert") EXCEPT !.conv = v]]
      PROVE  \E q : /\ Moves(p, q)
                    /\ q.pc \notin Waiting => q.at = o.at /\ o.pc \in OnMessage
                                              /\ (q.pc = "enqueue" => o.pc = "insert")
  <2> DEFINE q == [Goto(o, "insert") EXCEPT !.conv = v]
  <2>1. Well(q) /\ SamePlace(q, o) /\ q.at = o.at /\ q.pc = "insert"
    BY <1>2, InsertWell
  <2>2. o.pc # "idle"
    BY <1>2 DEF OnMessage
  <2> HIDE DEF q
  <2> QED BY <1>2, <2>1, <2>2 DEF Moves, SamePlace, q
<1>3. CASE FindCustomer(p)
  <2>1. o.pc = "customer"
    BY <1>3 DEF FindCustomer
  <2>2. \E step \in {"conversation", "newCustomer"} : post' = [post EXCEPT ![p] = Goto(o, step)]
    BY <1>3 DEF FindCustomer
  <2> QED BY <1>1, <2>1, <2>2 DEF OnMessage
<1>4. CASE CreateCustomer(p)
  <2>1. o.pc = "newCustomer"
    BY <1>4 DEF CreateCustomer
  <2>2. \/ post' = [post EXCEPT ![p] = IdlePost]
        \/ post' = [post EXCEPT ![p] = Goto(o, "conversation")]
    BY <1>4 DEF CreateCustomer
  <2>3. CASE post' = [post EXCEPT ![p] = IdlePost]
    BY <2>3, IdleMoves
  <2> QED BY <1>1, <2>1, <2>2, <2>3 DEF OnMessage
<1>5. CASE FindConversation(p)
  <2>1. o.pc = "conversation"
    BY <1>5 DEF FindConversation
  <2>2. \/ \E v \in OpenOf(From[Message(o)]) :
             post' = [post EXCEPT ![p] = [Goto(o, "insert") EXCEPT !.conv = v]]
        \/ post' = [post EXCEPT ![p] = Goto(o, "newConversation")]
    BY <1>5 DEF FindConversation
  <2>3. OpenOf(From[Message(o)]) \subseteq Convs
    BY DEF OpenOf
  <2> QED BY <1>1, <1>2, <2>1, <2>2, <2>3 DEF OnMessage
<1>6. CASE CreateConversation(p)
  <2>1. o.pc = "newConversation"
    BY <1>6 DEF CreateConversation
  <2>2. (CHOOSE u \in Convs : conv[u] = "none") \in Convs
    BY <1>6 DEF CreateConversation
  <2>3. \E v \in Convs : post' = [post EXCEPT ![p] = [Goto(o, "insert") EXCEPT !.conv = v]]
    BY <1>6, <2>2 DEF CreateConversation
  <2> QED BY <1>2, <2>1, <2>3 DEF OnMessage
<1>7. CASE InsertMessage(p)
  BY <1>7, <1>1 DEF InsertMessage, OnMessage
<1>8. CASE FindMessage(p)
  BY <1>8, <1>1 DEF FindMessage, AfterDuplicate, OnMessage
<1> QED BY <1>3, <1>4, <1>5, <1>6, <1>7, <1>8

LEMMA NextItemFields ==
  ASSUME NEW q, Well(q), q.pc # "idle"
  PROVE  /\ Well(NextItem(q)) /\ SamePlace(NextItem(q), q)
         /\ NextItem(q).at = q.at + 1 /\ NextItem(q).pc \in {"customer", "status", "mark"}
<1>1. q \in PostType /\ q.at + 1 \in Nat \ {0}
  <2>1. q \in PostType /\ q.at \in Nat
    BY DEF Well, PostType
  <2> HIDE DEF Well
  <2> QED BY <2>1, SMT
<1> QED BY <1>1, ItemWell, ItemFields DEF NextItem, SamePlace

LEMMA EnqueueMoves ==
  ASSUME WebhookTypeOK, NEW p \in Posts, Well(post[p]), EnqueueInboundMessage(p)
  PROVE  /\ EventsKept
         /\ \E q : Moves(p, q) /\ q.at = post[p].at + 1 /\ q.pc \in {"customer", "status", "mark"}
<1> DEFINE o == post[p]
           q == NextItem(o)
<1>1. o.pc = "enqueue" /\ post' = [post EXCEPT ![p] = q]
  BY DEF EnqueueInboundMessage
<1>2. /\ Well(q) /\ SamePlace(q, o) /\ q.at = o.at + 1
      /\ q.pc \in {"customer", "status", "mark"}
  BY <1>1, NextItemFields
<1>3. EventsKept
  BY EventsSame DEF EnqueueInboundMessage
<1> HIDE DEF q
<1> QED BY <1>1, <1>2, <1>3 DEF Moves, SamePlace

LEMMA StatusMoves ==
  ASSUME WebhookTypeOK, NEW p \in Posts, Well(post[p]), ApplyDeliveryStatus(p)
  PROVE  /\ EventsKept
         /\ \E q : Moves(p, q) /\ q.at = post[p].at + 1 /\ q.pc \in {"customer", "status", "mark"}
<1> DEFINE o == post[p]
           r == NextItem(o)
           known == outRow[Status(o).of] # "none"
           q == [r EXCEPT !.late = o.late \/ ~known]
<1>1. o.pc = "status" /\ post' = [post EXCEPT ![p] = q]
  BY DEF ApplyDeliveryStatus
<1>2. /\ Well(r) /\ SamePlace(r, o) /\ r.at = o.at + 1
      /\ r.pc \in {"customer", "status", "mark"}
  BY <1>1, NextItemFields
<1>3. r \in PostType /\ o.late \in BOOLEAN
  BY <1>2 DEF Well, PostType
<1> HIDE DEF r
<1>4. /\ q.pc = r.pc /\ q.at = r.at /\ q.env = r.env /\ q.ci = r.ci /\ q.conv = r.conv
  BY <1>3 DEF PostType
<1>5. q \in PostType
  BY <1>3, PostUpdate DEF Well, PostType, PostSteps
<1>6. Change(q) = Change(r)
  BY <1>4 DEF Change
<1>7. EventsKept
  BY EventsSame DEF ApplyDeliveryStatus
<1> HIDE DEF q
<1>8. Well(q)
  BY <1>2, <1>4, <1>5, <1>6 DEF Well
<1> QED BY <1>1, <1>2, <1>4, <1>6, <1>7, <1>8 DEF Moves, SamePlace

LEMMA MarkMoves ==
  ASSUME WebhookTypeOK, NEW p \in Posts, Well(post[p]), Stored(post[p]), MarkEventProcessed(p)
  PROVE  /\ EventsKept
         /\ acked' \in [Envelopes -> BOOLEAN]
         /\ \E q : Moves(p, q) /\ q.pc \in Waiting
<1> DEFINE o == post[p]
           k == Key(Change(o))
           r == [event[k] EXCEPT !.status = "PROCESSED"]
<1>1. o.pc = "mark" /\ NextChange(p)
  BY DEF MarkEventProcessed
<1>2. k \in Keys
  BY <1>1, ChangeType DEF Well
<1>3. event \in [Keys -> EventType \cup {NoEvent}] /\ event[k] # NoEvent
  BY <1>1 DEF WebhookTypeOK, Stored, Waiting
<1>4. r \in EventType /\ r.raw = event[k].raw /\ r # NoEvent
  <2>1. event[k] \in EventType
    BY <1>2, <1>3
  <2>2. r \in EventType /\ r.raw = event[k].raw
    BY <2>1 DEF EventType
  <2> QED BY <2>2, NoEventAssumption
<1>5. event' = event \/ event' = [event EXCEPT ![k] = r]
  BY DEF MarkEventProcessed
<1> HIDE DEF r, k
<1>6. EventsKept
  BY <1>2, <1>3, <1>4, <1>5 DEF EventsKept
<1> QED BY <1>1, <1>6, NextChangeMoves

LEMMA FailMoves ==
  ASSUME WebhookTypeOK, NEW p \in Posts, RequestFails(p)
  PROVE  EventsKept /\ \E q : Moves(p, q) /\ q.pc \in Waiting
BY IdleMoves, EventsSame DEF RequestFails

-----------------------------------------------------------------------------
(* The rows a request writes.                                              *)
Requests(p) == (\E e \in Envelopes : Receive(p, e)) \/ Serve(p) \/ RequestFails(p)

LEMMA RequestMoves ==
  ASSUME TypeInv, NEW p \in Posts, Requests(p)
  PROVE  /\ EventsKept
         /\ acked' \in [Envelopes -> BOOLEAN]
         /\ \E q : /\ Moves(p, q)
                   /\ q.pc \notin Waiting => event'[Key(Change(q))] # NoEvent
<1>0. WebhookTypeOK /\ ChatTypeOK /\ Well(post[p]) /\ Stored(post[p])
  BY DEF TypeInv, TypeOK, Control
<1>1. acked \in [Envelopes -> BOOLEAN]
  BY <1>0 DEF WebhookTypeOK
<1>2. ASSUME EventsKept, NEW q, Moves(p, q), post[p].pc \notin Waiting
      PROVE  q.pc \notin Waiting => event'[Key(Change(q))] # NoEvent
  <2> SUFFICES ASSUME q.pc \notin Waiting PROVE event'[Key(Change(q))] # NoEvent
    OBVIOUS
  <2>1. Change(q) = Change(post[p]) /\ post[p].pc # "idle"
    BY <1>2 DEF Moves, SamePlace
  <2>2. Key(Change(post[p])) \in Keys
    BY <1>0, <2>1, ChangeType DEF Well
  <2> QED BY <1>0, <1>2, <2>1, <2>2 DEF Stored, EventsKept
<1>3. CASE \E e \in Envelopes : Receive(p, e)
  BY <1>0, <1>1, <1>3, ReceiveMoves DEF Receive
<1>4. CASE CaptureRawEvent(p)
  BY <1>0, <1>4, CaptureMoves
<1>5. CASE FindCustomer(p) \/ CreateCustomer(p) \/ FindConversation(p)
             \/ CreateConversation(p) \/ InsertMessage(p) \/ FindMessage(p)
  <2>1. post[p].pc \in OnMessage /\ UNCHANGED <<event, acked>>
    BY <1>5 DEF FindCustomer, CreateCustomer, FindConversation, CreateConversation,
                InsertMessage, FindMessage, OnMessage
  <2>2. post[p].pc \notin Waiting
    BY <2>1 DEF OnMessage, Waiting
  <2>3. \E q : Moves(p, q)
    BY <1>0, <1>5, PrepareMoves
  <2> QED BY <1>0, <1>1, <1>2, <2>1, <2>2, <2>3, EventsSame
<1>6. CASE EnqueueInboundMessage(p)
  <2>1. post[p].pc = "enqueue" /\ UNCHANGED acked
    BY <1>6 DEF EnqueueInboundMessage
  <2> QED BY <1>0, <1>1, <1>2, <1>6, <2>1, EnqueueMoves DEF Waiting
<1>7. CASE ApplyDeliveryStatus(p)
  <2>1. post[p].pc = "status" /\ UNCHANGED acked
    BY <1>7 DEF ApplyDeliveryStatus
  <2> QED BY <1>0, <1>1, <1>2, <1>7, <2>1, StatusMoves DEF Waiting
<1>8. CASE MarkEventProcessed(p)
  BY <1>0, <1>8, MarkMoves
<1>9. CASE RequestFails(p)
  BY <1>0, <1>1, <1>9, FailMoves DEF RequestFails
<1> QED BY <1>3, <1>4, <1>5, <1>6, <1>7, <1>8, <1>9 DEF Requests, Serve

-----------------------------------------------------------------------------
(* Rows are never deleted, a message stays in its conversation, and        *)
(* nothing takes a work item or an escalation back.                        *)
RowsKept ==
  /\ \A m \in Msgs : row[m] # "none" => row'[m] # "none" /\ home'[m] = home[m]
  /\ \A m \in Msgs : items'[m] >= items[m]
  /\ \A v \in Convs : tickets'[v] >= tickets[v]

JobTypeOK ==
  /\ job \in [Msgs -> {"none", "wait", "active", "done", "failed"}]
  /\ tries \in [Msgs -> Nat]
  /\ items \in [Msgs -> Nat]
  /\ lapses \in 0..MaxFaults

LEMMA LapseType ==
  ASSUME lapses \in 0..MaxFaults, NEW k, Lapse(k)
  PROVE  lapses' \in 0..MaxFaults
BY Constants, SMT DEF Lapse

LEMMA ChatSame ==
  ASSUME ChatTypeOK, UNCHANGED chatVars
  PROVE  ChatTypeOK'
BY DEF ChatTypeOK, chatVars

LEMMA RowsSame ==
  ASSUME ChatTypeOK, JobTypeOK, UNCHANGED <<row, home, items, tickets>>
  PROVE  RowsKept
BY SMT DEF ChatTypeOK, JobTypeOK, RowsKept

LEMMA RequestRows ==
  ASSUME TypeInv, NEW p \in Posts, Requests(p)
  PROVE  ChatTypeOK' /\ JobTypeOK' /\ RowsKept
<1> DEFINE o == post[p]
           m == Message(o)
<1>1. ChatTypeOK /\ JobTypeOK /\ Well(o)
  BY DEF TypeInv, TypeOK, WebhookTypeOK, JobTypeOK, Control
<1>2. o.pc \in OnMessage => m \in Msgs /\ From[m] \in Customers
  BY <1>1, MessageType
<1> HIDE DEF m
<1>3. CASE \/ \E e \in Envelopes : Receive(p, e)
           \/ CaptureRawEvent(p) \/ FindCustomer(p) \/ FindConversation(p) \/ FindMessage(p)
           \/ MarkEventProcessed(p) \/ RequestFails(p)
  <2>1. UNCHANGED <<chatVars, job, tries, items>>
    BY <1>3 DEF Receive, CaptureRawEvent, FindCustomer, FindConversation, FindMessage,
                MarkEventProcessed, RequestFails
  <2>2. lapses' = lapses \/ \E k \in {"again", "api"} : Lapse(k)
    BY <1>3 DEF Receive, CaptureRawEvent, FindCustomer, FindConversation, FindMessage,
                MarkEventProcessed, RequestFails
  <2>3. JobTypeOK'
    BY <1>1, <2>1, <2>2, LapseType DEF JobTypeOK
  <2> QED BY <1>1, <2>1, <2>3, ChatSame, RowsSame DEF chatVars
<1>4. CASE CreateCustomer(p)
  <2>1. /\ customer' = [customer EXCEPT ![From[m]] = TRUE]
        /\ UNCHANGED <<owner, conv, cart, row, home, sent, outRow, tickets>>
        /\ UNCHANGED <<job, tries, items, lapses>>
    BY <1>4 DEF CreateCustomer, m
  <2>2. ChatTypeOK'
    BY <1>1, <2>1 DEF ChatTypeOK
  <2>3. JobTypeOK'
    BY <1>1, <2>1 DEF JobTypeOK
  <2> QED BY <1>1, <2>1, <2>2, <2>3, RowsSame
<1>5. CASE CreateConversation(p)
  <2>1. o.pc \in OnMessage
    BY <1>5 DEF CreateConversation, OnMessage
  <2>2. /\ \E v : /\ conv' = [conv EXCEPT ![v] = "OPEN"]
                  /\ owner' = [owner EXCEPT ![v] = From[m]]
        /\ UNCHANGED <<customer, cart, row, home, sent, outRow, tickets>>
        /\ UNCHANGED <<job, tries, items, lapses>>
    BY <1>5 DEF CreateConversation, m
  <2>3. ChatTypeOK'
    BY <1>1, <1>2, <2>1, <2>2 DEF ChatTypeOK
  <2>4. JobTypeOK'
    BY <1>1, <2>2 DEF JobTypeOK
  <2> QED BY <1>1, <2>2, <2>3, <2>4, RowsSame
<1>6. CASE InsertMessage(p)
  <2>1. o.pc = "insert" /\ o.conv \in Convs
    BY <1>1, <1>6 DEF InsertMessage, Well
  <2>2. /\ row[m] = "none"
        /\ row' = [row EXCEPT ![m] = "RECEIVED"]
        /\ home' = [home EXCEPT ![m] = o.conv]
        /\ UNCHANGED <<customer, owner, conv, cart, sent, outRow, tickets>>
        /\ UNCHANGED <<job, tries, items, lapses>>
    BY <1>6 DEF InsertMessage, m
  <2>3. m \in Msgs
    BY <1>2, <2>1 DEF OnMessage
  <2>4. ChatTypeOK'
    BY <1>1, <2>1, <2>2 DEF ChatTypeOK
  <2>5. JobTypeOK'
    BY <1>1, <2>2 DEF JobTypeOK
  <2>6. RowsKept
    BY <1>1, <2>2, <2>3, SMT DEF RowsKept, ChatTypeOK, JobTypeOK
  <2> QED BY <2>4, <2>5, <2>6
<1>7. CASE EnqueueInboundMessage(p)
  <2>1. m \in Msgs
    BY <1>2, <1>7 DEF EnqueueInboundMessage, OnMessage
  <2>2. /\ \/ /\ job' = [job EXCEPT ![m] = "wait"]
              /\ tries' = [tries EXCEPT ![m] = 0]
              /\ items' = [items EXCEPT ![m] = @ + 1]
           \/ UNCHANGED <<job, tries, items>>
        /\ UNCHANGED <<chatVars, lapses>>
    BY <1>7 DEF EnqueueInboundMessage, m
  <2>3. JobTypeOK'
    BY <1>1, <2>2, SMT DEF JobTypeOK
  <2>4. RowsKept
    BY <1>1, <2>1, <2>2, SMT DEF RowsKept, ChatTypeOK, JobTypeOK, chatVars
  <2> QED BY <1>1, <2>2, <2>3, <2>4, ChatSame
<1>8. CASE ApplyDeliveryStatus(p)
  <2> DEFINE s == Status(o)
  <2>1. s.of \in Msgs /\ StatusMap[s.val] \in OutStatus
    <3>1. s \in Statuses
      BY <1>1, <1>8, StatusType DEF ApplyDeliveryStatus
    <3> HIDE DEF s
    <3>2. s.of \in Msgs /\ s.val \in {"sent", "delivered", "read", "failed"}
      BY <3>1 DEF Statuses
    <3> QED BY <3>2, SMT DEF StatusMap, OutStatus
  <2>2. /\ outRow' = [outRow EXCEPT ![s.of] = StatusMap[s.val]] \/ outRow' = outRow
        /\ UNCHANGED <<customer, owner, conv, cart, row, home, sent, tickets>>
        /\ UNCHANGED <<job, tries, items, lapses>>
    BY <1>8 DEF ApplyDeliveryStatus
  <2> HIDE DEF s
  <2>3. ChatTypeOK'
    BY <1>1, <2>1, <2>2 DEF ChatTypeOK
  <2>4. JobTypeOK'
    BY <1>1, <2>2 DEF JobTypeOK
  <2> QED BY <1>1, <2>2, <2>3, <2>4, RowsSame
<1> QED BY <1>3, <1>4, <1>5, <1>6, <1>7, <1>8 DEF Requests, Serve

LEMMA DropRows ==
  ASSUME TypeInv, NEW m \in Msgs, DropJob(m)
  PROVE  ChatTypeOK' /\ JobTypeOK' /\ RowsKept
<1>1. ChatTypeOK /\ JobTypeOK
  BY DEF TypeInv, TypeOK, WebhookTypeOK, JobTypeOK
<1>2. /\ job' = [job EXCEPT ![m] = "none"]
      /\ UNCHANGED <<chatVars, tries, items>> /\ Lapse("evict")
  BY DEF DropJob
<1>3. JobTypeOK'
  BY <1>1, <1>2, LapseType DEF JobTypeOK
<1> QED BY <1>1, <1>2, <1>3, ChatSame, RowsSame DEF chatVars

(* A step of the webhook preserves the type invariant.                     *)
LEMMA WebhookTypeInv ==
  ASSUME TypeInv, WebhookNext, UNCHANGED handlerVars
  PROVE  TypeInv' /\ RowsKept /\ EventsKept
<1>1. HandlerTypeOK' /\ \A s \in Slots : SoundSlot(slot[s])'
  BY DEF TypeInv, TypeOK, Control, HandlerTypeOK, handlerVars, SoundSlot, SlotType
<1>2. WebhookTypeOK /\ post \in [Posts -> PostType]
  BY DEF TypeInv, TypeOK, WebhookTypeOK, PostType
<1>3. CASE \E p \in Posts : Requests(p)
  <2>1. PICK p \in Posts : Requests(p)
    BY <1>3
  <2>2. ChatTypeOK' /\ JobTypeOK' /\ RowsKept
    BY <2>1, RequestRows
  <2>3. /\ EventsKept /\ acked' \in [Envelopes -> BOOLEAN]
        /\ \E q : Moves(p, q) /\ (q.pc \notin Waiting => event'[Key(Change(q))] # NoEvent)
    BY <2>1, RequestMoves
  <2>4. PICK q : Moves(p, q) /\ (q.pc \notin Waiting => event'[Key(Change(q))] # NoEvent)
    BY <2>3
  <2>5. post' \in [Posts -> PostType]
    BY <1>2, <2>4 DEF Moves, SamePlace, Well
  <2>6. WebhookTypeOK'
    BY <2>2, <2>3, <2>5 DEF WebhookTypeOK, JobTypeOK, EventsKept, PostType
  <2>7. ASSUME NEW r \in Posts PROVE Well(post'[r]) /\ Stored(post[r])'
    <3>1. CASE r = p
      <4>1. post'[r] = q
        BY <1>2, <2>4, <3>1 DEF Moves, SamePlace
      <4> QED BY <2>4, <4>1 DEF Moves, SamePlace, Stored
    <3>2. CASE r # p
      <4>1. post'[r] = post[r]
        BY <1>2, <2>4, <3>2 DEF Moves, SamePlace
      <4>2. Well(post[r]) /\ Stored(post[r])
        BY DEF TypeInv, Control
      <4>3. post[r].pc \notin Waiting => Key(Change(post[r])) \in Keys
        BY <4>2, ChangeType DEF Well, Waiting
      <4> QED BY <2>3, <4>1, <4>2, <4>3 DEF Stored, EventsKept
    <3> QED BY <3>1, <3>2
  <2>8. \A r \in Posts : (Well(post[r]) /\ Stored(post[r]))'
    BY <2>7 DEF Well, Change
  <2> QED BY <1>1, <2>2, <2>3, <2>6, <2>8 DEF TypeInv, TypeOK, Control
<1>4. CASE \E m \in Msgs : DropJob(m)
  <2>1. PICK m \in Msgs : DropJob(m)
    BY <1>4
  <2>2. ChatTypeOK' /\ JobTypeOK' /\ RowsKept
    BY <2>1, DropRows
  <2>3. UNCHANGED <<event, acked, post>>
    BY <2>1 DEF DropJob
  <2>4. WebhookTypeOK'
    BY <1>2, <2>2, <2>3 DEF WebhookTypeOK, JobTypeOK
  <2>5. \A r \in Posts : (Well(post[r]) /\ Stored(post[r]))'
    BY <2>3 DEF TypeInv, Control, Well, Stored, Change
  <2> QED BY <1>1, <1>2, <2>2, <2>3, <2>4, <2>5, EventsSame DEF TypeInv, TypeOK, Control
<1> QED BY <1>3, <1>4 DEF WebhookNext, Requests

-----------------------------------------------------------------------------
(* The steps of a slot.                                                    *)

LEMMA IdleSound == SoundSlot(IdleSlot)
<1>1. IdleSlot \in SlotType
  BY Constants, SMT DEF IdleSlot, SlotType, SlotSteps
<1> QED BY <1>1, SMT DEF SoundSlot, IdleSlot

LEMMA GoSound ==
  ASSUME NEW q, SoundSlot(q), q.pc # "idle", NEW step \in SlotSteps \ {"mark"},
         step \in {"switch", "load"} => q.pc \in {"mark", "switch"}
  PROVE  LET r == [q EXCEPT !.pc = step]
         IN /\ SoundSlot(r) /\ r.pc = step /\ r.msg = q.msg /\ r.cart = q.cart
            /\ r.plus = q.plus /\ r.cleared = q.cleared /\ r.escalated = q.escalated
<1>1. q \in SlotType
  BY DEF SoundSlot
<1> DEFINE r == [q EXCEPT !.pc = step]
<1>2. r \in SlotType
  BY <1>1 DEF SlotType
<1>3. /\ r.pc = step /\ r.msg = q.msg /\ r.cart = q.cart
      /\ r.plus = q.plus /\ r.cleared = q.cleared /\ r.escalated = q.escalated
  BY <1>1 DEF SlotType
<1> HIDE DEF r
<1>4. SoundSlot(r)
  BY <1>2, <1>3 DEF SoundSlot
<1> QED BY <1>3, <1>4 DEF r

(* What a slot that goes on may change of itself: the edits of its turn    *)
(* and the number of its reply.                                            *)
SlotMoves(s, q) ==
  /\ slot' = [slot EXCEPT ![s] = q]
  /\ SoundSlot(q)
  /\ q.pc # "idle" => q.msg = slot[s].msg /\ slot[s].pc # "idle"

Keeps(s, q) ==
  /\ q.pc # "idle"
  /\ q.msg = slot[s].msg /\ q.cart = slot[s].cart /\ q.plus = slot[s].plus
  /\ q.cleared = slot[s].cleared /\ q.escalated = slot[s].escalated

LEMMA GoMoves ==
  ASSUME HandlerTypeOK, NEW s \in Slots, SoundSlot(slot[s]), slot[s].pc # "idle",
         NEW step \in SlotSteps \ {"idle", "mark"}, Go(s, step),
         step \in {"switch", "load"} => slot[s].pc \in {"mark", "switch"}
  PROVE  \E q : SlotMoves(s, q) /\ Keeps(s, q) /\ q.pc = step
<1> DEFINE q == [slot[s] EXCEPT !.pc = step]
<1>1. slot' = [slot EXCEPT ![s] = q]
  BY DEF Go, HandlerTypeOK
<1>2. /\ SoundSlot(q) /\ q.pc = step /\ q.msg = slot[s].msg /\ q.cart = slot[s].cart
      /\ q.plus = slot[s].plus /\ q.cleared = slot[s].cleared
      /\ q.escalated = slot[s].escalated
  BY GoSound
<1> HIDE DEF q
<1> QED BY <1>1, <1>2 DEF SlotMoves, Keeps

LEMMA LeaveMoves ==
  ASSUME NEW s \in Slots, slot' = [slot EXCEPT ![s] = IdleSlot]
  PROVE  \E q : SlotMoves(s, q) /\ q.pc = "idle"
<1>1. SoundSlot(IdleSlot) /\ IdleSlot.pc = "idle"
  BY IdleSound DEF IdleSlot
<1> QED BY <1>1 DEF SlotMoves

(* The steps between which only the control changes, and where they go.    *)
Follows(step, next) ==
  \/ step = "mark" /\ next = "switch"
  \/ step = "switch" /\ next \in {"canned", "finish", "load"}
  \/ step = "turn" /\ next \in {"persist", "ticket", "reply"}
  \/ step = "persist" /\ next \in {"ticket", "reply"}
  \/ step = "ticket" /\ next \in {"reply", "newTicket"}
  \/ step = "newTicket" /\ next = "reply"
  \/ step = "reply" /\ next \in {"handOver", "send", "finish"}
  \/ step = "handOver" /\ next = "send"
  \/ step \in {"record", "cannedRow"} /\ next = "finish"
  \/ step \in SlotSteps \ {"idle", "fail"} /\ next = "fail"

Passes(s) ==
  \/ MarkProcessing(s) \/ CheckKillSwitch(s) \/ EndTurn(s) \/ PersistCart(s)
  \/ FindTicket(s) \/ CreateTicket(s) \/ UseReply(s) \/ HandOver(s) \/ RecordReply(s)
  \/ StepFails(s)

LEMMA PassMoves ==
  ASSUME HandlerTypeOK, NEW s \in Slots, SoundSlot(slot[s]), Passes(s)
  PROVE  \E q : SlotMoves(s, q) /\ Keeps(s, q) /\ Follows(slot[s].pc, q.pc)
<1> DEFINE pc == slot[s].pc
<1>1. \E step \in SlotSteps \ {"idle", "mark"} : Go(s, step) /\ Follows(pc, step)
  <2>1. CASE MarkProcessing(s)
    BY <2>1 DEF MarkProcessing, At, Follows, SlotSteps
  <2>2. CASE CheckKillSwitch(s)
    <3>1. pc = "switch" /\ \E step \in {"canned", "finish", "load"} : Go(s, step)
      BY <2>2 DEF CheckKillSwitch, At
    <3> QED BY <3>1 DEF Follows, SlotSteps
  <2>3. CASE EndTurn(s)
    <3>1. pc = "turn" /\ \E step \in {"persist", "ticket", "reply"} : Go(s, step)
      BY <2>3 DEF EndTurn, At, AfterCart
    <3> QED BY <3>1 DEF Follows, SlotSteps
  <2>4. CASE PersistCart(s)
    <3>1. pc = "persist" /\ \E step \in {"ticket", "reply"} : Go(s, step)
      BY <2>4 DEF PersistCart, At, AfterCart
    <3> QED BY <3>1 DEF Follows, SlotSteps
  <2>5. CASE FindTicket(s)
    <3>1. pc = "ticket" /\ \E step \in {"reply", "newTicket"} : Go(s, step)
      BY <2>5 DEF FindTicket, At, AfterTicketLookup
    <3> QED BY <3>1 DEF Follows, SlotSteps
  <2>6. CASE CreateTicket(s)
    BY <2>6 DEF CreateTicket, At, Follows, SlotSteps
  <2>7. CASE UseReply(s)
    <3>1. pc = "reply" /\ \E step \in {"handOver", "send", "finish"} : Go(s, step)
      BY <2>7 DEF UseReply, At
    <3> QED BY <3>1 DEF Follows, SlotSteps
  <2>8. CASE HandOver(s)
    BY <2>8 DEF HandOver, At, Follows, SlotSteps
  <2>9. CASE RecordReply(s)
    BY <2>9 DEF RecordReply, Follows, SlotSteps
  <2>10. CASE StepFails(s)
    <3>1. pc \in SlotSteps
      BY DEF SoundSlot, SlotType
    <3> QED BY <2>10, <3>1 DEF StepFails, Follows, SlotSteps
  <2> QED BY <2>1, <2>2, <2>3, <2>4, <2>5, <2>6, <2>7, <2>8, <2>9, <2>10 DEF Passes
<1>2. /\ pc # "idle"
      /\ \A step : Follows(pc, step) /\ step \in {"switch", "load"} => pc \in {"mark", "switch"}
  BY <1>1 DEF Follows
<1> QED BY <1>1, <1>2, GoMoves

(* The tools and the load of the cart.                                     *)
Edits(s) == LoadCart(s) \/ AddToCart(s) \/ CreateOrder(s) \/ Escalate(s)

LEMMA SlotFieldTypes ==
  ASSUME NEW q, SoundSlot(q)
  PROVE  /\ q.cart \in 0..Available /\ q.plus \in 0..Available /\ q.plus <= q.cart
         /\ q.cleared \in BOOLEAN /\ q.escalated \in BOOLEAN
BY DEF SoundSlot, SlotType

LEMMA SlotUpdate ==
  ASSUME NEW q \in SlotType
  PROVE  /\ \A step \in SlotSteps : [q EXCEPT !.pc = step] \in SlotType
         /\ \A n \in 0..Available : [q EXCEPT !.cart = n] \in SlotType
         /\ \A n \in 0..Available : [q EXCEPT !.plus = n] \in SlotType
         /\ \A b \in BOOLEAN : [q EXCEPT !.cleared = b] \in SlotType
         /\ \A b \in BOOLEAN : [q EXCEPT !.escalated = b] \in SlotType
         /\ \A n \in Nat : [q EXCEPT !.nth = n] \in SlotType
BY DEF SlotType

LEMMA EditMoves ==
  ASSUME HandlerTypeOK, ChatTypeOK, NEW s \in Slots, SoundSlot(slot[s]),
         slot[s].pc # "idle" => Conv(s) \in Convs, Edits(s)
  PROVE  /\ UNCHANGED <<chatVars, webhookVars, paused, serial>>
         /\ slot[s].pc \in {"load", "turn"}
         /\ \E q : /\ SlotMoves(s, q) /\ q.pc = "turn"
                   /\ \/ /\ slot[s].pc = "load" /\ q.cart = cart[Conv(s)]
                         /\ q.plus = slot[s].plus /\ q.cleared = slot[s].cleared
                      \/ /\ slot[s].pc = "turn" /\ q.cart = slot[s].cart + 1
                         /\ q.plus = slot[s].plus + 1 /\ q.cleared = slot[s].cleared
                      \/ slot[s].pc = "turn" /\ q.cart = 0 /\ q.plus = 0 /\ q.cleared
                      \/ /\ slot[s].pc = "turn" /\ q.cart = slot[s].cart
                         /\ q.plus = slot[s].plus /\ q.cleared = slot[s].cleared
<1> DEFINE o == slot[s]
<1>1. o \in SlotType
  BY DEF SoundSlot
<1>2. /\ o.cart \in Nat /\ o.plus \in Nat /\ o.plus <= o.cart /\ o.cart <= Available
      /\ Available \in Nat
  BY SlotFieldTypes, Constants, SMT
<1>3. UNCHANGED <<chatVars, webhookVars, paused, serial>> /\ o.pc \in {"load", "turn"}
  BY DEF Edits, LoadCart, AddToCart, CreateOrder, Escalate, At
<1>4. Conv(s) \in Convs /\ o.pc # "idle"
  BY <1>3
<1>5. o.msg \in Msgs
  BY <1>4 DEF SoundSlot
<1>6. CASE LoadCart(s)
  <2> DEFINE q == [o EXCEPT !.pc = "turn", !.cart = cart[Conv(s)]]
  <2>1. o.pc = "load" /\ slot' = [slot EXCEPT ![s] = q]
    BY <1>6 DEF LoadCart, At
  <2>2. cart[Conv(s)] \in 0..Available
    BY <1>4 DEF ChatTypeOK
  <2>3. /\ q.pc = "turn" /\ q.msg = o.msg /\ q.cart = cart[Conv(s)] /\ q.plus = o.plus
        /\ q.cleared = o.cleared
    BY <1>1, SMT DEF SlotType
  <2>4. q \in SlotType
    <3>1. q = [[o EXCEPT !.pc = "turn"] EXCEPT !.cart = cart[Conv(s)]]
      OBVIOUS
    <3> QED BY <1>1, <2>2, <3>1, SlotUpdate DEF SlotSteps
  <2>5. o.plus = 0
    BY <2>1 DEF SoundSlot
  <2> HIDE DEF q
  <2>6. SoundSlot(q)
    BY <1>5, <2>2, <2>3, <2>4, <2>5, SMT DEF SoundSlot
  <2> QED BY <1>3, <1>4, <2>1, <2>3, <2>6 DEF SlotMoves
<1>7. CASE AddToCart(s)
  <2> DEFINE q == [o EXCEPT !.cart = @ + 1, !.plus = @ + 1]
  <2>1. o.pc = "turn" /\ slot' = [slot EXCEPT ![s] = q] /\ o.cart < Available
    BY <1>7 DEF AddToCart, At, Fits
  <2>2. o.cart + 1 \in 0..Available /\ o.plus + 1 \in 0..Available /\ o.plus + 1 <= o.cart + 1
    BY <1>2, <2>1, SMT
  <2>3. /\ q.pc = "turn" /\ q.msg = o.msg /\ q.cart = o.cart + 1 /\ q.plus = o.plus + 1
        /\ q.cleared = o.cleared
    BY <1>1, <2>1, SMT DEF SlotType
  <2>4. q \in SlotType
    <3>1. q = [[o EXCEPT !.cart = o.cart + 1] EXCEPT !.plus = o.plus + 1]
      OBVIOUS
    <3> QED BY <1>1, <2>2, <3>1, SlotUpdate
  <2> HIDE DEF q
  <2>5. SoundSlot(q)
    BY <1>5, <2>2, <2>3, <2>4 DEF SoundSlot
  <2> QED BY <1>3, <1>4, <2>1, <2>3, <2>5 DEF SlotMoves
<1>8. CASE CreateOrder(s)
  <2> DEFINE q == [o EXCEPT !.cart = 0, !.plus = 0, !.cleared = TRUE]
  <2>1. o.pc = "turn" /\ slot' = [slot EXCEPT ![s] = q]
    BY <1>8 DEF CreateOrder, At
  <2>2. 0 \in 0..Available
    BY <1>2, SMT
  <2>3. /\ q.pc = "turn" /\ q.msg = o.msg /\ q.cart = 0 /\ q.plus = 0
        /\ q.cleared = TRUE
    BY <1>1, <2>1, SMT DEF SlotType
  <2>4. q \in SlotType
    <3>1. q = [[[o EXCEPT !.cart = 0] EXCEPT !.plus = 0] EXCEPT !.cleared = TRUE]
      OBVIOUS
    <3>2. [[o EXCEPT !.cart = 0] EXCEPT !.plus = 0] \in SlotType
      BY <1>1, <2>2, SlotUpdate
    <3> QED BY <3>1, <3>2, SlotUpdate
  <2> HIDE DEF q
  <2>5. SoundSlot(q)
    BY <1>5, <2>2, <2>3, <2>4, SMT DEF SoundSlot
  <2> QED BY <1>3, <1>4, <2>1, <2>3, <2>5 DEF SlotMoves
<1>9. CASE Escalate(s)
  <2> DEFINE q == [o EXCEPT !.escalated = TRUE]
  <2>1. o.pc = "turn" /\ slot' = [slot EXCEPT ![s] = q]
    BY <1>5, <1>9 DEF Escalate, At
  <2>2. /\ q.pc = "turn" /\ q.msg = o.msg /\ q.cart = o.cart /\ q.plus = o.plus
        /\ q.cleared = o.cleared /\ q.escalated = TRUE /\ q \in SlotType
    BY <1>1, <2>1 DEF SlotType
  <2> HIDE DEF q
  <2>3. SoundSlot(q)
    BY <1>2, <1>5, <2>2 DEF SoundSlot
  <2> QED BY <1>3, <1>4, <2>1, <2>2, <2>3 DEF SlotMoves
<1> QED BY <1>6, <1>7, <1>8, <1>9 DEF Edits

LEMMA TakeMoves ==
  ASSUME NEW s \in Slots, NEW m \in Msgs, TakeJob(s, m)
  PROVE  \E q : /\ slot' = [slot EXCEPT ![s] = q]
                /\ SoundSlot(q) /\ q.pc = "mark" /\ q.msg = m
<1> DEFINE q == [IdleSlot EXCEPT !.pc = "mark", !.msg = m]
<1>1. slot' = [slot EXCEPT ![s] = q]
  BY DEF TakeJob
<1>2. q.pc = "mark" /\ q.msg = m /\ q.cart = 0 /\ q.plus = 0 /\ q.cleared = FALSE
  BY SMT DEF IdleSlot
<1>3. q \in SlotType
  <2>1. [IdleSlot EXCEPT !.pc = "mark"] \in SlotType
    BY IdleSound, SlotUpdate DEF SoundSlot, SlotSteps
  <2>2. q = [[IdleSlot EXCEPT !.pc = "mark"] EXCEPT !.msg = m]
    OBVIOUS
  <2> QED BY <2>1, <2>2 DEF SlotType
<1> HIDE DEF q
<1>4. SoundSlot(q)
  BY <1>2, <1>3, SMT DEF SoundSlot
<1> QED BY <1>1, <1>2, <1>4

LEMMA SendMoves ==
  ASSUME ChatTypeOK, NEW s \in Slots, SoundSlot(slot[s]), SendReply(s)
  PROVE  \E q : /\ SlotMoves(s, q) /\ Keeps(s, q)
                /\ slot[s].pc \in {"send", "canned"} /\ q.pc \in {"record", "cannedRow"}
<1> DEFINE o == slot[s]
           step == IF At(s, "send") THEN "record" ELSE "cannedRow"
           n == sent[o.msg] + 1
           q == [o EXCEPT !.pc = step, !.nth = n]
<1>1. o.pc \in {"send", "canned"} /\ slot' = [slot EXCEPT ![s] = q]
  BY DEF SendReply
<1>2. o \in SlotType /\ o.msg \in Msgs
  BY <1>1 DEF SoundSlot
<1>3. n \in Nat
  <2>1. sent[o.msg] \in Nat
    BY <1>2 DEF ChatTypeOK
  <2> QED BY <2>1, SMT
<1>4. step \in {"record", "cannedRow"}
  OBVIOUS
<1> HIDE DEF n, step
<1>5. q \in SlotType
  <2>1. q = [[o EXCEPT !.pc = step] EXCEPT !.nth = n]
    OBVIOUS
  <2> QED BY <1>2, <1>3, <1>4, <2>1, SlotUpdate DEF SlotSteps
<1>6. /\ q.pc = step /\ q.msg = o.msg /\ q.cart = o.cart /\ q.plus = o.plus
      /\ q.cleared = o.cleared /\ q.escalated = o.escalated
  BY <1>2, SMT DEF SlotType
<1> HIDE DEF q
<1>7. SoundSlot(q)
  BY <1>2, <1>4, <1>5, <1>6 DEF SoundSlot
<1> QED BY <1>1, <1>4, <1>6, <1>7 DEF SlotMoves, Keeps

(* What a busy slot works on has a row, and the row a conversation.        *)
LEMMA BusySlot ==
  ASSUME TypeInv, ItemInv, NEW s \in Slots, slot[s].pc # "idle"
  PROVE  /\ slot[s].msg \in Msgs /\ items[slot[s].msg] > 0
         /\ row[slot[s].msg] # "none" /\ Conv(s) \in Convs
<1>1. slot[s].msg \in Msgs
  BY DEF TypeInv, Control, SoundSlot
<1> QED BY <1>1 DEF ItemInv, Conv

Ends(s) == MarkProcessed(s) \/ MarkFailed(s) \/ WorkerDies(s)

Acts(s) ==
  (\E m \in Msgs : TakeJob(s, m)) \/ Edits(s) \/ Passes(s) \/ SendReply(s) \/ Ends(s)

LEMMA ActMoves ==
  ASSUME TypeInv, ItemInv, NEW s \in Slots, Acts(s)
  PROVE  /\ \E q : /\ slot' = [slot EXCEPT ![s] = q] /\ SoundSlot(q)
                   /\ q.pc # "idle" => items[q.msg] > 0
         /\ UNCHANGED <<event, acked, post, items>>
<1>0. SoundSlot(slot[s]) /\ ChatTypeOK /\ HandlerTypeOK
  BY DEF TypeInv, TypeOK, Control
<1>1. UNCHANGED <<event, acked, post, items>>
  BY DEF Acts, TakeJob, Edits, LoadCart, AddToCart, CreateOrder, Escalate, Passes,
     MarkProcessing, CheckKillSwitch, EndTurn, PersistCart, FindTicket, CreateTicket,
     UseReply, HandOver, RecordReply, StepFails, SendReply, Ends, MarkProcessed,
     MarkFailed, WorkerDies, webhookVars
<1>2. ASSUME NEW q, SlotMoves(s, q)
      PROVE  \E r : /\ slot' = [slot EXCEPT ![s] = r] /\ SoundSlot(r)
                    /\ r.pc # "idle" => items[r.msg] > 0
  BY <1>2, BusySlot DEF SlotMoves
<1>3. CASE \E m \in Msgs : TakeJob(s, m)
  <2>1. PICK m \in Msgs : TakeJob(s, m)
    BY <1>3
  <2>2. items[m] > 0
    BY <2>1 DEF TakeJob, ItemInv
  <2> QED BY <1>1, <2>1, <2>2, TakeMoves
<1>4. CASE Edits(s)
  BY <1>0, <1>1, <1>2, <1>4, BusySlot, EditMoves
<1>5. CASE Passes(s)
  BY <1>0, <1>1, <1>2, <1>5, PassMoves
<1>6. CASE SendReply(s)
  BY <1>0, <1>1, <1>2, <1>6, SendMoves
<1>7. CASE Ends(s)
  <2>1. slot' = [slot EXCEPT ![s] = IdleSlot]
    BY <1>7 DEF Ends, MarkProcessed, MarkFailed, Retry, WorkerDies
  <2> QED BY <1>1, <1>2, <2>1, LeaveMoves
<1> QED BY <1>3, <1>4, <1>5, <1>6, <1>7 DEF Acts

(* The rows a slot writes.                                                 *)
LEMMA ActRows ==
  ASSUME TypeInv, ItemInv, NEW s \in Slots, Acts(s)
  PROVE  /\ ChatTypeOK' /\ JobTypeOK' /\ RowsKept
         /\ paused' = paused /\ serial' \in [Convs -> Nat]
<1> DEFINE m == slot[s].msg
           v == Conv(s)
<1>1. ChatTypeOK /\ JobTypeOK /\ HandlerTypeOK /\ SoundSlot(slot[s])
  BY DEF TypeInv, TypeOK, WebhookTypeOK, JobTypeOK, Control
<1>2. slot[s].pc # "idle" => m \in Msgs /\ row[m] # "none" /\ v \in Convs
  BY BusySlot
<1>3. slot[s].cart \in 0..Available /\ slot[s].plus \in 0..Available /\ serial \in [Convs -> Nat]
  BY <1>1, SlotFieldTypes DEF HandlerTypeOK
<1>4. slot[s].pc # "idle" => Edited(slot[s], serial[v]) \in Nat
  <2> SUFFICES ASSUME v \in Convs PROVE Edited(slot[s], serial[v]) \in Nat
    BY <1>2
  <2>1. serial[v] \in Nat /\ slot[s].plus \in Nat
    BY <1>3, SMT
  <2> QED BY <2>1, SMT DEF Edited
<1>5. paused' = paused
  BY DEF Acts, TakeJob, Edits, LoadCart, AddToCart, CreateOrder, Escalate, Passes,
     MarkProcessing, CheckKillSwitch, EndTurn, PersistCart, FindTicket, CreateTicket,
     UseReply, HandOver, RecordReply, StepFails, SendReply, Ends, MarkProcessed,
     MarkFailed, WorkerDies
<1> HIDE DEF m, v
<1>6. CASE (\E n \in Msgs : TakeJob(s, n)) \/ WorkerDies(s)
  <2>1. /\ \E n : job' = [job EXCEPT ![n] = "active"] \/ job' = [job EXCEPT ![n] = "wait"]
        /\ UNCHANGED <<chatVars, tries, items, serial>>
        /\ lapses' = lapses \/ Lapse("crash")
    BY <1>6 DEF TakeJob, WorkerDies
  <2>2. JobTypeOK'
    BY <1>1, <2>1, LapseType DEF JobTypeOK
  <2> QED BY <1>1, <1>3, <1>5, <2>1, <2>2, ChatSame, RowsSame DEF chatVars
<1>7. CASE \/ Edits(s) \/ CheckKillSwitch(s) \/ EndTurn(s) \/ FindTicket(s) \/ UseReply(s)
           \/ StepFails(s)
  <2>1. /\ UNCHANGED <<chatVars, job, tries, items>>
        /\ lapses' = lapses \/ \E k \in {"turn", "record"} : Lapse(k)
        /\ \/ serial' = serial
           \/ /\ slot[s].pc # "idle"
              /\ serial' = [serial EXCEPT ![v] = Edited(slot[s], @)]
    BY <1>7 DEF Edits, LoadCart, AddToCart, CreateOrder, Escalate, CheckKillSwitch, EndTurn,
       FindTicket, UseReply, StepFails, webhookVars, At, v
  <2>2. JobTypeOK'
    BY <1>1, <2>1, LapseType DEF JobTypeOK
  <2>3. serial' \in [Convs -> Nat]
    BY <1>3, <1>4, <2>1
  <2> QED BY <1>1, <1>5, <2>1, <2>2, <2>3, ChatSame, RowsSame DEF chatVars
<1>8. CASE MarkProcessing(s) \/ MarkProcessed(s) \/ MarkFailed(s)
  <2>1. /\ slot[s].pc # "idle"
        /\ \E x \in {"PROCESSING", "PROCESSED", "FAILED"} : row' = [row EXCEPT ![m] = x]
        /\ UNCHANGED <<customer, owner, conv, cart, home, sent, outRow, tickets>>
        /\ UNCHANGED <<items, lapses, serial>>
    BY <1>8 DEF MarkProcessing, MarkProcessed, MarkFailed, webhookVars, At, m
  <2>2. /\ \/ job' = job
           \/ \E x \in {"wait", "done", "failed"} : job' = [job EXCEPT ![m] = x]
        /\ tries' = tries \/ tries' = [tries EXCEPT ![m] = @ + 1]
    BY <1>8 DEF MarkProcessing, MarkProcessed, MarkFailed, Retry, webhookVars, m
  <2>3. ChatTypeOK'
    BY <1>1, <2>1 DEF ChatTypeOK
  <2>4. tries' \in [Msgs -> Nat]
    <3>1. tries \in [Msgs -> Nat] /\ m \in Msgs
      BY <1>1, <1>2, <2>1 DEF JobTypeOK
    <3> QED BY <2>2, <3>1, SMT
  <2>5. JobTypeOK'
    BY <1>1, <2>1, <2>2, <2>4 DEF JobTypeOK
  <2>6. RowsKept
    BY <1>1, <2>1, SMT DEF RowsKept, ChatTypeOK, JobTypeOK
  <2> QED BY <1>3, <1>5, <2>1, <2>3, <2>5, <2>6
<1>9. CASE PersistCart(s)
  <2>1. /\ slot[s].pc # "idle"
        /\ cart' = [cart EXCEPT ![v] = slot[s].cart]
        /\ serial' = [serial EXCEPT ![v] = Edited(slot[s], @)]
        /\ UNCHANGED <<customer, owner, conv, row, home, sent, outRow, tickets>>
        /\ UNCHANGED <<job, tries, items, lapses>>
    BY <1>9 DEF PersistCart, webhookVars, At, v
  <2>2. ChatTypeOK'
    BY <1>1, <1>3, <2>1 DEF ChatTypeOK
  <2>3. JobTypeOK'
    BY <1>1, <2>1 DEF JobTypeOK
  <2>4. serial' \in [Convs -> Nat]
    BY <1>3, <1>4, <2>1
  <2> QED BY <1>1, <1>5, <2>1, <2>2, <2>3, <2>4, RowsSame
<1>10. CASE CreateTicket(s)
  <2>1. /\ slot[s].pc # "idle"
        /\ tickets' = [tickets EXCEPT ![v] = @ + 1]
        /\ UNCHANGED <<customer, owner, conv, cart, row, home, sent, outRow>>
        /\ UNCHANGED <<job, tries, items, lapses, serial>>
    BY <1>10 DEF CreateTicket, webhookVars, At, v
  <2>2. tickets' \in [Convs -> Nat]
    <3>1. tickets \in [Convs -> Nat] /\ v \in Convs
      BY <1>1, <1>2, <2>1 DEF ChatTypeOK
    <3> QED BY <2>1, <3>1, SMT
  <2>3. ChatTypeOK'
    BY <1>1, <2>1, <2>2 DEF ChatTypeOK
  <2>4. JobTypeOK'
    BY <1>1, <2>1 DEF JobTypeOK
  <2>5. RowsKept
    BY <1>1, <2>1, SMT DEF RowsKept, ChatTypeOK, JobTypeOK
  <2> QED BY <1>3, <1>5, <2>1, <2>3, <2>4, <2>5
<1>11. CASE HandOver(s)
  <2>1. /\ conv' = [conv EXCEPT ![v] = "ESCALATED"]
        /\ UNCHANGED <<customer, owner, cart, row, home, sent, outRow, tickets>>
        /\ UNCHANGED <<job, tries, items, lapses, serial>>
    BY <1>11 DEF HandOver, webhookVars, v
  <2>2. ChatTypeOK'
    BY <1>1, <2>1 DEF ChatTypeOK
  <2>3. JobTypeOK'
    BY <1>1, <2>1 DEF JobTypeOK
  <2> QED BY <1>1, <1>3, <1>5, <2>1, <2>2, <2>3, RowsSame
<1>12. CASE SendReply(s)
  <2>1. /\ slot[s].pc # "idle"
        /\ sent' = [sent EXCEPT ![m] = @ + 1]
        /\ UNCHANGED <<customer, owner, conv, cart, row, home, outRow, tickets>>
        /\ UNCHANGED <<job, tries, items, lapses, serial>>
    BY <1>12 DEF SendReply, webhookVars, m
  <2>2. sent' \in [Msgs -> Nat]
    <3>1. sent \in [Msgs -> Nat] /\ m \in Msgs
      BY <1>1, <1>2, <2>1 DEF ChatTypeOK
    <3> QED BY <2>1, <3>1, SMT
  <2>3. ChatTypeOK'
    BY <1>1, <2>1, <2>2 DEF ChatTypeOK
  <2>4. JobTypeOK'
    BY <1>1, <2>1 DEF JobTypeOK
  <2> QED BY <1>1, <1>3, <1>5, <2>1, <2>3, <2>4, RowsSame
<1>13. CASE RecordReply(s)
  <2>1. /\ outRow' = [outRow EXCEPT ![m] = "SENT"] \/ outRow' = outRow
        /\ UNCHANGED <<customer, owner, conv, cart, row, home, sent, tickets>>
        /\ UNCHANGED <<job, tries, items, lapses, serial>>
    BY <1>13 DEF RecordReply, webhookVars, m
  <2>2. ChatTypeOK'
    BY <1>1, <2>1 DEF ChatTypeOK, OutStatus
  <2>3. JobTypeOK'
    BY <1>1, <2>1 DEF JobTypeOK
  <2> QED BY <1>1, <1>3, <1>5, <2>1, <2>2, <2>3, RowsSame
<1> QED BY <1>6, <1>7, <1>8, <1>9, <1>10, <1>11, <1>12, <1>13 DEF Acts, Passes, Ends

(* A step of the worker preserves the type invariant.                      *)
LEMMA HandlerTypeInv ==
  ASSUME TypeInv, ItemInv, HandlerNext
  PROVE  TypeInv' /\ RowsKept /\ EventsKept
<1>0. ChatTypeOK /\ WebhookTypeOK /\ JobTypeOK /\ HandlerTypeOK
  BY DEF TypeInv, TypeOK, WebhookTypeOK, JobTypeOK
<1>1. slot \in [Slots -> SlotType] /\ serial \in [Convs -> Nat] /\ paused \in BOOLEAN
  BY <1>0 DEF HandlerTypeOK, SlotType
<1>2. ASSUME UNCHANGED <<event, acked, post>>
      PROVE  EventsKept /\ \A p \in Posts : (Well(post[p]) /\ Stored(post[p]))'
  BY <1>0, <1>2, EventsSame DEF TypeInv, Control, Well, Stored, Change
<1>3. ASSUME UNCHANGED <<event, acked, post>>, JobTypeOK'
      PROVE  WebhookTypeOK'
  BY <1>0, <1>3 DEF WebhookTypeOK, JobTypeOK
<1>4. CASE \E s \in Slots : Acts(s)
  <2>1. PICK s \in Slots : Acts(s)
    BY <1>4
  <2>2. /\ ChatTypeOK' /\ JobTypeOK' /\ RowsKept
        /\ paused' = paused /\ serial' \in [Convs -> Nat]
    BY <2>1, ActRows
  <2>3. /\ UNCHANGED <<event, acked, post, items>>
        /\ \E q : slot' = [slot EXCEPT ![s] = q] /\ SoundSlot(q)
    BY <2>1, ActMoves
  <2>4. PICK q : slot' = [slot EXCEPT ![s] = q] /\ SoundSlot(q)
    BY <2>3
  <2>5. slot' \in [Slots -> SlotType]
    BY <1>1, <2>4 DEF SoundSlot
  <2>6. \A t \in Slots : SoundSlot(slot[t])'
    <3>1. \A t \in Slots : SoundSlot(slot'[t])
      BY <1>1, <2>4 DEF TypeInv, Control
    <3> QED BY <3>1 DEF SoundSlot
  <2>7. HandlerTypeOK'
    BY <1>1, <2>2, <2>5 DEF HandlerTypeOK, SlotType
  <2> QED BY <1>2, <1>3, <2>2, <2>3, <2>6, <2>7 DEF TypeInv, TypeOK, Control
<1>5. CASE Pause \/ Resume
  <2>1. /\ UNCHANGED <<chatVars, event, acked, post, job, tries, items, slot, serial>>
        /\ paused' \in BOOLEAN
        /\ lapses' = lapses \/ Lapse("pause")
    BY <1>5 DEF Pause, Resume, webhookVars
  <2>2. JobTypeOK'
    BY <1>0, <2>1, LapseType DEF JobTypeOK
  <2>3. ChatTypeOK' /\ RowsKept
    BY <1>0, <2>1, ChatSame, RowsSame DEF chatVars
  <2>4. HandlerTypeOK'
    BY <1>0, <2>1 DEF HandlerTypeOK
  <2>5. \A t \in Slots : SoundSlot(slot[t])'
    BY <2>1 DEF TypeInv, Control, SoundSlot
  <2> QED BY <1>2, <1>3, <2>1, <2>2, <2>3, <2>4, <2>5 DEF TypeInv, TypeOK, Control
<1> QED BY <1>4, <1>5 DEF HandlerNext, Acts, Edits, Passes, Ends, Proceed

LEMMA InitTypeInv == Init => TypeInv
<1> SUFFICES ASSUME Init PROVE TypeInv
  OBVIOUS
<1>1. ChatTypeOK
  <2>1. 0 \in 0..Available /\ 0 \in Nat
    BY Constants, SMT
  <2> QED BY <2>1 DEF Init, ChatInit, ChatTypeOK
<1>2. \A p \in Posts : post[p] = IdlePost
  BY DEF Init, WebhookInit
<1>3. Well(IdlePost) /\ IdlePost.pc = "idle" /\ IdlePost \in PostType
  BY IdleWell DEF IdlePost, Well
<1>4. post \in [Posts -> PostType]
  BY <1>3 DEF Init, WebhookInit
<1>5. WebhookTypeOK
  <2>1. 0 \in 0..MaxFaults /\ 0 \in Nat
    BY Constants, SMT
  <2> QED BY <1>4, <2>1 DEF Init, WebhookInit, WebhookTypeOK, PostType
<1>6. SoundSlot(IdleSlot) /\ IdleSlot \in SlotType
  BY IdleSound DEF SoundSlot
<1>7. HandlerTypeOK
  <2>1. 0 \in Nat
    OBVIOUS
  <2> QED BY <1>6, <2>1 DEF Init, HandlerInit, HandlerTypeOK, SlotType
<1>8. Control
  BY <1>2, <1>3, <1>6 DEF Control, Stored, Waiting, Init, HandlerInit
<1> QED BY <1>1, <1>5, <1>7, <1>8 DEF TypeInv, TypeOK

-----------------------------------------------------------------------------
LEMMA InitItemInv == Init => ItemInv
<1> SUFFICES ASSUME Init PROVE ItemInv
  OBVIOUS
<1>1. \A m \in Msgs : job[m] = "none" /\ items[m] = 0 /\ row[m] = "none"
  BY DEF Init, ChatInit, WebhookInit
<1>2. \A p \in Posts : post[p].pc = "idle"
  BY DEF Init, WebhookInit, IdlePost
<1>3. \A s \in Slots : slot[s].pc = "idle"
  BY DEF Init, HandlerInit, IdleSlot
<1> QED BY <1>1, <1>2, <1>3, SMT DEF ItemInv, Passed, Waiting

(* A request keeps what it has passed while others go on.                  *)
LEMMA PassedKept ==
  ASSUME TypeInv, RowsKept, NEW q, Well(q), Passed(q), TypeInv'
  PROVE  Passed(q)'
<1> SUFFICES ASSUME q.pc \notin Waiting PROVE Passed(q)'
  BY DEF Passed, Waiting
<1>1. Change(q).msgs \in Seq(Msgs)
  BY ChangeType DEF Well, Waiting
<1>2. \A i \in DOMAIN Change(q).msgs : Change(q).msgs[i] \in Msgs
  BY <1>1
<1>3. \A m \in Msgs : items[m] > 0 => items'[m] > 0
  BY SMT DEF TypeInv, TypeOK, WebhookTypeOK, RowsKept
<1>4. q.pc = "enqueue" => Message(q) \in Msgs
  BY MessageType DEF OnMessage
<1> QED BY <1>2, <1>3, <1>4 DEF Passed, RowsKept, Change, Message

(* What a step of a request leaves behind it is stored and put to work.    *)
LEMMA RequestPasses ==
  ASSUME TypeInv, ItemInv, NEW p \in Posts, Requests(p), TypeInv', RowsKept
  PROVE  /\ \A m \in Msgs : /\ (job[m] # "none" => items[m] > 0)'
                            /\ (items[m] > 0 => row[m] # "none")'
                            /\ (row[m] # "none" => home[m] \in Convs)'
         /\ \E q : Moves(p, q) /\ Passed(q)'
<1>13. PICK o : o = post[p]
  OBVIOUS
<1> DEFINE x == Message(o)
<1>0. /\ WebhookTypeOK /\ ChatTypeOK /\ Well(o) /\ Stored(o) /\ Passed(o)
      /\ items \in [Msgs -> Nat] /\ items' \in [Msgs -> Nat]
  BY <1>13 DEF TypeInv, TypeOK, WebhookTypeOK, Control, ItemInv
<1>1. o.pc \in OnMessage => x \in Msgs
  BY <1>0, MessageType
<1>2. \A m \in Msgs : /\ job[m] # "none" => items[m] > 0
                      /\ items[m] > 0 => row[m] # "none"
                      /\ row[m] # "none" => home[m] \in Convs
  BY DEF ItemInv
<1>3. Passed(o)'
  BY <1>0, PassedKept
<1> HIDE DEF x
(* Only inserting and enqueueing touch what the first part is about.       *)
<1>4. ASSUME UNCHANGED <<job, items, row, home>>
      PROVE  \A m \in Msgs : /\ (job[m] # "none" => items[m] > 0)'
                             /\ (items[m] > 0 => row[m] # "none")'
                             /\ (row[m] # "none" => home[m] \in Convs)'
  BY <1>2, <1>4
(* A record that waits has passed nothing; one at the same item of the     *)
(* same change has passed the same.                                        *)
<1>5. ASSUME NEW q, q.pc \in Waiting PROVE Passed(q)'
  BY <1>5 DEF Passed
<1>6. ASSUME NEW q, Moves(p, q), o.pc \notin Waiting, q.at = o.at, q.pc # "enqueue"
      PROVE  Passed(q)'
  BY <1>13, <1>3, <1>5, <1>6 DEF Moves, SamePlace, Passed, Change
<1>7. CASE \/ \E e \in Envelopes : Receive(p, e)
           \/ MarkEventProcessed(p) \/ RequestFails(p)
  <2>1. UNCHANGED <<job, items, row, home>>
    BY <1>13, <1>7 DEF Receive, MarkEventProcessed, RequestFails, chatVars
  <2>2. \E q : Moves(p, q) /\ q.pc \in Waiting
    BY <1>13, <1>0, <1>7, ReceiveMoves, MarkMoves, FailMoves
  <2> QED BY <1>4, <1>5, <2>1, <2>2
<1>8. CASE CaptureRawEvent(p)
  <2>1. UNCHANGED <<job, items, row, home>>
    BY <1>13, <1>8 DEF CaptureRawEvent, chatVars
  <2>2. PICK q : /\ Moves(p, q)
                 /\ q.pc \notin Waiting => q.at = 1 /\ q.pc # "enqueue"
    BY <1>13, <1>0, <1>8, CaptureMoves
  <2>3. Passed(q)'
    <3> SUFFICES ASSUME q.pc \notin Waiting PROVE Passed(q)'
      BY <1>5
    <3>1. Change(q).msgs \in Seq(Msgs)
      BY <1>13, <2>2, ChangeType DEF Moves, SamePlace, Well, Waiting
    <3>2. \A i \in DOMAIN Change(q).msgs : ~(i < q.at)
      BY <2>2, <3>1, SMT
    <3> QED BY <2>2, <3>2 DEF Passed, Change
  <2> QED BY <1>4, <2>1, <2>2, <2>3
<1>9. CASE FindCustomer(p) \/ CreateCustomer(p) \/ FindConversation(p) \/ CreateConversation(p)
  <2>1. UNCHANGED <<job, items, row, home>> /\ o.pc \in OnMessage \ {"insert"}
    BY <1>13, <1>9 DEF FindCustomer, CreateCustomer, FindConversation, CreateConversation,
                chatVars, OnMessage
  <2>2. PICK q : /\ Moves(p, q)
                 /\ q.pc \notin Waiting => q.at = o.at /\ (q.pc = "enqueue" => o.pc = "insert")
    BY <1>13, <1>0, <1>9, PrepareMoves
  <2>3. Passed(q)'
    BY <1>5, <1>6, <2>1, <2>2 DEF OnMessage, Waiting
  <2> QED BY <1>4, <2>1, <2>2, <2>3
<1>10. CASE InsertMessage(p) \/ FindMessage(p)
  <2>1. o.pc = "insert" /\ o.conv \in Convs /\ x \in Msgs
    BY <1>13, <1>0, <1>1, <1>10 DEF InsertMessage, FindMessage, Well, OnMessage
  <2>2. /\ row'[x] # "none" /\ UNCHANGED <<job, items>>
        /\ \A m \in Msgs : \/ row'[m] = row[m] /\ home'[m] = home[m]
                           \/ home'[m] \in Convs /\ row'[m] # "none"
    BY <1>13, <1>0, <1>10, <2>1 DEF InsertMessage, FindMessage, ChatTypeOK, chatVars, x
  <2>3. \A m \in Msgs : /\ (job[m] # "none" => items[m] > 0)'
                        /\ (items[m] > 0 => row[m] # "none")'
                        /\ (row[m] # "none" => home[m] \in Convs)'
    BY <1>2, <2>2
  <2>4. PICK q : Moves(p, q) /\ (q.pc \notin Waiting => q.at = o.at)
    BY <1>13, <1>0, <1>10, PrepareMoves
  <2>5. Passed(q)'
    <3> SUFFICES ASSUME q.pc \notin Waiting PROVE Passed(q)'
      BY <1>5
    <3>1. Change(q) = Change(o) /\ q.at = o.at
      BY <1>13, <2>4 DEF Moves, SamePlace
    <3>2. Message(q) = x
      BY <3>1 DEF Message, x
    <3>3. o.pc \notin Waiting
      BY <2>1 DEF Waiting
    <3> QED BY <1>3, <2>2, <3>1, <3>2, <3>3 DEF Passed, Change, Message
  <2> QED BY <2>3, <2>4, <2>5
<1>11. CASE EnqueueInboundMessage(p)
  <2>1. o.pc = "enqueue" /\ x \in Msgs /\ row[x] # "none"
    <3>1. o.pc = "enqueue"
      BY <1>13, <1>11 DEF EnqueueInboundMessage
    <3> QED BY <1>0, <1>1, <3>1 DEF OnMessage, Passed, Waiting, x
  <2>2. /\ UNCHANGED <<row, home>>
        /\ \/ UNCHANGED <<job, items>> /\ job[x] # "none"
           \/ job' = [job EXCEPT ![x] = "wait"] /\ items' = [items EXCEPT ![x] = @ + 1]
    BY <1>13, <1>11 DEF EnqueueInboundMessage, Enqueueable, chatVars, x
  <2>3. items'[x] > 0 /\ \A m \in Msgs \ {x} : job'[m] = job[m] /\ items'[m] = items[m]
    <3>1. CASE UNCHANGED <<job, items>> /\ job[x] # "none"
      BY <1>2, <2>1, <3>1
    <3>2. CASE job' = [job EXCEPT ![x] = "wait"] /\ items' = [items EXCEPT ![x] = @ + 1]
      <4>1. items[x] \in Nat /\ items' = [items EXCEPT ![x] = items[x] + 1]
        BY <1>0, <2>1, <3>2
      <4>2. items[x] + 1 > 0
        BY <4>1, SMT
      <4> QED BY <1>0, <2>1, <3>2, <4>1, <4>2 DEF WebhookTypeOK
    <3> QED BY <2>2, <3>1, <3>2
  <2>4. \A m \in Msgs : /\ (job[m] # "none" => items[m] > 0)'
                        /\ (items[m] > 0 => row[m] # "none")'
                        /\ (row[m] # "none" => home[m] \in Convs)'
    BY <1>2, <2>1, <2>2, <2>3
  <2>5. PICK q : Moves(p, q) /\ q.at = o.at + 1 /\ q.pc \in {"customer", "status", "mark"}
    BY <1>13, <1>0, <1>11, EnqueueMoves
  <2>6. Passed(q)'
    <3>1. Change(q) = Change(o) /\ q.pc # "enqueue"
      BY <1>13, <2>5 DEF Moves, SamePlace, Waiting
    <3>2. Change(o).msgs \in Seq(Msgs) /\ o.at \in DOMAIN Change(o).msgs
      BY <1>0, <2>1, ChangeType DEF Well, OnMessage
    <3>3. ASSUME NEW i \in DOMAIN Change(o).msgs, i < q.at
          PROVE  row'[Change(o).msgs[i]] # "none" /\ items'[Change(o).msgs[i]] > 0
      <4>1. i < o.at \/ i = o.at
        BY <2>5, <3>2, <3>3, SMT
      <4>2. CASE i < o.at
        BY <1>3, <2>1, <3>3, <4>2 DEF Passed, Waiting, Change
      <4>3. CASE i = o.at
        BY <2>1, <2>2, <2>3, <4>3 DEF Message, x
      <4> QED BY <4>1, <4>2, <4>3
    <3> QED BY <2>5, <3>1, <3>3 DEF Passed, Change
  <2> QED BY <2>4, <2>5, <2>6
<1>12. CASE ApplyDeliveryStatus(p)
  <2>1. UNCHANGED <<job, items, row, home>> /\ o.pc = "status"
    BY <1>13, <1>12 DEF ApplyDeliveryStatus
  <2>2. PICK q : Moves(p, q) /\ q.at = o.at + 1 /\ q.pc \in {"customer", "status", "mark"}
    BY <1>13, <1>0, <1>12, StatusMoves
  <2>3. Passed(q)'
    <3>1. Change(q) = Change(o) /\ q.pc # "enqueue"
      BY <1>13, <2>2 DEF Moves, SamePlace, Waiting
    <3>2. Change(o).msgs \in Seq(Msgs)
      BY <1>0, <2>1, ChangeType DEF Well
    <3>3. o.at > Len(Change(o).msgs)
      BY <1>0, <2>1, StatusType
    <3>4. \A i \in DOMAIN Change(o).msgs : i < o.at
      <4>1. o.at \in Nat
        BY <1>0, <2>1, StatusType
      <4> QED BY <3>2, <3>3, <4>1, SMT
    <3> QED BY <1>3, <2>1, <2>2, <3>1, <3>4 DEF Passed, Change, Waiting
  <2> QED BY <1>4, <2>1, <2>2, <2>3
<1> QED BY <1>7, <1>8, <1>9, <1>10, <1>11, <1>12 DEF Requests, Serve

LEMMA WebhookItemInv ==
  ASSUME TypeInv, ItemInv, WebhookNext, UNCHANGED handlerVars, TypeInv', RowsKept
  PROVE  ItemInv'
<1>1. \A s \in Slots : (slot[s].pc # "idle" => items[slot[s].msg] > 0)'
  <2> SUFFICES ASSUME NEW s \in Slots, slot[s].pc # "idle" PROVE items'[slot[s].msg] > 0
    BY DEF handlerVars
  <2>1. slot[s].msg \in Msgs /\ items[slot[s].msg] > 0
    BY BusySlot
  <2>2. items[slot[s].msg] \in Nat /\ items'[slot[s].msg] \in Nat
    BY <2>1 DEF TypeInv, TypeOK, WebhookTypeOK
  <2> QED BY <2>1, <2>2, SMT DEF RowsKept
<1>2. CASE \E p \in Posts : Requests(p)
  <2>1. PICK p \in Posts : Requests(p)
    BY <1>2
  <2>2. PICK q : Moves(p, q) /\ Passed(q)'
    BY <2>1, RequestPasses
  <2>3. ASSUME NEW r \in Posts PROVE Passed(post[r])'
    <3>1. CASE r = p
      <4>1. post'[p] = q
        BY <2>2 DEF Moves, SamePlace, TypeInv, TypeOK, WebhookTypeOK
      <4> QED BY <2>2, <3>1, <4>1 DEF Passed, Change, Message
    <3>2. CASE r # p
      <4>1. PICK o : o = post[r]
        OBVIOUS
      <4>2. post'[r] = o
        BY <2>2, <3>2, <4>1 DEF Moves, SamePlace, TypeInv, TypeOK, WebhookTypeOK
      <4>3. Well(o) /\ Passed(o)
        BY <4>1 DEF TypeInv, Control, ItemInv
      <4>4. Passed(o)'
        BY <4>3, PassedKept
      <4> QED BY <4>2, <4>4 DEF Passed, Change, Message
    <3> QED BY <3>1, <3>2
  <2>4. \A m \in Msgs : /\ (job[m] # "none" => items[m] > 0)'
                        /\ (items[m] > 0 => row[m] # "none")'
                        /\ (row[m] # "none" => home[m] \in Convs)'
    BY <2>1, RequestPasses
  <2> QED BY <1>1, <2>3, <2>4 DEF ItemInv
<1>3. CASE \E m \in Msgs : DropJob(m)
  <2>1. PICK m \in Msgs : DropJob(m)
    BY <1>3
  <2>2. /\ job' = [job EXCEPT ![m] = "none"]
        /\ UNCHANGED <<row, home, items, post>>
    BY <2>1 DEF DropJob, chatVars
  <2>3. \A n \in Msgs : job'[n] = "none" \/ job'[n] = job[n]
    BY <2>2 DEF TypeInv, TypeOK, WebhookTypeOK
  <2> QED BY <1>1, <2>2, <2>3 DEF ItemInv, Passed, Change, Message
<1> QED BY <1>2, <1>3 DEF WebhookNext, Requests

(* The job of a busy slot was counted before it was taken.                 *)
LEMMA ActJobs ==
  ASSUME TypeInv, ItemInv, NEW s \in Slots, Acts(s)
  PROVE  \A m \in Msgs : job'[m] = job[m] \/ items[m] > 0
<1>1. slot[s].pc # "idle" => slot[s].msg \in Msgs /\ items[slot[s].msg] > 0
  BY BusySlot
<1>2. job \in [Msgs -> {"none", "wait", "active", "done", "failed"}]
  BY DEF TypeInv, TypeOK, WebhookTypeOK
<1>3. CASE \E m \in Msgs : TakeJob(s, m)
  <2>1. PICK m \in Msgs : job[m] = "wait" /\ job' = [job EXCEPT ![m] = "active"]
    BY <1>3 DEF TakeJob
  <2> QED BY <1>2, <2>1 DEF ItemInv
<1>4. CASE Edits(s) \/ Passes(s) \/ SendReply(s)
  <2>1. job' = job
    BY <1>4 DEF Edits, LoadCart, AddToCart, CreateOrder, Escalate, Passes,
     MarkProcessing, CheckKillSwitch, EndTurn, PersistCart, FindTicket, CreateTicket,
     UseReply, HandOver, RecordReply, StepFails, SendReply, webhookVars
  <2> QED BY <2>1
<1>5. CASE Ends(s)
  <2>1. slot[s].pc # "idle" /\ \E x : job' = [job EXCEPT ![slot[s].msg] = x]
    BY <1>5 DEF Ends, MarkProcessed, MarkFailed, Retry, WorkerDies, At
  <2> QED BY <1>1, <1>2, <2>1
<1> QED BY <1>3, <1>4, <1>5 DEF Acts

LEMMA HandlerItemInv ==
  ASSUME TypeInv, ItemInv, HandlerNext, TypeInv', RowsKept
  PROVE  ItemInv'
<1>1. slot \in [Slots -> SlotType] /\ home' \in [Msgs -> Convs \cup {NoConv}]
  BY DEF TypeInv, TypeOK, HandlerTypeOK, SlotType, ChatTypeOK
<1>2. UNCHANGED <<post, items, home>>
  BY ZenonT(30) DEF HandlerNext, TakeJob, LoadCart, AddToCart, CreateOrder, Escalate, Proceed,
     MarkProcessing, CheckKillSwitch, EndTurn, PersistCart, FindTicket, CreateTicket,
     UseReply, HandOver, RecordReply, StepFails, SendReply, MarkProcessed,
     MarkFailed, WorkerDies, Pause, Resume, webhookVars, chatVars
<1>3. ASSUME NEW p \in Posts PROVE Passed(post[p])'
  <2>1. PICK o : o = post[p]
    OBVIOUS
  <2>2. Well(o) /\ Passed(o)
    BY <2>1 DEF TypeInv, Control, ItemInv
  <2>3. Passed(o)'
    BY <2>2, PassedKept
  <2> QED BY <1>2, <2>1, <2>3 DEF Passed, Change, Message
<1>4. ASSUME NEW m \in Msgs, job'[m] = job[m] \/ items[m] > 0
      PROVE  /\ (job[m] # "none" => items[m] > 0)'
             /\ (items[m] > 0 => row[m] # "none")'
  BY <1>2, <1>4 DEF ItemInv, RowsKept
<1>5. CASE \E s \in Slots : Acts(s)
  <2>1. PICK s \in Slots : Acts(s)
    BY <1>5
  <2>2. \A m \in Msgs : job'[m] = job[m] \/ items[m] > 0
    BY <2>1, ActJobs
  <2>3. PICK q : slot' = [slot EXCEPT ![s] = q] /\ (q.pc # "idle" => items[q.msg] > 0)
    BY <2>1, ActMoves
  <2>4. \A t \in Slots : (slot[t].pc # "idle" => items[slot[t].msg] > 0)'
    BY <1>1, <1>2, <2>3 DEF ItemInv
  <2>5. \A m \in Msgs : row'[m] # "none" => row[m] # "none"
    <3> SUFFICES ASSUME NEW m \in Msgs, row'[m] # row[m] PROVE row[m] # "none"
      OBVIOUS
    <3>1. row \in [Msgs -> {"none", "RECEIVED", "PROCESSING", "PROCESSED", "FAILED"}]
      BY DEF TypeInv, TypeOK, ChatTypeOK
    <3>2. slot[s].pc # "idle" /\ \E x : row' = [row EXCEPT ![slot[s].msg] = x]
      BY <2>1, <3>1 DEF Acts, TakeJob, Edits, LoadCart, AddToCart, CreateOrder, Escalate, Passes,
        MarkProcessing, CheckKillSwitch, EndTurn, PersistCart, FindTicket, CreateTicket,
        UseReply, HandOver, RecordReply, StepFails, SendReply, Ends, MarkProcessed,
        MarkFailed, WorkerDies, chatVars, At
    <3> QED BY <3>1, <3>2, BusySlot
  <2> QED BY <1>2, <1>3, <1>4, <2>2, <2>4, <2>5 DEF ItemInv
<1>6. CASE Pause \/ Resume
  <2>1. UNCHANGED <<chatVars, job, items, slot>>
    BY <1>6 DEF Pause, Resume, webhookVars
  <2> QED BY <1>3, <2>1 DEF ItemInv, chatVars
<1> QED BY <1>5, <1>6 DEF HandlerNext, Acts, Edits, Passes, Ends, Proceed

(* The two together are inductive.                                         *)
BaseInv == TypeInv /\ ItemInv
Kept == RowsKept /\ EventsKept

LEMMA BaseNext ==
  ASSUME BaseInv, Next
  PROVE  BaseInv' /\ Kept
<1>1. CASE WebhookNext /\ UNCHANGED handlerVars
  BY <1>1, WebhookTypeInv, WebhookItemInv DEF BaseInv, Kept
<1>2. CASE HandlerNext
  BY <1>2, HandlerTypeInv, HandlerItemInv DEF BaseInv, Kept
<1> QED BY <1>1, <1>2 DEF Next

LEMMA BaseStutter ==
  ASSUME BaseInv, UNCHANGED vars
  PROVE  BaseInv'
<1>1. UNCHANGED <<chatVars, webhookVars, handlerVars>>
  BY DEF vars
<1>2. ChatTypeOK' /\ HandlerTypeOK'
  BY <1>1, ChatSame DEF BaseInv, TypeInv, TypeOK, HandlerTypeOK, handlerVars
<1>3. WebhookTypeOK'
  BY <1>1 DEF BaseInv, TypeInv, TypeOK, WebhookTypeOK, webhookVars
<1>4. Control'
  BY <1>1 DEF BaseInv, TypeInv, Control, Well, Stored, SoundSlot, Change, webhookVars, handlerVars
<1>5. ItemInv'
  BY <1>1 DEF BaseInv, ItemInv, Passed, Change, Message, chatVars, webhookVars, handlerVars
<1> QED BY <1>2, <1>3, <1>4, <1>5 DEF BaseInv, TypeInv, TypeOK

LEMMA BaseInvariant == Spec => []BaseInv
<1>1. Init => BaseInv
  BY InitTypeInv, InitItemInv DEF BaseInv
<1>2. BaseInv /\ [Next]_vars => BaseInv'
  BY BaseNext, BaseStutter
<1> QED BY <1>1, <1>2, PTL DEF Spec

(* Every variable keeps its type; no cart holds more than there is.        *)
THEOREM MessageTypeCorrect == Spec => []TypeOK
<1>1. BaseInv => TypeOK
  BY DEF BaseInv, TypeInv
<1> QED BY <1>1, BaseInvariant, PTL

-----------------------------------------------------------------------------
(* Meta puts a message in one change: those stored under one key carry the *)
(* same messages.                                                          *)
SameKeySameMessages == \A c, d \in Changes : Key(c) = Key(d) => c.msgs = d.msgs

LEMMA ProcessedInit == Init => ProcessedIsQueued
<1> SUFFICES ASSUME Init, NEW c \in Changes PROVE event[Key(c)] = NoEvent
  BY DEF ProcessedIsQueued, IsProcessed
<1>1. Key(c) \in Keys
  BY DEF Keys
<1> QED BY <1>1 DEF Init, WebhookInit

(* An event becomes PROCESSED only when its request has passed every item. *)
LEMMA ProcessedStep ==
  ASSUME SameKeySameMessages, BaseInv, ProcessedIsQueued, Next
  PROVE  ProcessedIsQueued'
<1>1. BaseInv' /\ Kept
  BY BaseNext
<1>2. event \in [Keys -> EventType \cup {NoEvent}] /\ items \in [Msgs -> Nat]
      /\ items' \in [Msgs -> Nat]
  BY <1>1 DEF BaseInv, TypeInv, TypeOK, WebhookTypeOK
<1>3. \A c \in Changes : /\ Key(c) \in Keys
                         /\ \A i \in DOMAIN c.msgs : c.msgs[i] \in Msgs
  <2> SUFFICES ASSUME NEW c \in Changes
               PROVE  Key(c) \in Keys /\ \A i \in DOMAIN c.msgs : c.msgs[i] \in Msgs
    OBVIOUS
  <2>1. PICK e \in Envelopes : \E i \in DOMAIN Carries[e] : c = Carries[e][i]
    BY DEF Changes
  <2>2. PICK i \in DOMAIN Carries[e] : c = Carries[e][i]
    BY <2>1
  <2>3. c.msgs \in Seq(Msgs)
    <3> DEFINE q == [env |-> e, ci |-> i]
    <3>1. q.env = e /\ q.ci = i /\ Change(q) = c
      BY <2>2 DEF Change
    <3> HIDE DEF q
    <3> QED BY <2>2, <3>1, ChangeType
  <2> QED BY <2>3 DEF Keys
<1>4. SUFFICES ASSUME NEW c \in Changes, NEW i \in DOMAIN c.msgs,
                      event'[Key(c)] # NoEvent, event'[Key(c)].status = "PROCESSED",
                      event'[Key(c)].raw = c
               PROVE  row'[c.msgs[i]] # "none" /\ items'[c.msgs[i]] > 0
  BY DEF ProcessedIsQueued, IsProcessed
<1>5. CASE event[Key(c)] # NoEvent /\ event[Key(c)].status = "PROCESSED"
  <2>1. event[Key(c)].raw = c
    BY <1>1, <1>3, <1>4, <1>5 DEF Kept, EventsKept
  <2>2. row[c.msgs[i]] # "none" /\ items[c.msgs[i]] > 0
    BY <1>5, <2>1 DEF ProcessedIsQueued, IsProcessed
  <2>3. c.msgs[i] \in Msgs
    BY <1>3
  <2> QED BY <1>1, <1>2, <2>2, <2>3, SMT DEF Kept, RowsKept
<1>6. CASE ~(event[Key(c)] # NoEvent /\ event[Key(c)].status = "PROCESSED")
  <2>1. event'[Key(c)] # event[Key(c)]
    BY <1>4, <1>6
  <2>2. PICK p \in Posts : CaptureRawEvent(p) \/ MarkEventProcessed(p)
    BY ZenonT(30), <2>1 DEF Next, WebhookNext, Serve, Receive, FindCustomer, CreateCustomer, FindConversation,
       CreateConversation, InsertMessage, FindMessage, EnqueueInboundMessage,
       ApplyDeliveryStatus, RequestFails, DropJob, HandlerNext, TakeJob, LoadCart, AddToCart,
       CreateOrder, Escalate, Proceed, MarkProcessing, CheckKillSwitch, EndTurn, PersistCart,
       FindTicket, CreateTicket, UseReply, HandOver, RecordReply, StepFails, SendReply,
       MarkProcessed, MarkFailed, WorkerDies, Pause, Resume, webhookVars
  <2> DEFINE o == post[p]
             k == Key(Change(o))
  <2>3. Well(o) /\ Passed(o) /\ Stored(o)
    BY DEF BaseInv, TypeInv, Control, ItemInv
  <2>4. CASE CaptureRawEvent(p)
    <3>1. event' = event \/ event' = [event EXCEPT ![k] = [raw |-> Change(o), status |-> "PENDING"]]
      BY <2>4 DEF CaptureRawEvent
    <3> HIDE DEF k
    <3>2. event'[Key(c)].status = "PENDING"
      BY <1>2, <1>3, <2>1, <3>1
    <3> QED BY <1>4, <3>2
  <2>5. CASE MarkEventProcessed(p)
    <3>1. /\ o.pc = "mark"
          /\ event' = event \/ event' = [event EXCEPT ![k].status = "PROCESSED"]
          /\ UNCHANGED <<row, items>>
      BY <2>5 DEF MarkEventProcessed, chatVars
    <3>2. Key(c) = k
      <4> HIDE DEF k
      <4> QED BY <1>2, <1>3, <2>1, <3>1
    <3>3. /\ Change(o) \in Changes /\ Change(o).msgs \in Seq(Msgs)
          /\ o.at > Len(Change(o).msgs) /\ o.at \in Nat
      BY <2>3, <3>1, ChangeType DEF Well, PostType
    <3>4. Change(o).msgs = c.msgs
      BY <3>2, <3>3 DEF SameKeySameMessages
    <3>5. i < o.at
      BY <3>3, <3>4, SMT
    <3> QED BY <2>3, <3>1, <3>4, <3>5 DEF Passed, Waiting
  <2> QED BY <2>2, <2>4, <2>5
<1> QED BY <1>5, <1>6

(* No event is PROCESSED before each of its messages is stored and was put *)
(* to work, whatever requests die and however deliveries overlap, given    *)
(* that a message comes in one change only.                                *)
THEOREM ProcessedMeansQueued ==
  ASSUME SameKeySameMessages
  PROVE  Spec => []ProcessedIsQueued
<1>1. Init => ProcessedIsQueued
  BY ProcessedInit
<1>2. BaseInv /\ ProcessedIsQueued /\ [Next]_vars => ProcessedIsQueued'
  <2>1. ASSUME ProcessedIsQueued, UNCHANGED vars PROVE ProcessedIsQueued'
    BY <2>1 DEF ProcessedIsQueued, IsProcessed, vars, chatVars, webhookVars
  <2> QED BY <2>1, ProcessedStep
<1> QED BY <1>1, <1>2, BaseInvariant, PTL DEF Spec

-----------------------------------------------------------------------------
(* What a step of the webhook leaves to the worker.                        *)
LEMMA WebhookLeaves ==
  ASSUME BaseInv, WebhookNext
  PROVE  /\ UNCHANGED <<tickets, cart, sent>>
         /\ \A v \in Convs : conv'[v] = "ESCALATED" => conv[v] = "ESCALATED"
<1>1. UNCHANGED <<tickets, cart, sent>>
  BY DEF WebhookNext, Serve, Receive, CaptureRawEvent, FindCustomer, CreateCustomer,
     FindConversation, CreateConversation, InsertMessage, FindMessage, EnqueueInboundMessage,
     ApplyDeliveryStatus, MarkEventProcessed, RequestFails, DropJob, chatVars
<1>2. conv' = conv \/ \E u : conv' = [conv EXCEPT ![u] = "OPEN"]
  BY DEF WebhookNext, Serve, Receive, CaptureRawEvent, FindCustomer, CreateCustomer,
     FindConversation, CreateConversation, InsertMessage, FindMessage, EnqueueInboundMessage,
     ApplyDeliveryStatus, MarkEventProcessed, RequestFails, DropJob, chatVars
<1>3. conv \in [Convs -> {"none", "OPEN", "ESCALATED"}]
  BY DEF BaseInv, TypeInv, TypeOK, ChatTypeOK
<1> QED BY <1>1, <1>2, <1>3

(* The conversation of a busy slot stays the same.                         *)
LEMMA ConvKept ==
  ASSUME BaseInv, Kept, NEW s \in Slots, slot[s].pc # "idle"
  PROVE  Conv(s) \in Convs /\ home'[slot[s].msg] = Conv(s)
BY BusySlot DEF BaseInv, Kept, RowsKept, Conv

LEMMA SlotsTyped == BaseInv => slot \in [Slots -> SlotType] /\ \A s \in Slots : SoundSlot(slot[s])
BY DEF BaseInv, TypeInv, TypeOK, Control, HandlerTypeOK, SlotType

(* A slot comes to the reply of an escalated turn by an escalation that is *)
(* open, and to the hand-over by such a reply.                             *)
LEMMA PassTicket ==
  ASSUME BaseInv, BaseInv', NEW s \in Slots, Passes(s)
  PROVE  /\ slot'[s].pc = "handOver" => slot[s].pc = "reply" /\ slot[s].escalated
         /\ slot'[s].pc = "reply" /\ slot[s].escalated => tickets'[Conv(s)] > 0
<1>0. slot \in [Slots -> SlotType]
  BY SlotsTyped
<1>1. CASE EndTurn(s) \/ PersistCart(s)
  <2>1. \E step : Go(s, step) /\ step # "handOver" /\ (step = "reply" => ~slot[s].escalated)
    BY <1>1 DEF EndTurn, PersistCart, AfterCart
  <2> QED BY <1>0, <2>1 DEF Go
<1>2. CASE FindTicket(s)
  <2>1. /\ slot[s].pc = "ticket" /\ tickets' = tickets
        /\ \E step : Go(s, step) /\ step # "handOver" /\ (step = "reply" => tickets[Conv(s)] > 0)
    BY <1>2 DEF FindTicket, AfterTicketLookup, chatVars, At
  <2> QED BY <1>0, <2>1 DEF Go
<1>3. CASE CreateTicket(s)
  <2>1. /\ slot[s].pc = "newTicket" /\ Go(s, "reply")
        /\ tickets' = [tickets EXCEPT ![Conv(s)] = @ + 1]
    BY <1>3 DEF CreateTicket, At
  <2>2. Conv(s) \in Convs /\ tickets \in [Convs -> Nat]
    BY <2>1, BusySlot DEF BaseInv, TypeInv, TypeOK, ChatTypeOK
  <2>3. tickets'[Conv(s)] > 0
    <3> HIDE DEF Conv
    <3>1. tickets[Conv(s)] \in Nat /\ tickets'[Conv(s)] = tickets[Conv(s)] + 1
      BY <2>1, <2>2
    <3> QED BY <3>1, SMT
  <2> QED BY <1>0, <2>1, <2>3 DEF Go
<1>4. CASE UseReply(s)
  <2>1. /\ slot[s].pc = "reply"
        /\ \E step : Go(s, step) /\ step # "reply" /\ (step = "handOver" => slot[s].escalated)
    BY <1>4 DEF UseReply, At
  <2> QED BY <1>0, <2>1 DEF Go
<1>5. CASE MarkProcessing(s) \/ CheckKillSwitch(s) \/ HandOver(s) \/ RecordReply(s) \/ StepFails(s)
  <2>1. \E step : Go(s, step) /\ step \notin {"reply", "handOver"}
    BY <1>5 DEF MarkProcessing, CheckKillSwitch, HandOver, RecordReply, StepFails
  <2> QED BY <1>0, <2>1 DEF Go
<1> QED BY <1>1, <1>2, <1>3, <1>4, <1>5 DEF Passes

LEMMA TicketStep ==
  ASSUME BaseInv, TicketInv, Next
  PROVE  TicketInv'
<1>1. BaseInv' /\ Kept
  BY BaseNext
<1>2. \A v \in Convs : tickets[v] > 0 => tickets'[v] > 0
  BY <1>1, SMT DEF Kept, RowsKept, BaseInv, TypeInv, TypeOK, ChatTypeOK
<1>3. slot \in [Slots -> SlotType] /\ \A s \in Slots : SoundSlot(slot[s])
  BY SlotsTyped
<1>4. ASSUME NEW s \in Slots, slot'[s] = slot[s]
      PROVE  /\ (slot[s].pc = "handOver" => slot[s].escalated)'
             /\ (slot[s].pc \in {"reply", "handOver"} /\ slot[s].escalated
                   => tickets[Conv(s)] > 0)'
  <2>1. slot[s].pc # "idle" => Conv(s) \in Convs /\ home'[slot[s].msg] = Conv(s)
    BY <1>1, ConvKept
  <2> QED BY <1>2, <1>4, <2>1 DEF TicketInv, Conv
<1>5. CASE WebhookNext /\ UNCHANGED handlerVars
  <2>1. HandedOverIsQueued'
    BY <1>5, WebhookLeaves DEF TicketInv, HandedOverIsQueued
  <2>2. \A s \in Slots : slot'[s] = slot[s]
    BY <1>5 DEF handlerVars
  <2> QED BY <1>4, <2>1, <2>2 DEF TicketInv
<1>6. CASE \E s \in Slots : Acts(s)
  <2>1. PICK s \in Slots : Acts(s)
    BY <1>6
  <2>2. \A t \in Slots \ {s} : slot'[t] = slot[t]
    BY <1>3, <2>1, ActMoves DEF BaseInv
  <2>3. SUFFICES /\ HandedOverIsQueued'
                 /\ (slot[s].pc = "handOver" => slot[s].escalated)'
                 /\ (slot[s].pc \in {"reply", "handOver"} /\ slot[s].escalated
                       => tickets[Conv(s)] > 0)'
    BY <1>4, <2>2 DEF TicketInv
  <2>4. HandedOverIsQueued'
    <3>1. CASE conv' = conv
      BY <1>2, <3>1 DEF TicketInv, HandedOverIsQueued
    <3>2. CASE conv' # conv
      <4>1. HandOver(s)
        BY <2>1, <3>2 DEF Acts, TakeJob, Edits, LoadCart, AddToCart, CreateOrder, Escalate, Passes,
          MarkProcessing, CheckKillSwitch, EndTurn, PersistCart, FindTicket, CreateTicket,
          UseReply, RecordReply, StepFails, SendReply, Ends, MarkProcessed,
          MarkFailed, WorkerDies, chatVars
      <4>2. /\ slot[s].pc = "handOver" /\ tickets' = tickets
            /\ conv' = [conv EXCEPT ![Conv(s)] = "ESCALATED"]
        BY <4>1 DEF HandOver, At
      <4>3. tickets[Conv(s)] > 0
        BY <4>2 DEF TicketInv
      <4>4. conv \in [Convs -> {"none", "OPEN", "ESCALATED"}]
        BY DEF BaseInv, TypeInv, TypeOK, ChatTypeOK
      <4> QED BY <4>2, <4>3, <4>4 DEF TicketInv, HandedOverIsQueued
    <3> QED BY <3>1, <3>2
  <2>5. CASE Passes(s)
    <3>1. PICK q : SlotMoves(s, q) /\ Keeps(s, q) /\ Follows(slot[s].pc, q.pc)
      BY <1>3, <2>5, PassMoves DEF BaseInv, TypeInv, TypeOK
    <3>2. /\ slot'[s] = q /\ slot[s].pc # "idle"
          /\ q.msg = slot[s].msg /\ q.escalated = slot[s].escalated
      BY <1>3, <3>1 DEF SlotMoves, Keeps
    <3>3. Conv(s) \in Convs /\ home'[q.msg] = Conv(s)
      BY <1>1, <3>2, ConvKept
    <3>4. /\ q.pc = "handOver" => slot[s].pc = "reply" /\ slot[s].escalated
          /\ q.pc = "reply" /\ slot[s].escalated => tickets'[Conv(s)] > 0
      BY <1>1, <2>5, <3>2, PassTicket
    <3>5. slot[s].pc = "reply" /\ slot[s].escalated => tickets'[Conv(s)] > 0
      BY <1>2, <3>3 DEF TicketInv
    <3> QED BY <2>4, <3>2, <3>3, <3>4, <3>5 DEF Conv
  <2>6. CASE ~Passes(s)
    <3>1. slot'[s].pc \notin {"reply", "handOver"}
      <4>1. CASE \E m \in Msgs : TakeJob(s, m)
        BY <1>3, <4>1, TakeMoves
      <4>2. CASE Edits(s)
        <5>1. /\ ChatTypeOK /\ HandlerTypeOK /\ (slot[s].pc # "idle" => Conv(s) \in Convs)
          BY BusySlot DEF BaseInv, TypeInv, TypeOK
        <5> QED BY <1>3, <4>2, <5>1, EditMoves DEF SlotMoves
      <4>3. CASE SendReply(s)
        BY <1>3, <4>3, SendMoves DEF SlotMoves, BaseInv, TypeInv, TypeOK
      <4>4. CASE Ends(s)
        <5>1. slot' = [slot EXCEPT ![s] = IdleSlot]
          BY <4>4 DEF Ends, MarkProcessed, MarkFailed, Retry, WorkerDies
        <5> QED BY <1>3, <5>1 DEF IdleSlot
      <4> QED BY <2>1, <2>6, <4>1, <4>2, <4>3, <4>4 DEF Acts
    <3> QED BY <2>4, <3>1
  <2> QED BY <2>5, <2>6
<1>7. CASE Pause \/ Resume
  <2>1. UNCHANGED <<chatVars, slot>>
    BY <1>7 DEF Pause, Resume
  <2> QED BY <1>4, <2>1 DEF TicketInv, HandedOverIsQueued, chatVars
<1> QED BY <1>5, <1>6, <1>7 DEF Next, HandlerNext, Acts, Edits, Passes, Ends, Proceed

(* A conversation that was handed over is in the escalation queue,         *)
(* whatever turns fail, repeat or run side by side.                        *)
THEOREM HandedOverQueued == Spec => []HandedOverIsQueued
<1>1. Init => TicketInv
  BY DEF Init, ChatInit, HandlerInit, IdleSlot, TicketInv, HandedOverIsQueued
<1>2. BaseInv /\ TicketInv /\ [Next]_vars => TicketInv'
  <2>1. ASSUME TicketInv, UNCHANGED vars PROVE TicketInv'
    BY <2>1 DEF TicketInv, HandedOverIsQueued, Conv, vars, chatVars, handlerVars
  <2> QED BY <2>1, TicketStep
<1>3. TicketInv => HandedOverIsQueued
  BY DEF TicketInv
<1> QED BY <1>1, <1>2, <1>3, BaseInvariant, PTL DEF Spec

-----------------------------------------------------------------------------
(* One job at a time.                                                      *)
OneSlot == \A s, t \in Slots : s = t

(* Turns edit a copy; the rows change at their end.                        *)
LEMMA AloneEdits ==
  ASSUME BaseInv, AloneInv, NEW s \in Slots, Edits(s)
  PROVE  /\ UNCHANGED <<tickets, cart, serial, home>>
         /\ \E q : /\ SlotMoves(s, q) /\ q.pc = "turn"
                   /\ q.cart = Edited(q, cart[Conv(s)])
<1> DEFINE o == slot[s]
           n == cart[Conv(s)]
<1>1. /\ ChatTypeOK /\ HandlerTypeOK /\ SoundSlot(o)
      /\ o.pc # "idle" => Conv(s) \in Convs
  BY BusySlot DEF BaseInv, TypeInv, TypeOK, Control
<1>2. UNCHANGED <<chatVars, serial>> /\ o.pc \in {"load", "turn"}
  BY <1>1, EditMoves
<1>3. PICK q : /\ SlotMoves(s, q) /\ q.pc = "turn"
               /\ \/ /\ o.pc = "load" /\ q.cart = n
                     /\ q.plus = o.plus /\ q.cleared = o.cleared
                  \/ /\ o.pc = "turn" /\ q.cart = o.cart + 1
                     /\ q.plus = o.plus + 1 /\ q.cleared = o.cleared
                  \/ o.pc = "turn" /\ q.cart = 0 /\ q.plus = 0 /\ q.cleared
                  \/ /\ o.pc = "turn" /\ q.cart = o.cart
                     /\ q.plus = o.plus /\ q.cleared = o.cleared
  BY <1>1, EditMoves
<1>4. n \in Nat /\ o.plus \in Nat /\ o.cart \in Nat /\ o.cleared \in BOOLEAN
  <2>1. n \in 0..Available /\ o.plus \in 0..Available /\ o.cart \in 0..Available
        /\ o.cleared \in BOOLEAN
    BY <1>1, <1>2, SlotFieldTypes DEF ChatTypeOK
  <2> HIDE DEF n
  <2> QED BY <2>1, SMT
<1>5. /\ o.pc = "load" => o.plus = 0 /\ ~o.cleared
      /\ o.pc = "turn" => o.cart = Edited(o, n)
  BY <1>1 DEF SoundSlot, AloneInv
<1> HIDE DEF n, o
<1>6. q.cart = Edited(q, n)
  BY <1>3, <1>4, <1>5, SMT DEF Edited
<1> QED BY <1>2, <1>3, <1>6 DEF chatVars, n

LEMMA GoesTo ==
  ASSUME BaseInv, NEW s \in Slots, NEW step, Go(s, step)
  PROVE  slot'[s].pc = step
BY SlotsTyped DEF Go, SlotType

LEMMA AlonePass ==
  ASSUME BaseInv, BaseInv', AloneInv, NEW s \in Slots, Passes(s),
         NEW q, slot'[s] = q, Keeps(s, q)
  PROVE  OneOpenEscalation' /\ CartIsSerial'
         /\ (q.pc = "newTicket" => tickets'[Conv(s)] = 0)
         /\ (q.pc \in {"turn", "persist"} => q.cart = Edited(q, cart'[Conv(s)]))
<1> DEFINE o == slot[s]
           v == Conv(s)
<1>0. /\ slot \in [Slots -> SlotType] /\ SoundSlot(o)
      /\ tickets \in [Convs -> Nat] /\ cart \in [Convs -> 0..Available]
      /\ serial \in [Convs -> Nat]
  BY SlotsTyped DEF BaseInv, TypeInv, TypeOK, ChatTypeOK, HandlerTypeOK
<1>1. o.pc # "idle" => v \in Convs
  BY BusySlot DEF BaseInv
<1>2. /\ OneOpenEscalation /\ CartIsSerial
      /\ o.pc = "newTicket" => tickets[v] = 0
      /\ o.pc \in {"turn", "persist"} => o.cart = Edited(o, cart[v])
  BY DEF AloneInv
<1>3. /\ q.cart = o.cart /\ \A n : Edited(q, n) = Edited(o, n)
  BY DEF Keeps, Edited
<1>5. o.plus \in Nat
  <2>1. o.plus \in 0..Available
    BY <1>0, SlotFieldTypes
  <2> HIDE DEF o
  <2> QED BY <2>1, SMT
<1> HIDE DEF v
<1>6. CASE EndTurn(s)
  <2>1. /\ o.pc = "turn" /\ UNCHANGED <<cart, tickets>>
        /\ \E step : step # "newTicket" /\ Go(s, step)
        /\ serial' = IF Dirty(o) THEN serial ELSE [serial EXCEPT ![v] = Edited(o, @)]
    BY <1>6 DEF EndTurn, At, AfterCart, chatVars, v
  <2>2. q.pc # "newTicket"
    BY <2>1, GoesTo
  <2>3. ~Dirty(o) => Edited(o, serial[v]) = serial[v]
    <3>1. serial[v] \in Nat
      BY <1>0, <1>1, <2>1
    <3> HIDE DEF o
    <3> QED BY <1>5, <3>1, SMT DEF Dirty, Edited
  <2>4. serial' = serial
    BY <1>0, <2>1, <2>3
  <2> QED BY <1>2, <1>3, <2>1, <2>2, <2>4 DEF OneOpenEscalation, CartIsSerial, v
<1>7. CASE PersistCart(s)
  <2>1. /\ o.pc = "persist" /\ UNCHANGED tickets
        /\ \E step : step \notin {"newTicket", "turn", "persist"} /\ Go(s, step)
        /\ cart' = [cart EXCEPT ![v] = o.cart]
        /\ serial' = [serial EXCEPT ![v] = Edited(o, @)]
    BY <1>7 DEF PersistCart, At, AfterCart, v
  <2>2. q.pc \notin {"newTicket", "turn", "persist"}
    BY <2>1, GoesTo
  <2>3. cart'[v] = o.cart /\ serial'[v] = Edited(o, cart[v])
    BY <1>0, <1>1, <1>2, <2>1 DEF CartIsSerial
  <2>4. \A u \in Convs \ {v} : cart'[u] = cart[u] /\ serial'[u] = serial[u]
    BY <1>0, <2>1
  <2> QED BY <1>2, <2>1, <2>2, <2>3, <2>4 DEF OneOpenEscalation, CartIsSerial
<1>8. CASE FindTicket(s)
  <2>1. /\ UNCHANGED <<cart, tickets, serial>> /\ o.pc = "ticket"
        /\ \E step : /\ step \notin {"turn", "persist"} /\ Go(s, step)
                     /\ step = "newTicket" => ~(tickets[v] > 0)
    BY <1>8 DEF FindTicket, AfterTicketLookup, At, chatVars, v
  <2>2. q.pc \notin {"turn", "persist"} /\ (q.pc = "newTicket" => ~(tickets[v] > 0))
    BY <2>1, GoesTo
  <2>3. tickets[v] \in Nat
    BY <1>0, <1>1, <2>1
  <2>4. ~(tickets[v] > 0) => tickets[v] = 0
    BY <2>3, SMT
  <2> QED BY <1>2, <2>1, <2>2, <2>4 DEF OneOpenEscalation, CartIsSerial, v
<1>9. CASE CreateTicket(s)
  <2>1. /\ UNCHANGED <<cart, serial>> /\ Go(s, "reply") /\ o.pc = "newTicket"
        /\ tickets' = [tickets EXCEPT ![v] = @ + 1]
    BY <1>9 DEF CreateTicket, At, v
  <2>2. q.pc = "reply"
    BY <2>1, GoesTo
  <2>3. \A u \in Convs : tickets'[u] = IF u = v THEN 0 + 1 ELSE tickets[u]
    BY <1>0, <1>2, <2>1
  <2>4. OneOpenEscalation'
    <3> SUFFICES ASSUME NEW u \in Convs PROVE tickets'[u] <= 1
      BY DEF OneOpenEscalation
    <3>1. tickets'[u] = 1 \/ tickets'[u] = tickets[u]
      BY <2>3
    <3> QED BY <1>2, <3>1, SMT DEF OneOpenEscalation
  <2> QED BY <1>2, <2>1, <2>2, <2>4 DEF CartIsSerial
<1>10. CASE MarkProcessing(s) \/ CheckKillSwitch(s) \/ UseReply(s) \/ HandOver(s)
              \/ RecordReply(s) \/ StepFails(s)
  <2>1. /\ UNCHANGED <<cart, tickets, serial>>
        /\ \E step : step \notin {"newTicket", "turn", "persist"} /\ Go(s, step)
    BY <1>10 DEF MarkProcessing, CheckKillSwitch, UseReply, HandOver, RecordReply, StepFails,
       chatVars
  <2>2. q.pc \notin {"newTicket", "turn", "persist"}
    BY <2>1, GoesTo
  <2> QED BY <1>2, <2>1, <2>2 DEF OneOpenEscalation, CartIsSerial
<1> QED BY <1>6, <1>7, <1>8, <1>9, <1>10 DEF Passes

LEMMA AloneStep ==
  ASSUME OneSlot, BaseInv, AloneInv, Next
  PROVE  AloneInv'
<1>1. BaseInv' /\ Kept
  BY BaseNext
<1>2. slot \in [Slots -> SlotType] /\ \A s \in Slots : SoundSlot(slot[s])
  BY SlotsTyped
<1>3. ASSUME UNCHANGED <<tickets, cart, serial>>
      PROVE  OneOpenEscalation' /\ CartIsSerial'
  BY <1>3 DEF AloneInv, OneOpenEscalation, CartIsSerial
<1>4. ASSUME NEW s \in Slots, slot[s].pc # "idle"
      PROVE  Conv(s) \in Convs /\ home'[slot[s].msg] = Conv(s)
  BY <1>1, <1>4, ConvKept
<1>5. ASSUME UNCHANGED <<tickets, cart, serial, slot>>
      PROVE  AloneInv'
  <2>1. \A s \in Slots : slot[s].pc # "idle" => Conv(s)' = Conv(s)
    BY <1>4, <1>5 DEF Conv
  <2> QED BY <1>3, <1>5, <2>1 DEF AloneInv
<1>6. CASE WebhookNext /\ UNCHANGED handlerVars
  <2>1. UNCHANGED <<tickets, cart, serial, slot>>
    BY <1>6, WebhookLeaves DEF handlerVars
  <2> QED BY <1>5, <2>1
<1>7. CASE \E s \in Slots : Acts(s)
  <2>1. PICK s \in Slots : Acts(s)
    BY <1>7
  <2>2. \A t \in Slots : t = s
    BY DEF OneSlot
  <2>3. ASSUME UNCHANGED <<tickets, cart, serial>>,
               slot'[s].pc \notin {"newTicket", "turn", "persist"}
        PROVE  AloneInv'
    BY <1>3, <2>2, <2>3 DEF AloneInv
  <2>4. CASE \E m \in Msgs : TakeJob(s, m)
    <3>1. UNCHANGED <<tickets, cart, serial>>
      BY <2>4 DEF TakeJob, chatVars
    <3>2. slot'[s].pc = "mark"
      BY <1>2, <2>4, TakeMoves
    <3> QED BY <2>3, <3>1, <3>2
  <2>5. CASE Edits(s)
    <3>1. UNCHANGED <<tickets, cart, serial, home>>
      BY <2>5, AloneEdits
    <3>2. PICK q : SlotMoves(s, q) /\ q.pc = "turn" /\ q.cart = Edited(q, cart[Conv(s)])
      BY <2>5, AloneEdits
    <3>3. slot'[s] = q /\ q.msg = slot[s].msg
      BY <1>2, <3>2 DEF SlotMoves
    <3>4. Conv(s)' = Conv(s)
      BY <3>1, <3>3 DEF Conv
    <3>5. \A t \in Slots : /\ (slot[t].pc = "newTicket" => tickets[Conv(t)] = 0)'
                           /\ (slot[t].pc \in {"turn", "persist"}
                                 => slot[t].cart = Edited(slot[t], cart[Conv(t)]))'
      BY <2>2, <3>1, <3>2, <3>3, <3>4 DEF Edited
    <3> QED BY <1>3, <3>1, <3>5 DEF AloneInv
  <2>6. CASE Passes(s)
    <3>1. PICK q : SlotMoves(s, q) /\ Keeps(s, q) /\ Follows(slot[s].pc, q.pc)
      BY <1>2, <2>6, PassMoves DEF BaseInv, TypeInv, TypeOK
    <3>2. slot'[s] = q /\ slot[s].pc # "idle" /\ q.msg = slot[s].msg
      BY <1>2, <3>1 DEF SlotMoves, Keeps
    <3>3. Conv(s)' = Conv(s)
      BY <1>4, <3>2 DEF Conv
    <3>4. /\ OneOpenEscalation' /\ CartIsSerial'
          /\ q.pc = "newTicket" => tickets'[Conv(s)] = 0
          /\ q.pc \in {"turn", "persist"} => q.cart = Edited(q, cart'[Conv(s)])
      BY <1>1, <2>6, <3>1, <3>2, AlonePass
    <3>5. \A t \in Slots : /\ (slot[t].pc = "newTicket" => tickets[Conv(t)] = 0)'
                           /\ (slot[t].pc \in {"turn", "persist"}
                                 => slot[t].cart = Edited(slot[t], cart[Conv(t)]))'
      BY <2>2, <3>2, <3>3, <3>4 DEF Edited
    <3> QED BY <3>4, <3>5 DEF AloneInv
  <2>7. CASE SendReply(s)
    <3>1. UNCHANGED <<tickets, cart, serial>>
      BY <2>7 DEF SendReply
    <3>2. slot'[s].pc \in {"record", "cannedRow"}
      BY <1>2, <2>7, SendMoves DEF SlotMoves, BaseInv, TypeInv, TypeOK
    <3> QED BY <2>3, <3>1, <3>2
  <2>8. CASE Ends(s)
    <3>1. UNCHANGED <<tickets, cart, serial>> /\ slot' = [slot EXCEPT ![s] = IdleSlot]
      BY <2>8 DEF Ends, MarkProcessed, MarkFailed, Retry, WorkerDies, chatVars
    <3>2. slot'[s].pc = "idle"
      BY <1>2, <3>1 DEF IdleSlot
    <3> QED BY <2>3, <3>1, <3>2
  <2> QED BY <2>1, <2>4, <2>5, <2>6, <2>7, <2>8 DEF Acts
<1>8. CASE Pause \/ Resume
  <2>1. UNCHANGED <<tickets, cart, serial, slot>>
    BY <1>8 DEF Pause, Resume, chatVars
  <2> QED BY <1>5, <2>1
<1> QED BY <1>6, <1>7, <1>8 DEF Next, HandlerNext, Acts, Edits, Passes, Ends, Proceed

LEMMA AloneInvariant ==
  ASSUME OneSlot
  PROVE  Spec => []AloneInv
<1>1. Init => AloneInv
  BY SMT DEF Init, ChatInit, HandlerInit, IdleSlot, AloneInv, OneOpenEscalation, CartIsSerial
<1>2. BaseInv /\ AloneInv /\ [Next]_vars => AloneInv'
  <2>1. ASSUME AloneInv, UNCHANGED vars PROVE AloneInv'
    BY <2>1 DEF AloneInv, OneOpenEscalation, CartIsSerial, Conv, Edited, vars, chatVars, handlerVars
  <2> QED BY <2>1, AloneStep
<1> QED BY <1>1, <1>2, BaseInvariant, PTL DEF Spec

(* With one job at a time, retries and repeated deliveries leave one OPEN  *)
(* escalation per conversation; two slots can leave two.                   *)
THEOREM OneTicketAlone ==
  ASSUME OneSlot
  PROVE  Spec => []OneOpenEscalation
<1>1. AloneInv => OneOpenEscalation
  BY DEF AloneInv
<1> QED BY <1>1, AloneInvariant, PTL

(* With one job at a time no edit of a cart is lost, whatever turns fail   *)
(* or are repeated; two slots can lose one.                                *)
THEOREM CartSerialAlone ==
  ASSUME OneSlot
  PROVE  Spec => []CartIsSerial
<1>1. AloneInv => CartIsSerial
  BY DEF AloneInv
<1> QED BY <1>1, AloneInvariant, PTL

-----------------------------------------------------------------------------
(* Failures come before the reply is sent, and finished jobs keep their id.*)
FailsBeforeSend == Faults \cap {"record", "crash", "evict"} = {}

(* A request only makes jobs wait that were not there.                     *)
LEMMA WebhookJobs ==
  ASSUME FailsBeforeSend, BaseInv, WebhookNext
  PROVE  sent' = sent /\ \A m \in Msgs : job'[m] = job[m] \/ job[m] = "none"
<1>1. sent' = sent
  BY WebhookLeaves
<1>2. job \in [Msgs -> {"none", "wait", "active", "done", "failed"}]
  BY DEF BaseInv, TypeInv, TypeOK, WebhookTypeOK
<1>3. ~\E m \in Msgs : DropJob(m)
  BY DEF FailsBeforeSend, DropJob, Lapse
<1>4. CASE \E p \in Posts : EnqueueInboundMessage(p)
  <2>1. PICK p \in Posts : EnqueueInboundMessage(p)
    BY <1>4
  <2>2. \/ job' = job
        \/ /\ job[Message(post[p])] = "none"
           /\ job' = [job EXCEPT ![Message(post[p])] = "wait"]
    BY <2>1 DEF EnqueueInboundMessage, Enqueueable
  <2> QED BY <1>1, <1>2, <2>2
<1>5. CASE ~\E p \in Posts : EnqueueInboundMessage(p)
  <2>1. job' = job
    BY <1>3, <1>5 DEF WebhookNext, Serve, Receive, CaptureRawEvent, FindCustomer, CreateCustomer,
       FindConversation, CreateConversation, InsertMessage, FindMessage,
       ApplyDeliveryStatus, MarkEventProcessed, RequestFails
  <2> QED BY <1>1, <2>1
<1> QED BY <1>4, <1>5

(* A slot that goes on with its job before the send has not sent before.   *)
LEMMA SendGoes ==
  ASSUME BaseInv, SendInv, NEW s \in Slots, NEW q, UNCHANGED <<sent, job>>,
         slot' = [slot EXCEPT ![s] = q],
         q.pc # "idle" => q.msg = slot[s].msg /\ slot[s].pc # "idle",
         q.pc \in Unsent => slot[s].pc \in Unsent
  PROVE  SendInv'
<1>1. /\ slot'[s] = q
      /\ \A t \in Slots \ {s} : slot'[t] = slot[t]
  BY SlotsTyped
<1>2. AnsweredOnce'
  BY DEF SendInv, AnsweredOnce
<1>3. \A t \in Slots : slot'[t].pc # "idle" => slot'[t].msg = slot[t].msg /\ slot[t].pc # "idle"
  BY <1>1
<1>4. \A t \in Slots : slot'[t].pc \in Unsent => slot[t].pc \in Unsent
  BY <1>1
<1>5. \A x : x \in Unsent => x # "idle"
  BY DEF Unsent
<1>6. \A t \in Slots : /\ (slot[t].pc # "idle" => job[slot[t].msg] = "active")'
                       /\ (slot[t].pc \in Unsent => sent[slot[t].msg] = 0)'
  BY <1>3, <1>4, <1>5 DEF SendInv, Unsent
<1>7. \A t, u \in Slots :
        (slot[t].pc # "idle" /\ slot[u].pc # "idle" /\ slot[t].msg = slot[u].msg => t = u)'
  BY <1>1, <1>3 DEF SendInv
<1> QED BY <1>2, <1>6, <1>7 DEF SendInv

LEMMA SendStep ==
  ASSUME FailsBeforeSend, BaseInv, SendInv, Next
  PROVE  SendInv'
<1>1. slot \in [Slots -> SlotType] /\ \A s \in Slots : SoundSlot(slot[s])
  BY SlotsTyped
<1>2. /\ job \in [Msgs -> {"none", "wait", "active", "done", "failed"}]
      /\ sent \in [Msgs -> Nat] /\ ChatTypeOK /\ HandlerTypeOK
  BY DEF BaseInv, TypeInv, TypeOK, WebhookTypeOK, ChatTypeOK
<1>3. \A s \in Slots : slot[s].pc # "idle" => slot[s].msg \in Msgs
  BY BusySlot DEF BaseInv
<1>4. CASE WebhookNext /\ UNCHANGED handlerVars
  <2>1. slot' = slot
    BY <1>4 DEF handlerVars
  <2>2. sent' = sent /\ \A m \in Msgs : job'[m] = job[m] \/ job[m] = "none"
    BY <1>4, WebhookJobs
  <2>3. \A m \in Msgs : (job[m] \in {"none", "wait"} => sent[m] = 0)'
    BY <2>2 DEF SendInv
  <2>4. \A s \in Slots : (slot[s].pc # "idle" => job[slot[s].msg] = "active")'
    BY <1>3, <2>1, <2>2 DEF SendInv
  <2> QED BY <2>1, <2>2, <2>3, <2>4 DEF SendInv, AnsweredOnce
<1>5. CASE \E s \in Slots : Acts(s)
  <2>1. PICK s \in Slots : Acts(s)
    BY <1>5
  <2>2. CASE \E m \in Msgs : TakeJob(s, m)
    <3>1. PICK m \in Msgs : TakeJob(s, m)
      BY <2>2
    <3>2. job[m] = "wait" /\ job' = [job EXCEPT ![m] = "active"] /\ sent' = sent
      BY <3>1 DEF TakeJob, chatVars
    <3>3. slot'[s].pc = "mark" /\ slot'[s].msg = m /\ \A t \in Slots \ {s} : slot'[t] = slot[t]
      BY <1>1, <3>1, TakeMoves
    <3>4. \A t \in Slots : slot[t].pc # "idle" => slot[t].msg # m
      BY <3>2 DEF SendInv
    <3>5. \A t \in Slots : /\ (slot[t].pc # "idle" => job[slot[t].msg] = "active")'
                           /\ (slot[t].pc \in Unsent => sent[slot[t].msg] = 0)'
      <4> SUFFICES ASSUME NEW t \in Slots
                   PROVE  /\ slot'[t].pc # "idle" => job'[slot'[t].msg] = "active"
                          /\ slot'[t].pc \in Unsent => sent'[slot'[t].msg] = 0
        BY DEF Unsent
      <4>1. CASE t = s
        BY <1>2, <3>2, <3>3, <4>1 DEF SendInv
      <4>2. CASE t # s
        BY <1>2, <1>3, <3>2, <3>3, <3>4, <4>2 DEF SendInv, Unsent
      <4> QED BY <4>1, <4>2
    <3>6. \A t, u \in Slots :
            (slot[t].pc # "idle" /\ slot[u].pc # "idle" /\ slot[t].msg = slot[u].msg => t = u)'
      BY <3>3, <3>4 DEF SendInv
    <3>7. \A n \in Msgs : (job[n] \in {"none", "wait"} => sent[n] = 0)'
      BY <1>2, <3>2 DEF SendInv
    <3> QED BY <3>2, <3>5, <3>6, <3>7 DEF SendInv, AnsweredOnce
  <2>3. CASE Edits(s)
    <3>1. UNCHANGED <<sent, job>> /\ slot[s].pc \in {"load", "turn"}
          /\ \E q : SlotMoves(s, q)
      BY <1>1, <1>2, <2>3, BusySlot, EditMoves DEF chatVars, webhookVars, BaseInv
    <3>2. slot[s].pc \in Unsent
      BY <3>1 DEF Unsent, SlotSteps
    <3> QED BY <3>1, <3>2, SendGoes DEF SlotMoves
  <2>4. CASE Passes(s)
    <3>1. UNCHANGED <<sent, job>>
      BY <2>4 DEF Passes, MarkProcessing, CheckKillSwitch, EndTurn, PersistCart, FindTicket,
         CreateTicket, UseReply, HandOver, RecordReply, StepFails, chatVars, webhookVars
    <3>2. PICK q : SlotMoves(s, q) /\ Follows(slot[s].pc, q.pc)
      BY <1>1, <1>2, <2>4, PassMoves
    <3>3. slot'[s] = q
      BY <1>1, <3>2 DEF SlotMoves
    <3>4. slot[s].pc \in {"record", "cannedRow", "finish"} => q.pc = "finish"
      <4>1. CASE StepFails(s)
        BY <4>1 DEF StepFails, FailsBeforeSend, Lapse
      <4>2. CASE ~StepFails(s)
        <5> SUFFICES ASSUME slot[s].pc \in {"record", "cannedRow", "finish"} PROVE q.pc = "finish"
          OBVIOUS
        <5>1. Go(s, "finish")
          BY <2>4, <4>2 DEF Passes, MarkProcessing, CheckKillSwitch, EndTurn, PersistCart,
             FindTicket, CreateTicket, UseReply, HandOver, RecordReply, At
        <5> QED BY <3>3, <5>1, GoesTo
      <4> QED BY <4>1, <4>2
    <3>5. slot[s].pc # "idle"
      BY <3>2 DEF Follows
    <3>6. q.pc \in Unsent => slot[s].pc \in Unsent
      BY <1>1, <3>4, <3>5 DEF Unsent, SlotType
    <3> QED BY <3>1, <3>2, <3>6, SendGoes DEF SlotMoves
  <2>5. CASE SendReply(s)
    <3> DEFINE m == slot[s].msg
    <3>1. /\ slot[s].pc \in {"send", "canned"} /\ sent' = [sent EXCEPT ![m] = @ + 1]
          /\ job' = job
      BY <2>5 DEF SendReply, webhookVars
    <3>2. m \in Msgs /\ sent[m] = 0 /\ job[m] = "active"
      BY <1>3, <3>1 DEF SendInv, Unsent, SlotSteps
    <3>3. /\ slot'[s].pc \in {"record", "cannedRow"} /\ slot'[s].msg = m
          /\ \A t \in Slots \ {s} : slot'[t] = slot[t]
      BY <1>1, <1>2, <2>5, SendMoves DEF SlotMoves
    <3>4. \A t \in Slots \ {s} : slot[t].pc # "idle" => slot[t].msg # m
      BY <3>1 DEF SendInv
    <3> HIDE DEF m
    <3>5. /\ sent'[m] = 1 /\ \A n \in Msgs \ {m} : sent'[n] = sent[n]
      <4>1. sent'[m] = 0 + 1 /\ \A n \in Msgs \ {m} : sent'[n] = sent[n]
        BY <1>2, <3>1, <3>2
      <4> QED BY <4>1, SMT
    <3>6. AnsweredOnce'
      <4> SUFFICES ASSUME NEW n \in Msgs PROVE sent'[n] <= 1
        BY DEF AnsweredOnce
      <4>1. sent'[n] = 1 \/ sent'[n] = sent[n]
        BY <3>5
      <4> QED BY <4>1, SMT DEF SendInv, AnsweredOnce
    <3>7. \A n \in Msgs : (job[n] \in {"none", "wait"} => sent[n] = 0)'
      BY <3>1, <3>2, <3>5 DEF SendInv
    <3>8. \A t \in Slots : /\ (slot[t].pc # "idle" => job[slot[t].msg] = "active")'
                           /\ (slot[t].pc \in Unsent => sent[slot[t].msg] = 0)'
      <4> SUFFICES ASSUME NEW t \in Slots
                   PROVE  /\ slot'[t].pc # "idle" => job'[slot'[t].msg] = "active"
                          /\ slot'[t].pc \in Unsent => sent'[slot'[t].msg] = 0
        BY DEF Unsent
      <4>1. CASE t = s
        BY <3>1, <3>2, <3>3, <4>1 DEF Unsent
      <4>2. CASE t # s
        BY <1>3, <3>1, <3>3, <3>4, <3>5, <4>2 DEF SendInv, Unsent
      <4> QED BY <4>1, <4>2
    <3>9. \A t, u \in Slots :
            (slot[t].pc # "idle" /\ slot[u].pc # "idle" /\ slot[t].msg = slot[u].msg => t = u)'
      BY <3>3, <3>4 DEF SendInv
    <3> QED BY <3>6, <3>7, <3>8, <3>9 DEF SendInv
  <2>6. CASE Ends(s)
    <3> DEFINE m == slot[s].msg
    <3>1. slot[s].pc # "idle" /\ sent' = sent /\ slot' = [slot EXCEPT ![s] = IdleSlot]
      BY <2>6 DEF Ends, MarkProcessed, MarkFailed, Retry, WorkerDies, At, chatVars
    <3>2. \/ job' = [job EXCEPT ![m] = "done"] \/ job' = [job EXCEPT ![m] = "failed"]
          \/ slot[s].pc = "fail" /\ job' = [job EXCEPT ![m] = "wait"]
      BY <2>6 DEF Ends, MarkProcessed, MarkFailed, Retry, WorkerDies, Lapse, FailsBeforeSend, At
    <3>3. m \in Msgs /\ (slot[s].pc = "fail" => sent[m] = 0)
      BY <1>3, <3>1 DEF SendInv, Unsent, SlotSteps
    <3>4. \A t \in Slots \ {s} : slot[t].pc # "idle" => slot[t].msg # m
      BY <3>1 DEF SendInv
    <3>5. slot'[s].pc = "idle" /\ \A t \in Slots \ {s} : slot'[t] = slot[t]
      BY <1>1, <3>1 DEF IdleSlot
    <3> HIDE DEF m
    <3>6. \A n \in Msgs \ {m} : job'[n] = job[n]
      BY <1>2, <3>2
    <3>7. \A n \in Msgs : (job[n] \in {"none", "wait"} => sent[n] = 0)'
      BY <1>2, <3>1, <3>2, <3>3 DEF SendInv
    <3>8. \A t \in Slots : /\ (slot[t].pc # "idle" => job[slot[t].msg] = "active")'
                           /\ (slot[t].pc \in Unsent => sent[slot[t].msg] = 0)'
      BY <1>3, <3>1, <3>4, <3>5, <3>6 DEF SendInv, Unsent
    <3>9. \A t, u \in Slots :
            (slot[t].pc # "idle" /\ slot[u].pc # "idle" /\ slot[t].msg = slot[u].msg => t = u)'
      BY <3>5 DEF SendInv
    <3> QED BY <3>1, <3>7, <3>8, <3>9 DEF SendInv, AnsweredOnce
  <2> QED BY <2>1, <2>2, <2>3, <2>4, <2>5, <2>6 DEF Acts
<1>6. CASE Pause \/ Resume
  <2>1. UNCHANGED <<sent, job, slot>>
    BY <1>6 DEF Pause, Resume, chatVars, webhookVars
  <2> QED BY <2>1 DEF SendInv, AnsweredOnce
<1> QED BY <1>4, <1>5, <1>6 DEF Next, HandlerNext, Acts, Edits, Passes, Ends, Proceed

(* A message is answered once, however often it is delivered and its job   *)
(* is tried, while every failure comes before the reply is sent and        *)
(* finished jobs keep their id.                                            *)
THEOREM AnsweredOnceEach ==
  ASSUME FailsBeforeSend
  PROVE  Spec => []AnsweredOnce
<1>1. Init => SendInv
  <2> SUFFICES ASSUME Init PROVE SendInv
    OBVIOUS
  <2>1. \A m \in Msgs : sent[m] = 0
    BY DEF Init, ChatInit
  <2>2. \A s \in Slots : slot[s].pc = "idle"
    BY DEF Init, HandlerInit, IdleSlot
  <2> QED BY <2>1, <2>2, SMT DEF SendInv, AnsweredOnce, Unsent
<1>2. BaseInv /\ SendInv /\ [Next]_vars => SendInv'
  <2>1. ASSUME SendInv, UNCHANGED vars PROVE SendInv'
    BY <2>1 DEF SendInv, AnsweredOnce, vars, chatVars, webhookVars, handlerVars
  <2> QED BY <2>1, SendStep
<1>3. SendInv => AnsweredOnce
  BY DEF SendInv
<1> QED BY <1>1, <1>2, <1>3, BaseInvariant, PTL DEF Spec

-----------------------------------------------------------------------------
(* No two changes share an event key, as the statuses of one reply do.     *)
OneChangePerKey == \A c, d \in Changes : Key(c) = Key(d) => c = d

HasEvent(e, i) == event[Key(Carries[e][i])] # NoEvent

(* A request has stored the changes before the one it works on.            *)
AckInv ==
  /\ \A k \in Keys : event[k] # NoEvent => Key(event[k].raw) = k
  /\ \A e \in Envelopes : acked[e] => \A i \in DOMAIN Carries[e] : HasEvent(e, i)
  /\ \A p \in Posts : post[p].pc # "idle" =>
       \A i \in DOMAIN Carries[post[p].env] : i < post[p].ci => HasEvent(post[p].env, i)

LEMMA HasKept ==
  ASSUME EventsKept, NEW e \in Envelopes, NEW i \in DOMAIN Carries[e], HasEvent(e, i)
  PROVE  HasEvent(e, i)'
<1>1. Key(Carries[e][i]) \in Keys
  BY DEF Changes, Keys
<1> QED BY <1>1 DEF HasEvent, EventsKept

LEMMA IndexType ==
  ASSUME NEW e \in Envelopes
  PROVE  DOMAIN Carries[e] = 1..Len(Carries[e]) /\ Len(Carries[e]) \in Nat
<1> DEFINE T == [msgs : Seq(Msgs), statuses : Seq(Statuses)]
<1>1. Carries[e] \in Seq(T)
  BY Constants
<1> HIDE DEF T
<1> QED BY <1>1

(* What a request writes to the raw store it stores under its own key.     *)
LEMMA RequestRaw ==
  ASSUME BaseInv, EventsKept, NEW p \in Posts, Requests(p),
         NEW k \in Keys, event'[k] # NoEvent
  PROVE  event[k] # NoEvent \/ Key(event'[k].raw) = k
<1>1. CASE CaptureRawEvent(p)
  <2> DEFINE c == Change(post[p])
             r == [raw |-> c, status |-> "PENDING"]
  <2>1. event' = event \/ event' = [event EXCEPT ![Key(c)] = r]
    BY <1>1 DEF CaptureRawEvent
  <2>2. r.raw = c
    OBVIOUS
  <2>3. event \in [Keys -> EventType \cup {NoEvent}]
    BY DEF BaseInv, TypeInv, TypeOK, WebhookTypeOK
  <2> HIDE DEF r, c
  <2> QED BY <2>1, <2>2, <2>3
<1>2. CASE MarkEventProcessed(p)
  <2>1. event[Key(Change(post[p]))] # NoEvent
    BY <1>2 DEF MarkEventProcessed, BaseInv, TypeInv, Control, Stored, Waiting
  <2>2. \/ event' = event
        \/ event' = [event EXCEPT ![Key(Change(post[p]))].status = "PROCESSED"]
    BY <1>2 DEF MarkEventProcessed
  <2>3. event \in [Keys -> EventType \cup {NoEvent}]
    BY DEF BaseInv, TypeInv, TypeOK, WebhookTypeOK
  <2> QED BY <2>1, <2>2, <2>3
<1>3. CASE ~CaptureRawEvent(p) /\ ~MarkEventProcessed(p)
  <2>1. event' = event
    BY <1>3 DEF Requests, Serve, Receive, FindCustomer, CreateCustomer,
       FindConversation, CreateConversation, InsertMessage, FindMessage, EnqueueInboundMessage,
       ApplyDeliveryStatus, RequestFails
  <2> QED BY <2>1
<1> QED BY <1>1, <1>2, <1>3

(* A request that is through with its change goes to the next or answers.  *)
LEMMA NextAcks ==
  ASSUME BaseInv, AckInv, EventsKept, NEW p \in Posts, post[p].pc # "idle", NextChange(p),
         event[Key(Change(post[p]))] # NoEvent
  PROVE  /\ \A e \in Envelopes : (acked[e] => \A i \in DOMAIN Carries[e] : HasEvent(e, i))'
         /\ \E q : /\ post' = [post EXCEPT ![p] = q]
                   /\ q.pc # "idle" => /\ q.env \in Envelopes
                                       /\ \A i \in DOMAIN Carries[q.env] :
                                            i < q.ci => HasEvent(q.env, i)'
<1>1. PICK o : o = post[p]
  OBVIOUS
<1>2. o.env \in Envelopes /\ o.ci \in DOMAIN Carries[o.env] /\ HasEvent(o.env, o.ci)
  BY <1>1 DEF BaseInv, TypeInv, Control, Well, Change, HasEvent
<1>3. DOMAIN Carries[o.env] = 1..Len(Carries[o.env]) /\ Len(Carries[o.env]) \in Nat
  BY <1>2, IndexType
<1>4. \A i \in DOMAIN Carries[o.env] : i < o.ci + 1 => HasEvent(o.env, i)'
  <2> SUFFICES ASSUME NEW i \in DOMAIN Carries[o.env], i < o.ci + 1 PROVE HasEvent(o.env, i)'
    OBVIOUS
  <2>1. i < o.ci \/ i = o.ci
    BY <1>2, <1>3, SMT
  <2>2. HasEvent(o.env, i)
    BY <1>1, <1>2, <2>1 DEF AckInv
  <2> QED BY <1>2, <2>2, HasKept
<1>5. ASSUME NEW e \in Envelopes, acked[e], NEW i \in DOMAIN Carries[e] PROVE HasEvent(e, i)'
  BY <1>5, HasKept DEF AckInv
<1>6. acked \in [Envelopes -> BOOLEAN]
  BY DEF BaseInv, TypeInv, TypeOK, WebhookTypeOK
<1>7. CASE o.ci < Len(Carries[o.env])
  <2> DEFINE q == [IdlePost EXCEPT !.pc = "capture", !.env = o.env, !.ci = o.ci + 1]
  <2>1. post' = [post EXCEPT ![p] = q] /\ acked' = acked
    BY <1>1, <1>7 DEF NextChange
  <2>2. q.env = o.env /\ q.ci = o.ci + 1
    BY SMT DEF IdlePost
  <2> HIDE DEF q
  <2> QED BY <1>2, <1>4, <1>5, <2>1, <2>2
<1>8. CASE ~(o.ci < Len(Carries[o.env]))
  <2>1. post' = [post EXCEPT ![p] = IdlePost] /\ acked' = [acked EXCEPT ![o.env] = TRUE]
    BY <1>1, <1>8 DEF NextChange
  <2>2. IdlePost.pc = "idle"
    BY DEF IdlePost
  <2>3. \A i \in DOMAIN Carries[o.env] : i < o.ci + 1
    BY <1>2, <1>3, <1>8, SMT
  <2>4. ASSUME NEW e \in Envelopes, acked'[e], NEW i \in DOMAIN Carries[e] PROVE HasEvent(e, i)'
    <3>1. CASE e = o.env
      BY <1>4, <2>3, <2>4, <3>1
    <3>2. CASE e # o.env
      <4>1. acked[e]
        BY <1>6, <2>1, <2>4, <3>2
      <4> QED BY <1>5, <2>4, <4>1
    <3> QED BY <3>1, <3>2
  <2> QED BY <2>1, <2>2, <2>4
<1> QED BY <1>7, <1>8

(* The steps of a message do not begin a change.                           *)
LEMMA PrepareStays ==
  ASSUME NEW p \in Posts, post \in [Posts -> PostType],
         FindCustomer(p) \/ CreateCustomer(p) \/ FindConversation(p) \/ CreateConversation(p)
           \/ InsertMessage(p) \/ FindMessage(p)
  PROVE  post'[p].pc # "capture"
<1>1. \/ post' = [post EXCEPT ![p] = IdlePost]
      \/ \E step \in OnMessage : post' = [post EXCEPT ![p] = Goto(post[p], step)]
      \/ \E v : post' = [post EXCEPT ![p] = [Goto(post[p], "insert") EXCEPT !.conv = v]]
  BY DEF FindCustomer, CreateCustomer, FindConversation, CreateConversation,
     InsertMessage, FindMessage, AfterDuplicate, OnMessage
<1>2. IdlePost.pc = "idle" /\ "capture" \notin OnMessage
  BY DEF IdlePost, OnMessage
<1>3. \A step : Goto(post[p], step).pc = step
  BY DEF Goto, PostType
<1>4. \A v : [Goto(post[p], "insert") EXCEPT !.conv = v].pc = "insert"
  BY SMT DEF Goto, PostType
<1>5. \E q : post' = [post EXCEPT ![p] = q] /\ q.pc # "capture"
  <2>1. CASE post' = [post EXCEPT ![p] = IdlePost]
    BY <1>2, <2>1
  <2>2. ASSUME NEW step \in OnMessage, post' = [post EXCEPT ![p] = Goto(post[p], step)]
        PROVE  \E q : post' = [post EXCEPT ![p] = q] /\ q.pc # "capture"
    BY <1>2, <1>3, <2>2
  <2>3. ASSUME NEW v, post' = [post EXCEPT ![p] = [Goto(post[p], "insert") EXCEPT !.conv = v]]
        PROVE  \E q : post' = [post EXCEPT ![p] = q] /\ q.pc # "capture"
    <3> DEFINE q == [Goto(post[p], "insert") EXCEPT !.conv = v]
    <3>1. q.pc = "insert"
      BY <1>4
    <3> HIDE DEF q
    <3> QED BY <2>3, <3>1 DEF q
  <2> QED BY <1>1, <2>1, <2>2, <2>3
<1> QED BY <1>5

LEMMA AckStep ==
  ASSUME BaseInv, AckInv, Next
  PROVE  AckInv'
<1>1. BaseInv' /\ Kept
  BY BaseNext
<1>2. EventsKept /\ post \in [Posts -> PostType] /\ acked \in [Envelopes -> BOOLEAN]
  BY <1>1 DEF Kept, BaseInv, TypeInv, TypeOK, WebhookTypeOK, PostType
<1>3. ASSUME NEW q, q.env \in Envelopes,
             \A i \in DOMAIN Carries[q.env] : i < q.ci => HasEvent(q.env, i)
      PROVE  \A i \in DOMAIN Carries[q.env] : i < q.ci => HasEvent(q.env, i)'
  BY <1>2, <1>3, HasKept
<1>4. \A p \in Posts : post[p].pc # "idle" =>
        /\ post[p].env \in Envelopes
        /\ \A i \in DOMAIN Carries[post[p].env] : i < post[p].ci => HasEvent(post[p].env, i)
  BY DEF AckInv, BaseInv, TypeInv, Control, Well
<1>5. \A e \in Envelopes : acked[e] => \A i \in DOMAIN Carries[e] : HasEvent(e, i)'
  BY <1>2, HasKept DEF AckInv
<1>6. ASSUME UNCHANGED <<event, acked, post>> PROVE AckInv'
  BY <1>6 DEF AckInv, HasEvent
<1>7. CASE \E p \in Posts : Requests(p)
  <2>1. PICK p \in Posts : Requests(p)
    BY <1>7
  <2>2. ASSUME NEW k \in Keys, event'[k] # NoEvent PROVE Key(event'[k].raw) = k
    BY <1>2, <2>1, <2>2, RequestRaw DEF AckInv, EventsKept
  <2>3. /\ \A e \in Envelopes : acked'[e] => \A i \in DOMAIN Carries[e] : HasEvent(e, i)'
        /\ \E q : /\ post' = [post EXCEPT ![p] = q]
                  /\ q.pc # "idle" => /\ q.env \in Envelopes
                                      /\ \A i \in DOMAIN Carries[q.env] :
                                           i < q.ci => HasEvent(q.env, i)'
    <3>1. PICK o : o = post[p]
      OBVIOUS
    <3>2. CASE NextChange(p) /\ post[p].pc # "idle" /\ event[Key(Change(post[p]))] # NoEvent
      BY <1>2, <3>2, NextAcks
    <3>3. CASE \E e \in Envelopes : Receive(p, e)
      <4>1. PICK e \in Envelopes : Receive(p, e)
        BY <3>3
      <4> DEFINE q == [IdlePost EXCEPT !.pc = "capture", !.env = e]
      <4>2. post' = [post EXCEPT ![p] = q] /\ acked' = acked
        BY <4>1 DEF Receive
      <4>3. q.env = e /\ q.ci = 1
        BY SMT DEF IdlePost
      <4>4. \A i \in DOMAIN Carries[e] : ~(i < 1)
        BY IndexType, SMT
      <4> HIDE DEF q
      <4> QED BY <1>5, <4>2, <4>3, <4>4
    <3>4. ASSUME acked' = acked, NEW q, Moves(p, q), q.pc \notin Waiting \/ q.pc = "idle"
          PROVE  /\ \A e \in Envelopes : acked'[e] => \A i \in DOMAIN Carries[e] : HasEvent(e, i)'
                 /\ \E r : /\ post' = [post EXCEPT ![p] = r]
                           /\ r.pc # "idle" => /\ r.env \in Envelopes
                                               /\ \A i \in DOMAIN Carries[r.env] :
                                                    i < r.ci => HasEvent(r.env, i)'
      <4>1. post' = [post EXCEPT ![p] = q]
        BY <3>4 DEF Moves
      <4>2. q.pc # "idle" => q.env = o.env /\ q.ci = o.ci /\ o.pc # "idle"
        BY <3>1, <3>4 DEF Moves, SamePlace
      <4>3. o.pc # "idle" => \A i \in DOMAIN Carries[o.env] : i < o.ci => HasEvent(o.env, i)'
        BY <1>3, <1>4, <3>1
      <4> QED BY <1>4, <1>5, <3>1, <3>4, <4>1, <4>2, <4>3
    <3>5. WebhookTypeOK /\ ChatTypeOK /\ Well(o) /\ Stored(o)
      BY <3>1 DEF BaseInv, TypeInv, TypeOK, Control
    <3>6. CASE CaptureRawEvent(p)
      <4>1. o.pc = "capture"
        BY <3>1, <3>6 DEF CaptureRawEvent
      <4>2. CASE event[Key(Change(o))] # NoEvent /\ event[Key(Change(o))].status = "PROCESSED"
        BY <3>1, <3>2, <3>6, <4>1, <4>2 DEF CaptureRawEvent
      <4>3. CASE ~(event[Key(Change(o))] # NoEvent /\ event[Key(Change(o))].status = "PROCESSED")
        <5>1. acked' = acked /\ post' = [post EXCEPT ![p] = Item(o, 1)]
          BY <3>1, <3>6, <4>3 DEF CaptureRawEvent
        <5>2. Well(Item(o, 1)) /\ Item(o, 1).pc \in {"customer", "status", "mark"}
          BY <3>5, <4>1, ItemWell
        <5>3. SamePlace(Item(o, 1), o)
          BY <3>5, ItemFields DEF Well, SamePlace
        <5> QED BY <3>1, <3>4, <4>1, <5>1, <5>2, <5>3 DEF Moves, Waiting
      <4> QED BY <4>2, <4>3
    <3>7. CASE FindCustomer(p) \/ CreateCustomer(p) \/ FindConversation(p)
                 \/ CreateConversation(p) \/ InsertMessage(p) \/ FindMessage(p)
      <4>1. acked' = acked
        BY <3>7 DEF FindCustomer, CreateCustomer, FindConversation, CreateConversation,
           InsertMessage, FindMessage
      <4>2. PICK q : Moves(p, q)
        BY <3>1, <3>5, <3>7, PrepareMoves
      <4>3. post'[p].pc # "capture"
        BY <1>2, <3>1, <3>5, <3>7, PrepareStays
      <4>4. q.pc \notin Waiting \/ q.pc = "idle"
        BY <1>2, <4>2, <4>3 DEF Moves, Waiting
      <4> QED BY <3>4, <4>1, <4>2, <4>4
    <3>8. CASE EnqueueInboundMessage(p) \/ ApplyDeliveryStatus(p)
      <4>1. acked' = acked
        BY <3>8 DEF EnqueueInboundMessage, ApplyDeliveryStatus
      <4>2. PICK q : Moves(p, q) /\ q.pc \in {"customer", "status", "mark"}
        BY <3>1, <3>5, <3>8, EnqueueMoves, StatusMoves
      <4> QED BY <3>4, <4>1, <4>2 DEF Waiting
    <3>9. CASE MarkEventProcessed(p)
      BY <3>1, <3>2, <3>5, <3>9 DEF MarkEventProcessed, Stored, Waiting
    <3>10. CASE RequestFails(p)
      <4>1. acked' = acked /\ post' = [post EXCEPT ![p] = IdlePost]
        BY <3>10 DEF RequestFails
      <4>2. Moves(p, IdlePost) /\ IdlePost.pc = "idle"
        BY <4>1, IdleWell DEF Moves, Waiting, IdlePost
      <4> QED BY <3>4, <4>1, <4>2
    <3> QED BY <2>1, <3>3, <3>6, <3>7, <3>8, <3>9, <3>10 DEF Requests, Serve
  <2>4. PICK q : /\ post' = [post EXCEPT ![p] = q]
                 /\ q.pc # "idle" => /\ q.env \in Envelopes
                                     /\ \A i \in DOMAIN Carries[q.env] :
                                          i < q.ci => HasEvent(q.env, i)'
    BY <2>3
  <2>5. ASSUME NEW r \in Posts, post'[r].pc # "idle",
               NEW i \in DOMAIN Carries[post'[r].env], i < post'[r].ci
        PROVE  event'[Key(Carries[post'[r].env][i])] # NoEvent
    <3>1. CASE r = p
      <4>1. post'[r] = q
        BY <1>2, <2>4, <3>1
      <4> QED BY <2>4, <2>5, <4>1 DEF HasEvent
    <3>2. CASE r # p
      <4>1. PICK o : o = post[r]
        OBVIOUS
      <4>2. post'[r] = o
        BY <1>2, <2>4, <3>2, <4>1
      <4>3. HasEvent(o.env, i)'
        BY <1>3, <1>4, <2>5, <4>1, <4>2
      <4> QED BY <4>2, <4>3 DEF HasEvent
    <3> QED BY <3>1, <3>2
  <2> QED BY <2>2, <2>3, <2>5 DEF AckInv, HasEvent
<1>8. CASE \E m \in Msgs : DropJob(m)
  BY <1>6, <1>8 DEF DropJob
<1>9. CASE HandlerNext
  <2>1. UNCHANGED <<event, acked, post>>
    BY ZenonT(30), <1>9 DEF HandlerNext, TakeJob, LoadCart, AddToCart, CreateOrder, Escalate, Proceed,
     MarkProcessing, CheckKillSwitch, EndTurn, PersistCart, FindTicket, CreateTicket,
     UseReply, HandOver, RecordReply, StepFails, SendReply, MarkProcessed,
     MarkFailed, WorkerDies, Pause, Resume, webhookVars
  <2> QED BY <1>6, <2>1
<1> QED BY <1>7, <1>8, <1>9 DEF Next, WebhookNext, Requests

(* No change that Meta got its 200 for is missing from the raw store: a    *)
(* request that fails on the way is not acknowledged.                      *)
THEOREM ChangesStored ==
  ASSUME OneChangePerKey
  PROVE  Spec => []EveryChangeStored
<1>1. Init => AckInv
  BY DEF Init, WebhookInit, AckInv, IdlePost
<1>2. BaseInv /\ AckInv /\ [Next]_vars => AckInv'
  <2>1. ASSUME AckInv, UNCHANGED vars PROVE AckInv'
    BY <2>1 DEF AckInv, HasEvent, vars, webhookVars
  <2> QED BY <2>1, AckStep
<1>3. BaseInv /\ AckInv => EveryChangeStored
  <2> SUFFICES ASSUME BaseInv, AckInv, NEW e \in Envelopes, acked[e], NEW i \in DOMAIN Carries[e]
               PROVE  /\ event[Key(Carries[e][i])] # NoEvent
                      /\ event[Key(Carries[e][i])].raw = Carries[e][i]
    BY DEF EveryChangeStored
  <2> DEFINE c == Carries[e][i]
             k == Key(c)
  <2>1. c \in Changes /\ k \in Keys
    BY DEF Changes, Keys
  <2>2. event[k] # NoEvent
    BY DEF AckInv, HasEvent
  <2>3. event[k].raw \in Changes
    BY <2>1, <2>2 DEF BaseInv, TypeInv, TypeOK, WebhookTypeOK, EventType
  <2>4. Key(event[k].raw) = Key(c)
    BY <2>1, <2>2 DEF AckInv
  <2> QED BY <2>1, <2>2, <2>3, <2>4 DEF OneChangePerKey
<1> QED BY <1>1, <1>2, <1>3, BaseInvariant, PTL DEF Spec

-----------------------------------------------------------------------------
(* One request at a time.                                                  *)
OneRequest == \A p, q \in Posts : p = q

OpenInv ==
  /\ \A u, v \in Convs : conv[u] = "OPEN" /\ conv[v] = "OPEN" /\ owner[u] = owner[v] => u = v
  /\ \A p \in Posts : post[p].pc = "newConversation" =>
       \A v \in Convs : conv[v] = "OPEN" => owner[v] # From[Message(post[p])]

(* Capturing a change leads to its first item, to the next change or to    *)
(* the end.                                                                *)
LEMMA CaptureStays ==
  ASSUME NEW p \in Posts, WebhookTypeOK, Well(post[p]), CaptureRawEvent(p)
  PROVE  \E q : post' = [post EXCEPT ![p] = q] /\ q.pc # "newConversation"
<1>1. post[p].pc = "capture"
  BY DEF CaptureRawEvent
<1>2. CASE NextChange(p)
  BY <1>1, <1>2, NextChangeMoves DEF Moves, Waiting
<1>3. CASE post' = [post EXCEPT ![p] = Item(post[p], 1)]
  <2>1. Item(post[p], 1).pc \in {"customer", "status", "mark"}
    BY <1>1, ItemWell
  <2> QED BY <1>3, <2>1
<1> QED BY <1>2, <1>3 DEF CaptureRawEvent

(* A request that is to create a conversation has found none.              *)
LEMMA OpenRequest ==
  ASSUME BaseInv, OpenInv, OneRequest, NEW p \in Posts, Requests(p)
  PROVE  OpenInv'
<1>1. PICK o : o = post[p]
  OBVIOUS
<1>2. /\ WebhookTypeOK /\ ChatTypeOK /\ Well(o) /\ post \in [Posts -> PostType]
      /\ Stored(o)
  BY <1>1 DEF BaseInv, TypeInv, TypeOK, Control, WebhookTypeOK, PostType
<1>3. \A q \in Posts : q = p
  BY DEF OneRequest
<1>4. ASSUME UNCHANGED <<conv, owner>>, post'[p].pc # "newConversation"
      PROVE  OpenInv'
  BY <1>3, <1>4 DEF OpenInv
<1>5. CASE FindConversation(p)
  <2> DEFINE c == From[Message(o)]
  <2>1. o.pc = "conversation" /\ UNCHANGED <<conv, owner>>
    BY <1>1, <1>5 DEF FindConversation, chatVars
  <2>2. \/ \E v \in Convs : post' = [post EXCEPT ![p] = [Goto(o, "insert") EXCEPT !.conv = v]]
        \/ /\ \A v \in Convs : conv[v] = "OPEN" => owner[v] # c
           /\ post' = [post EXCEPT ![p] = Goto(o, "newConversation")]
    BY <1>1, <1>5 DEF FindConversation, OpenOf
  <2>3. ASSUME NEW v \in Convs, post' = [post EXCEPT ![p] = [Goto(o, "insert") EXCEPT !.conv = v]]
        PROVE  OpenInv'
    <3> DEFINE q == [Goto(o, "insert") EXCEPT !.conv = v]
    <3>1. q.pc = "insert"
      BY <1>2, <2>1, InsertWell DEF OnMessage
    <3> HIDE DEF q
    <3>2. post'[p] = q
      BY <1>2, <2>3 DEF q
    <3> QED BY <1>4, <2>1, <3>1, <3>2
  <2>4. CASE /\ \A v \in Convs : conv[v] = "OPEN" => owner[v] # c
             /\ post' = [post EXCEPT ![p] = Goto(o, "newConversation")]
    <3> DEFINE q == Goto(o, "newConversation")
    <3>1. SamePlace(q, o) /\ q.at = o.at
      BY <1>2, <2>1, GotoWell DEF OnMessage
    <3> HIDE DEF q
    <3>2. post'[p] = q
      BY <1>2, <2>4 DEF q
    <3>3. Message(post[p])' = Message(o)
      BY <3>1, <3>2 DEF Message, SamePlace, Change
    <3> QED BY <1>3, <2>1, <2>4, <3>3 DEF OpenInv
  <2> QED BY <2>2, <2>3, <2>4
<1>6. CASE CreateConversation(p)
  <2> DEFINE c == From[Message(o)]
             v == CHOOSE u \in Convs : conv[u] = "none"
  <2>1. /\ o.pc = "newConversation" /\ v \in Convs
        /\ conv' = [conv EXCEPT ![v] = "OPEN"] /\ owner' = [owner EXCEPT ![v] = c]
        /\ post' = [post EXCEPT ![p] = [Goto(o, "insert") EXCEPT !.conv = v]]
    BY <1>1, <1>6 DEF CreateConversation
  <2>2. PICK w : w = v
    OBVIOUS
  <2>3. post'[p].pc = "insert"
    BY <1>2, <2>1, InsertWell DEF OnMessage
  <2>4. \A u \in Convs : conv[u] = "OPEN" => owner[u] # c
    BY <1>1, <2>1 DEF OpenInv
  <2> HIDE DEF v, c
  <2>5. \A u \in Convs : /\ u = w => owner'[u] = c
                         /\ u # w => conv'[u] = conv[u] /\ owner'[u] = owner[u]
    BY <1>2, <2>1, <2>2 DEF ChatTypeOK
  <2>6. \A u, t \in Convs :
          conv'[u] = "OPEN" /\ conv'[t] = "OPEN" /\ owner'[u] = owner'[t] => u = t
    BY <2>4, <2>5 DEF OpenInv
  <2> QED BY <1>3, <2>3, <2>6 DEF OpenInv
<1>7. CASE ~FindConversation(p) /\ ~CreateConversation(p)
  <2>1. UNCHANGED <<conv, owner>>
    BY <1>7 DEF Requests, Serve, Receive, CaptureRawEvent, FindCustomer, CreateCustomer,
       InsertMessage, FindMessage, EnqueueInboundMessage,
       ApplyDeliveryStatus, MarkEventProcessed, RequestFails, chatVars
  <2>2. \E q : /\ post' = [post EXCEPT ![p] = q]
               /\ q.pc # "newConversation"
    <3>1. CASE FindCustomer(p) \/ CreateCustomer(p) \/ InsertMessage(p) \/ FindMessage(p)
      <4>1. \/ post' = [post EXCEPT ![p] = IdlePost]
            \/ /\ o.pc \in OnMessage
               /\ \E step \in OnMessage \ {"insert", "newConversation"} :
                    post' = [post EXCEPT ![p] = Goto(o, step)]
        BY <1>1, <3>1 DEF FindCustomer, CreateCustomer, InsertMessage, FindMessage,
                          AfterDuplicate, OnMessage
      <4>2. IdlePost.pc = "idle"
        BY DEF IdlePost
      <4>3. ASSUME NEW step \in OnMessage \ {"insert", "newConversation"}, o.pc \in OnMessage
            PROVE  Goto(o, step).pc # "newConversation"
        BY <1>2, <4>3, GotoWell
      <4> QED BY <4>1, <4>2, <4>3
    <3>2. CASE CaptureRawEvent(p)
      BY <1>1, <1>2, <3>2, CaptureStays
    <3>3. CASE (\E e \in Envelopes : Receive(p, e)) \/ MarkEventProcessed(p) \/ RequestFails(p)
      BY <1>1, <1>2, <3>3, ReceiveMoves, MarkMoves, FailMoves DEF Moves, Waiting
    <3>4. CASE EnqueueInboundMessage(p) \/ ApplyDeliveryStatus(p)
      BY <1>1, <1>2, <3>4, EnqueueMoves, StatusMoves DEF Moves
    <3> QED BY <1>7, <3>1, <3>2, <3>3, <3>4 DEF Requests, Serve
  <2>3. post'[p].pc # "newConversation"
    BY <1>2, <2>2
  <2> QED BY <1>4, <2>1, <2>3
<1> QED BY <1>5, <1>6, <1>7

LEMMA OpenStep ==
  ASSUME OneRequest, BaseInv, OpenInv, Next
  PROVE  OpenInv'
<1>1. CASE \E p \in Posts : Requests(p)
  BY <1>1, OpenRequest
<1>2. ASSUME owner' = owner, post' = post,
             \A v \in Convs : conv'[v] = "OPEN" => conv[v] = "OPEN"
      PROVE  OpenInv'
  BY <1>2 DEF OpenInv, Message, Change
<1>3. CASE \E m \in Msgs : DropJob(m)
  BY <1>2, <1>3 DEF DropJob, chatVars
<1>4. CASE HandlerNext
  <2>1. owner' = owner /\ post' = post
    BY ZenonT(30), <1>4 DEF HandlerNext, TakeJob, LoadCart, AddToCart, CreateOrder, Escalate, Proceed,
     MarkProcessing, CheckKillSwitch, EndTurn, PersistCart, FindTicket, CreateTicket,
     UseReply, HandOver, RecordReply, StepFails, SendReply, MarkProcessed,
     MarkFailed, WorkerDies, Pause, Resume, webhookVars, chatVars
  <2>2. conv' = conv \/ \E v : conv' = [conv EXCEPT ![v] = "ESCALATED"]
    BY ZenonT(30), <1>4 DEF HandlerNext, TakeJob, LoadCart, AddToCart, CreateOrder, Escalate, Proceed,
     MarkProcessing, CheckKillSwitch, EndTurn, PersistCart, FindTicket, CreateTicket,
     UseReply, HandOver, RecordReply, StepFails, SendReply, MarkProcessed,
     MarkFailed, WorkerDies, Pause, Resume, chatVars
  <2>3. conv \in [Convs -> {"none", "OPEN", "ESCALATED"}]
    BY DEF BaseInv, TypeInv, TypeOK, ChatTypeOK
  <2> QED BY <1>2, <2>1, <2>2, <2>3
<1> QED BY <1>1, <1>3, <1>4 DEF Next, WebhookNext, Requests

(* With one request at a time a customer never has two OPEN conversations; *)
(* two requests that look before either creates leave two.                 *)
THEOREM OneConversationAlone ==
  ASSUME OneRequest
  PROVE  Spec => []OneOpenConversation
<1>1. Init => OpenInv
  BY DEF Init, ChatInit, WebhookInit, IdlePost, OpenInv
<1>2. BaseInv /\ OpenInv /\ [Next]_vars => OpenInv'
  <2>1. ASSUME OpenInv, UNCHANGED vars PROVE OpenInv'
    BY <2>1 DEF OpenInv, Message, Change, vars, chatVars, webhookVars
  <2> QED BY <2>1, OpenStep
<1>3. OpenInv => OneOpenConversation
  <2> SUFFICES ASSUME OpenInv, NEW c \in Customers PROVE Cardinality(OpenOf(c)) <= 1
    BY DEF OneOpenConversation
  <2>1. OpenOf(c) = {} \/ \E v : OpenOf(c) = {v}
    <3>1. \A u, v \in OpenOf(c) : u = v
      BY DEF OpenOf, OpenInv
    <3> HIDE DEF OpenOf
    <3> QED BY <3>1
  <2>2. Cardinality({}) = 0 /\ \A v : Cardinality({v}) = 1
    BY FS_EmptySet, FS_Singleton
  <2>3. Cardinality(OpenOf(c)) = 0 \/ Cardinality(OpenOf(c)) = 1
    BY <2>1, <2>2
  <2> QED BY <2>3, SMT
<1> QED BY <1>1, <1>2, <1>3, BaseInvariant, PTL DEF Spec

=============================================================================
