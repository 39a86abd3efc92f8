------------------------------- MODULE ChatData -------------------------------
(***************************************************************************)
(* The rows that the WhatsApp webhook and the worker share: customers,     *)
(* conversations (with the cart in their metadata), inbound messages, the  *)
(* outbound reply to each, and escalations.                                *)
(***************************************************************************)
EXTENDS Naturals, Sequences, FiniteSets

CONSTANTS
  Customers,   \* WhatsApp users
  Msgs,        \* inbound messages, by their WhatsApp id
  From,        \* the sender of each message
  Kind,        \* what the handler makes of it: "text" (or a voice note that
               \* is transcribed to text), "long" (voice note above the cap),
               \* "media" (not answered)
  Convs,       \* bound: conversation rows that can be created
  NoConv,      \* no conversation
  Nobody,      \* owner of a conversation that does not exist
  Available    \* units in stock, which bounds a cart

ASSUME ChatDataAssumption ==
  /\ From \in [Msgs -> Customers]
  /\ Kind \in [Msgs -> {"text", "long", "media"}]
  /\ NoConv \notin Convs
  /\ Nobody \notin Customers
  /\ Available \in Nat

VARIABLES
  customer,    \* the customer row exists
  owner,       \* the customer of a conversation row, Nobody before creation
  conv,        \* conversations.status, "none" before creation
  cart,        \* units in conversations.metadata.cart
  row,         \* messages.status of an inbound message, "none" before creation
  home,        \* messages.conversationId
  sent,        \* history: replies to the message that WhatsApp accepted
  outRow,      \* messages.status of the first reply, "none" before creation
  tickets      \* OPEN escalations of a conversation

chatVars == <<customer, owner, conv, cart, row, home, sent, outRow, tickets>>

OutStatus == {"SENT", "DELIVERED", "READ", "FAILED"}

ChatTypeOK ==
  /\ customer \in [Customers -> BOOLEAN]
  /\ owner \in [Convs -> Customers \cup {Nobody}]
  /\ conv \in [Convs -> {"none", "OPEN", "ESCALATED"}]
  /\ cart \in [Convs -> 0..Available]
  /\ row \in [Msgs -> {"none", "RECEIVED", "PROCESSING", "PROCESSED", "FAILED"}]
  /\ home \in [Msgs -> Convs \cup {NoConv}]
  /\ sent \in [Msgs -> Nat]
  /\ outRow \in [Msgs -> OutStatus \cup {"none"}]
  /\ tickets \in [Convs -> Nat]

ChatInit ==
  /\ customer = [c \in Customers |-> FALSE]
  /\ owner = [v \in Convs |-> Nobody]
  /\ conv = [v \in Convs |-> "none"]
  /\ cart = [v \in Convs |-> 0]
  /\ row = [m \in Msgs |-> "none"]
  /\ home = [m \in Msgs |-> NoConv]
  /\ sent = [m \in Msgs |-> 0]
  /\ outRow = [m \in Msgs |-> "none"]
  /\ tickets = [v \in Convs |-> 0]

OpenOf(c) == {v \in Convs : owner[v] = c /\ conv[v] = "OPEN"}

=============================================================================
