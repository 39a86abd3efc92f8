----------------------------- MODULE Settlement -----------------------------
(***************************************************************************)
(* What the payment subsystem promises, with no webhook, queue, worker or  *)
(* crash in sight: a payment the customer made in full may be settled, once*)
(* and only against stock that is there; an order with a settled payment   *)
(* may be confirmed to the customer, once.                                 *)
(***************************************************************************)
EXTENDS Naturals

CONSTANTS Orders, Refs, OrderOf, Products, Items, InitStock

VARIABLES
  paid,         \* payments made in full
  sold,         \* payments that took their goods out of the stock
  receipts,     \* orders whose receipt was sent
  stock

vars == <<paid, sold, receipts, stock>>

Init ==
  /\ paid = {} /\ sold = {} /\ receipts = {}
  /\ stock = InitStock

PayInFull(r) ==
  /\ r \notin paid
  /\ paid' = paid \cup {r}
  /\ UNCHANGED <<sold, receipts, stock>>

Sell(r) ==
  /\ r \in paid \ sold
  /\ \A p \in Products : stock[p] >= Items[OrderOf[r]][p]
  /\ sold' = sold \cup {r}
  /\ stock' = [p \in Products |-> stock[p] - Items[OrderOf[r]][p]]
  /\ UNCHANGED <<paid, receipts>>

Confirm(o) ==
  /\ o \notin receipts
  /\ \E r \in sold : OrderOf[r] = o
  /\ receipts' = receipts \cup {o}
  /\ UNCHANGED <<paid, sold, stock>>

Next ==
  \/ \E r \in Refs : PayInFull(r) \/ Sell(r)
  \/ \E o \in Orders : Confirm(o)

Spec == Init /\ [][Next]_vars

=============================================================================
