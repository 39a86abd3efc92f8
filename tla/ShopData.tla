------------------------------ MODULE ShopData ------------------------------
(***************************************************************************)
(* The PostgreSQL rows that the payment worker, the payment-link tool and  *)
(* the delivery CLI share: orders, payments and stock levels.              *)
(*                                                                         *)
(* Money amounts, tracking strings and timestamps are abstracted to what   *)
(* the code branches on: whether a nullable column is set.  A payment      *)
(* reference is random and names its order, so OrderOf is a constant.      *)
(***************************************************************************)
EXTENDS Naturals, FiniteSets

CONSTANTS
  Orders,       \* order rows, each already created by create_order
  Refs,         \* Paystack references the shop may ever generate
  OrderOf,      \* [Refs -> Orders]
  Products,
  Items,        \* [Orders -> [Products -> Nat]], the order_items of an order
  InitStock     \* [Products -> Nat]

ASSUME ShopDataAssumption ==
  /\ IsFiniteSet(Refs)
  /\ OrderOf \in [Refs -> Orders]
  /\ Items \in [Orders -> [Products -> Nat]]
  /\ InitStock \in [Products -> Nat]

VARIABLES
  status,       \* orders.status
  delivery,     \* orders.deliveryStatus
  tracked,      \* orders.trackingReference is set
  conf,         \* orders.confirmationSentAt is set
  payment,      \* payments.status by reference, "none" before the row exists
  stock         \* stock_levels.quantity

dataVars == <<status, delivery, tracked, conf, payment, stock>>

OrderStatus == {"DRAFT", "PLACED", "PAYMENT_PENDING", "PAID", "FULFILLING",
                "FULFILLED", "CANCELLED", "REFUNDED"}
DeliveryStatus == {"PENDING", "PROCESSING", "SHIPPED", "DELIVERED"}
PaymentStatus == {"none", "PENDING", "SUCCESS", "FAILED"}

(* Statuses past payment: the payment service never charges them again and *)
(* create_payment_link refuses them.                                       *)
Progressed == {"PAID", "FULFILLING", "FULFILLED", "CANCELLED", "REFUNDED"}

DataTypeOK ==
  /\ status \in [Orders -> OrderStatus]
  /\ delivery \in [Orders -> DeliveryStatus]
  /\ tracked \in [Orders -> BOOLEAN]
  /\ conf \in [Orders -> BOOLEAN]
  /\ payment \in [Refs -> PaymentStatus]
  /\ stock \in [Products -> Nat]

DataInit ==
  /\ status = [o \in Orders |-> "DRAFT"]
  /\ delivery = [o \in Orders |-> "PENDING"]
  /\ tracked = [o \in Orders |-> FALSE]
  /\ conf = [o \in Orders |-> FALSE]
  /\ payment = [r \in Refs |-> "none"]
  /\ stock = InitStock

(* The deduction transaction re-reads nothing: every line is a conditional *)
(* update on the stock row (where quantity >= n), the row lock is held to  *)
(* commit, and a failing line rolls the earlier ones back.                 *)
Deduct_Units(o) ==                      \* mutant: one unit a line, whatever n
  [p \in Products |-> IF Items[o][p] > 0 THEN stock[p] - 1 ELSE stock[p]]

InStock(o) == \A p \in Products : stock[p] >= Items[o][p]
Deduct(o) == [p \in Products |-> stock[p] - Items[o][p]]

=============================================================================
