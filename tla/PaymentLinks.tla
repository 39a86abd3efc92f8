---------------------------- MODULE PaymentLinks ----------------------------
(***************************************************************************)
(* The create_payment_link tool, run by the sales agent for the customer's *)
(* order.  Five messages are processed at a time, so two agent turns of    *)
(* the same customer may run it for one order at once.                     *)
(***************************************************************************)
EXTENDS PaymentEvents

CONSTANTS
  Agents,       \* agent turns that may run the tool
  NoOrder,      \* the order of an idle agent
  NoRef

ASSUME PaymentLinksAssumption == NoOrder \notin Orders /\ NoRef \notin Refs

VARIABLES
  lpc,          \* where each agent is in the tool
  lord,         \* the order it works on
  lref,         \* the reference of the payment row it created
  relinked      \* history: the tool overwrote a status that was past payment

linkVars == <<lpc, lord, lref, relinked>>

LinksTypeOK ==
  /\ lpc \in [Agents -> {"idle", "lookup", "create", "flip"}]
  /\ lord \in [Agents -> Orders \cup {NoOrder}]
  /\ lref \in [Agents -> Refs \cup {NoRef}]
  /\ relinked \in [Orders -> BOOLEAN]
  /\ \A a \in Agents :
       /\ lpc[a] # "idle" => lord[a] \in Orders
       /\ lpc[a] = "flip" => lref[a] \in Refs

LinksInit ==
  /\ lpc = [a \in Agents |-> "idle"]
  /\ lord = [a \in Agents |-> NoOrder]
  /\ lref = [a \in Agents |-> NoRef]
  /\ relinked = [o \in Orders |-> FALSE]

PendingOf(o) == {r \in Refs : OrderOf[r] = o /\ payment[r] = "PENDING"}
Fresh(o) == {r \in Refs \ Foreign : OrderOf[r] = o /\ payment[r] = "none"}

KeepQueue == UNCHANGED <<charge, declined, evt, inflight, job, attempts>>
Leave(a) ==
  /\ lpc' = [lpc EXCEPT ![a] = "idle"]
  /\ lord' = [lord EXCEPT ![a] = NoOrder]
  /\ lref' = [lref EXCEPT ![a] = NoRef]

(* Read the order and refuse one that is past payment.                     *)
ReadOrder(a, o) ==
  /\ lpc[a] = "idle"
  /\ status[o] \notin Progressed
  /\ lpc' = [lpc EXCEPT ![a] = "lookup"]
  /\ lord' = [lord EXCEPT ![a] = o]
  /\ KeepQueue
  /\ UNCHANGED <<dataVars, shown, faults, lref, relinked>>

(* A PENDING payment of the order is reused: its link is shown again.      *)
ReusePending(a) ==
  /\ lpc[a] = "lookup"
  /\ \E r \in PendingOf(lord[a]) : shown' = shown \cup {r}
  /\ Leave(a)
  /\ KeepQueue
  /\ UNCHANGED <<dataVars, faults, relinked>>

(* Otherwise a transaction is initialised at Paystack.                     *)
CallPaystack(a) ==
  /\ lpc[a] = "lookup"
  /\ PendingOf(lord[a]) = {}
  /\ lpc' = [lpc EXCEPT ![a] = "create"]
  /\ KeepQueue
  /\ UNCHANGED <<dataVars, shown, faults, lord, lref, relinked>>

(* Paystack refuses or cannot be reached: the tool reports the error.      *)
PaystackRefuses(a) ==
  /\ lpc[a] = "create"
  /\ Leave(a)
  /\ KeepQueue
  /\ UNCHANGED <<dataVars, shown, faults, relinked>>

CreatePayment(a) ==
  /\ lpc[a] = "create"
  /\ \E r \in Fresh(lord[a]) :
       /\ payment' = [payment EXCEPT ![r] = "PENDING"]
       /\ lref' = [lref EXCEPT ![a] = r]
  /\ lpc' = [lpc EXCEPT ![a] = "flip"]
  /\ KeepQueue
  /\ UNCHANGED <<status, delivery, tracked, conf, stock, shown, faults,
                 lord, relinked>>

(* The order becomes PAYMENT_PENDING whatever its status is by now, and    *)
(* the link goes to the customer.                                          *)
FlipOrder(a) ==
  /\ lpc[a] = "flip"
  /\ status' = [status EXCEPT ![lord[a]] = "PAYMENT_PENDING"]
  /\ relinked' = [relinked EXCEPT ![lord[a]] = @ \/ status[lord[a]] \in Progressed]
  /\ shown' = shown \cup {lref[a]}
  /\ Leave(a)
  /\ KeepQueue
  /\ UNCHANGED <<delivery, tracked, conf, payment, stock, faults>>

(* The agent turn dies or a database call throws: a row already created    *)
(* stays, its link not shown yet.                                          *)
AgentFails(a) ==
  /\ Inject("agent")
  /\ lpc[a] # "idle"
  /\ Leave(a)
  /\ KeepQueue
  /\ UNCHANGED <<dataVars, shown, relinked>>

LinksNext ==
  \E a \in Agents :
    \/ \E o \in Orders : ReadOrder(a, o)
    \/ ReusePending(a) \/ CallPaystack(a) \/ PaystackRefuses(a)
    \/ CreatePayment(a) \/ FlipOrder(a) \/ AgentFails(a)

=============================================================================
