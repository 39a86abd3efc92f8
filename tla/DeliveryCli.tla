---------------------------- MODULE DeliveryCli ----------------------------
(***************************************************************************)
(* The delivery command staff run by hand: read the order, check that it   *)
(* ships and that the transition is allowed, then write the new delivery   *)
(* status.  Two members of staff may run it for one order at once.         *)
(***************************************************************************)
EXTENDS ShopData

CONSTANTS Staff, NoTask

ASSUME DeliveryCliAssumption ==
  NoTask \notin [order : Orders, next : DeliveryStatus]

VARIABLES
  task          \* the write a member of staff is about to make, or NoTask

DeliveryTypeOK ==
  task \in [Staff -> [order : Orders, next : DeliveryStatus] \cup {NoTask}]

DeliveryInit == task = [s \in Staff |-> NoTask]

(* Mutant: skipping a stage is allowed.                                    *)

ValidTransition(from, to) ==
  <<from, to>> \in {<<"PENDING", "PROCESSING">>, <<"PROCESSING", "SHIPPED">>,
                    <<"SHIPPED", "DELIVERED">>}

Ships_Any(o) == status[o] \notin {"CANCELLED", "REFUNDED"}  \* mutant: line 41 gone
Ships(o) == status[o] \in {"PAID", "FULFILLING"}

ReadDelivery(s, o, next) ==
  /\ task[s] = NoTask
  /\ Ships(o)
  /\ ValidTransition(delivery[o], next)
  /\ task' = [task EXCEPT ![s] = [order |-> o, next |-> next]]
  /\ UNCHANGED dataVars

(* Nothing read above is tested again; DELIVERED also fulfils the order.   *)
WriteDelivery(s) ==
  /\ task[s] # NoTask
  /\ delivery' = [delivery EXCEPT ![task[s].order] = task[s].next]
  /\ status' = IF task[s].next = "DELIVERED"
                 THEN [status EXCEPT ![task[s].order] = "FULFILLED"]
                 ELSE status
  /\ task' = [task EXCEPT ![s] = NoTask]
  /\ UNCHANGED <<tracked, conf, payment, stock>>

DeliveryNext ==
  \E s \in Staff :
    \/ \E o \in Orders, next \in {"PROCESSING", "SHIPPED", "DELIVERED"} :
         ReadDelivery(s, o, next)
    \/ WriteDelivery(s)

=============================================================================
