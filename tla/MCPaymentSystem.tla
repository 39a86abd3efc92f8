-------------------------- MODULE MCPaymentSystem --------------------------
(***************************************************************************)
(* Small instances of PaymentSystem for TLC.                               *)
(***************************************************************************)
EXTENDS PaymentSystem, TLC

CONSTANTS o1, o2, r1, r2, r3, shirt, shoes, w1, w2

Success(R) == [kind : {"success"}, ref : R]
Failed(R) == [kind : {"failed"}, ref : R]

(* Two customers, one reference each, competing for the same goods: both   *)
(* orders take two shirts of the three in stock.  A charge of one fails    *)
(* before it succeeds, or after.                                           *)
RivalOrderOf == (r1 :> o1) @@ (r2 :> o2)
RivalItems == (o1 :> ((shirt :> 2) @@ (shoes :> 1)))
           @@ (o2 :> ((shirt :> 2) @@ (shoes :> 0)))
RivalStock == (shirt :> 3) @@ (shoes :> 1)
RivalEvents == Success({r1, r2}) \cup Failed({r1})

(* One order with up to two references and stock for both of them.         *)
SingleOrderOf == (r1 :> o1) @@ (r2 :> o1)
SingleItems == o1 :> (shirt :> 2)
SingleStock == shirt :> 4
SingleEvents == Success({r1, r2}) \cup Failed({r1})
PaidTwice == Success({r1, r2})

(* One order with one reference; for liveness, beside a charge of another  *)
(* system (the order it maps to is never used).                            *)
LiveOrderOf == r1 :> o1
LiveStock == shirt :> 2
LiveEvents == Success({r1}) \cup Failed({r1})
ForeignOrderOf == (r1 :> o1) @@ (r3 :> o1)
ForeignEvents == Success({r1, r3})
WorkerSymmetry == Permutations(Workers)
=============================================================================
