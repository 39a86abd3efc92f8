---------------------------- MODULE PhotoReview ----------------------------
(***************************************************************************)
(* What adding products by photo promises, with no queue, page, command or *)
(* failure in sight: a photo is judged once; only a usable one waits for   *)
(* the owner; the owner's word makes it one product or none; and a photo   *)
(* that is dropped, published or refused stays so.                         *)
(***************************************************************************)
EXTENDS Naturals

CONSTANT Photos

VARIABLES
  status,
  rows          \* products of each photo

vars == <<status, rows>>

Init ==
  /\ status = [p \in Photos |-> "new"]
  /\ rows = [p \in Photos |-> 0]

Change(p, from, to) ==
  /\ status[p] = from
  /\ status' = [status EXCEPT ![p] = to]

Judge(p) ==
  /\ Change(p, "new", "waiting") \/ Change(p, "new", "unusable")
  /\ UNCHANGED rows

Publish(p) ==
  /\ Change(p, "waiting", "published")
  /\ rows' = [rows EXCEPT ![p] = 1]

Refuse(p) == Change(p, "waiting", "refused") /\ UNCHANGED rows

(* A new upload, a restart or a failed item drops whatever still waits.    *)
Drop ==
  /\ status' \in [Photos -> {"new", "waiting", "unusable", "published",
                             "refused", "dropped"}]
  /\ \A p \in Photos :
       \/ status'[p] = status[p]
       \/ status[p] = "waiting" /\ status'[p] = "dropped"
  /\ UNCHANGED rows

Next ==
  \/ \E p \in Photos : Judge(p) \/ Publish(p) \/ Refuse(p)
  \/ Drop

Spec == Init /\ [][Next]_vars

=============================================================================
