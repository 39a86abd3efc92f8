--------------------------- MODULE CatalogImport ---------------------------
(***************************************************************************)
(* The import command: one batch at a time, each item generated, reviewed  *)
(* at the terminal and published before the next.  An item that throws is  *)
(* reported as an error and the batch goes on.                             *)
(***************************************************************************)
EXTENDS CatalogData

VARIABLES
  batch,        \* the items of the running, or else of the last, batch
  item,         \* index of the item worked on, 0 if no batch is running
  step,         \* what comes next for it
  report        \* summary.items: status of each item that has one

importVars == <<batch, item, step, report>>

Results == {"generated", "image_rejected", "review_rejected", "error"}

ImportTypeOK ==
  /\ batch \in Seq(Photos)
  /\ item \in 0..Len(batch)
  /\ step \in {"prepare", "review", "publish"}
  /\ report \in [Photos -> Results \cup {"none"}]

ImportInit ==
  /\ batch = <<>> /\ item = 0 /\ step = "prepare"
  /\ report = [p \in Photos |-> "none"]

StartImport(b) ==
  /\ item = 0
  /\ Take(b)
  /\ batch' = b /\ item' = 1 /\ step' = "prepare"
  /\ UNCHANGED <<report, verdict, products, accepted, refused, lapses>>

(* Mutant: the loop has no end.                                            *)

(* One result an item, then the next; the summary is printed after the last*)
Report(result) ==
  /\ report' = [report EXCEPT ![batch[item]] = result]
  /\ item' = IF item = Len(batch) THEN 0 ELSE item + 1
  /\ step' = "prepare"
  /\ UNCHANGED batch

Continue(next) == step' = next /\ UNCHANGED <<batch, item, report>>

(* Mutant: the gate of importOne is gone.                                  *)
PrepareItem_NoGate(usable) ==
  /\ item > 0 /\ step = "prepare"
  /\ Judge(batch[item], usable)
  /\ Continue("review")
  /\ UNCHANGED <<fresh, products, accepted, refused, lapses>>

PrepareItem(usable) ==
  /\ item > 0 /\ step = "prepare"
  /\ Judge(batch[item], usable)
  /\ IF usable THEN Continue("review") ELSE Report("image_rejected")
  /\ UNCHANGED <<fresh, products, accepted, refused, lapses>>

ReviewItem(decision) ==
  /\ item > 0 /\ step = "review"
  /\ IF decision = "reject"
       THEN /\ Report("review_rejected")
            /\ refused' = refused \cup {batch[item]}
            /\ UNCHANGED accepted
       ELSE /\ Continue("publish")
            /\ accepted' = accepted \cup {batch[item]}
            /\ UNCHANGED refused
  /\ UNCHANGED <<fresh, verdict, products, lapses>>

(* Mutant: an item that throws ends the batch.                             *)
PublishItem_Throws ==
  /\ item > 0 /\ step = "publish"
  /\ LET p == batch[item]
     IN \/ Committed(p) /\ Report("generated")
        \/ Failed(p) /\ item' = 0 /\ step' = "prepare" /\ UNCHANGED <<batch, report>>
  /\ UNCHANGED <<fresh, verdict, accepted, refused>>

PublishItem ==
  /\ item > 0 /\ step = "publish"
  /\ LET p == batch[item]
     IN \/ Committed(p) /\ Report("generated")
        \/ Failed(p) /\ Report("error")
  /\ UNCHANGED <<fresh, verdict, accepted, refused>>

(* The command is stopped: no summary, and no item after the current one,  *)
(* whose transaction may have committed.                                   *)
AbortImport ==
  /\ item > 0
  /\ Lapse("abort")
  /\ \/ UNCHANGED products
     \/ step = "publish" /\ Insert(batch[item])
  /\ batch' = <<>> /\ item' = 0 /\ step' = "prepare"
  /\ UNCHANGED <<report, fresh, verdict, accepted, refused>>

ImportNext ==
  \/ \E b \in Batches : StartImport(b)
  \/ \E usable \in BOOLEAN : PrepareItem(usable)
  \/ \E d \in {"approve", "reject"} : ReviewItem(d)
  \/ PublishItem
  \/ AbortImport

=============================================================================
