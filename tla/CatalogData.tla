---------------------------- MODULE CatalogData ----------------------------
(***************************************************************************)
(* What the two ways of adding products share, the admin upload form and   *)
(* the import command: the vision model's verdict on a photo (prepare), the*)
(* product rows (publish) and the owner's refusals (auditReviewRejected).  *)
(*                                                                         *)
(* A photo stands for one uploaded image with its price and quantity, so   *)
(* uploading the same picture again is another photo.  What a listing says,*)
(* and how an edit changes it, is left out.                                *)
(***************************************************************************)
EXTENDS Naturals, Sequences

CONSTANTS
  Photos,
  MaxBatch,     \* images taken in one go; the form's limit is 20
  Faults,       \* kinds of failure the environment may inject
  MaxFaults     \* bound: failures injected in one behaviour

ASSUME CatalogAssumption ==
  /\ Faults \subseteq {"db", "lost", "restart", "abort"}
  /\ MaxFaults \in Nat
  /\ MaxBatch \in Nat

VARIABLES
  fresh,        \* photos nobody uploaded yet
  verdict,      \* what prepare said of a photo, "none" before it was asked
  products,     \* rows publish committed for a photo, each with its stock row
  accepted,     \* history: photos whose listing the owner approved or edited
  refused,      \* photos with a CATALOG_REVIEWED "reject" audit row
  lapses        \* failures injected so far

catalogVars == <<fresh, verdict, products, accepted, refused, lapses>>

CatalogTypeOK ==
  /\ fresh \in SUBSET Photos
  /\ verdict \in [Photos -> {"none", "usable", "unusable"}]
  /\ products \in [Photos -> Nat]
  /\ accepted \in SUBSET Photos
  /\ refused \in SUBSET Photos
  /\ lapses \in 0..MaxFaults

CatalogInit ==
  /\ fresh = Photos
  /\ verdict = [p \in Photos |-> "none"]
  /\ products = [p \in Photos |-> 0]
  /\ accepted = {} /\ refused = {} /\ lapses = 0

Lapse(k) == k \in Faults /\ lapses < MaxFaults /\ lapses' = lapses + 1

(* Images chosen in one go, in the order they are worked through.          *)
Batches ==
  {b \in UNION {[1..n -> fresh] : n \in 1..MaxBatch} :
     \A i, j \in DOMAIN b : b[i] = b[j] => i = j}
Take(b) == fresh' = {p \in fresh : \A i \in DOMAIN b : b[i] # p}

(* The model's answer is free, and every way of not getting a listing (the *)
(* price and quantity gates, a failed call, an unreadable or incomplete    *)
(* answer) is "unusable": generate never throws, and neither does the      *)
(* audit row written for it.                                               *)
Judge(p, usable) ==
  verdict' = [verdict EXCEPT ![p] = IF usable THEN "usable" ELSE "unusable"]

(* Product and stock row are one transaction.  "lost": it committed, but   *)
(* the caller saw an error (the answer to COMMIT did not arrive).  The     *)
(* audit row that follows a commit never throws.                           *)
Insert(p) == products' = [products EXCEPT ![p] = @ + 1]
Committed(p) == Insert(p) /\ UNCHANGED lapses
Failed(p) ==
  \E k \in {"db", "lost"} :
    Lapse(k) /\ IF k = "lost" THEN Insert(p) ELSE UNCHANGED products

=============================================================================
