--------------------------- MODULE CatalogSystem ---------------------------
(***************************************************************************)
(* The upload form and the import command adding products to one shop.     *)
(***************************************************************************)
EXTENDS CatalogUpload, CatalogImport

vars == <<catalogVars, uploadVars, importVars>>

Init == CatalogInit /\ UploadInit /\ ImportInit

Next ==
  \/ UploadNext /\ UNCHANGED importVars
  \/ ImportNext /\ UNCHANGED uploadVars

Spec == Init /\ [][Next]_vars

-----------------------------------------------------------------------------
TypeOK == CatalogTypeOK /\ UploadTypeOK /\ ImportTypeOK

(* Nothing is published that the vision model did not find usable and a    *)
(* person did not approve, with any number of tabs, stale pages, repeated  *)
(* submissions, restarts and failed items.                                 *)
OnlyReviewedPublished ==
  \A p \in Photos :
    products[p] > 0 => verdict[p] = "usable" /\ p \in accepted

(* The queue holds photos of the last upload only, in the order they were  *)
(* chosen.                                                                 *)
QueueFollowsUpload ==
  /\ \A p \in Queue : \E i \in DOMAIN latest : latest[i] = p
  /\ \A i, j \in DOMAIN latest :
       i < j /\ {latest[i], latest[j]} \subseteq Queue
         => place[latest[i]] < place[latest[j]]

(* The summary of the import command is complete and true: every item of a *)
(* batch that ran to its end has a status, whatever happened to the others,*)
(* and it says "generated" exactly of those that are now one product.      *)
SummaryIsTrue ==
  /\ item = 0 => \A i \in DOMAIN batch : report[batch[i]] # "none"
  /\ \A p \in Photos :
       report[p] # "none" => (report[p] = "generated" <=> products[p] = 1)

(* A photo never becomes two products ("one row per approved image").      *)
PublishedOnce == \A p \in Photos : products[p] <= 1

(* When no tab has anything left to click or wait for, every photo of the  *)
(* last upload that could be reviewed has been.                            *)
NothingStranded ==
  (\A t \in Tabs : req[t].op = "none"
                   /\ page[t].kind \in {"form", "rejected", "published"})
    => \A p \in Photos : ~Pending(p)

-----------------------------------------------------------------------------
(* Inductive strengthenings.                                               *)

(* A photo is judged once: those nobody uploaded, those each upload has yet*)
(* to judge and those the import has yet to judge are apart.               *)
WebLeft(t) ==
  IF req[t].op \in {"start", "prepare"}
    THEN {req[t].photos[i] : i \in (req[t].done + 1)..Len(req[t].photos)} ELSE {}
CliLeft ==
  IF item = 0 THEN {}
  ELSE {batch[i] : i \in (IF step = "prepare" THEN item ELSE item + 1)..Len(batch)}
Distinct(s) == \A i, j \in DOMAIN s : s[i] = s[j] => i = j

UnjudgedInv ==
  /\ \A p \in fresh \cup CliLeft \cup UNION {WebLeft(t) : t \in Tabs} :
       verdict[p] = "none"
  /\ fresh \cap CliLeft = {}
  /\ \A t \in Tabs : WebLeft(t) \cap (fresh \cup CliLeft) = {}
  /\ \A t, u \in Tabs : t # u => WebLeft(t) \cap WebLeft(u) = {}
  /\ Distinct(batch) /\ \A t \in Tabs : Distinct(req[t].photos)

(* Whoever is about to publish a photo holds one that may be.              *)
ReviewInv ==
  /\ OnlyReviewedPublished
  /\ \A t \in Tabs :
       /\ req[t].op \in {"publish", "finish", "decline"} =>
            verdict[req[t].photos[1]] = "usable"
       /\ req[t].op = "publish" => req[t].photos[1] \in accepted
  /\ item > 0 /\ step # "prepare" => verdict[batch[item]] = "usable"
  /\ item > 0 /\ step = "publish" => batch[item] \in accepted

(* With no lost answers: the form and the command never hold the same      *)
(* photo, and what the command holds is a product once it says so.         *)
Images(r) == {r.photos[i] : i \in DOMAIN r.photos}
WebHeld == Queue \cup UNION {Images(req[t]) : t \in Tabs}
CliHeld == {p \in Photos : report[p] # "none"} \cup {batch[i] : i \in DOMAIN batch}

SummaryInv ==
  /\ WebHeld \cap CliHeld = {} /\ fresh \cap (WebHeld \cup CliHeld) = {}
  /\ \A i \in DOMAIN batch : report[batch[i]] # "none" <=> item = 0 \/ i < item
  /\ \A p \in CliHeld :
       products[p] <= 1 /\ (report[p] = "generated" <=> products[p] = 1)

(* With posts one at a time and no lost answers: what can still become a   *)
(* product or be refused is neither yet, and is held by one actor.         *)
Undecided(p) == products[p] = 0 /\ p \notin refused
Finishing(p) == \E t \in Tabs : req[t].op = "finish" /\ req[t].photos[1] = p

OneAtATime ==
  \A t, u \in Tabs : t # u => req[t].op = "none" \/ req[u].op = "none"
DecidedOnce ==
  \A p \in Photos :
    products[p] <= 1 /\ (p \in refused => products[p] = 0 /\ verdict[p] = "usable")
QueueOpen ==
  \A p \in Queue : verdict[p] # "none" /\ (Finishing(p) \/ Undecided(p))
RequestOpen(t) ==
  /\ req[t].op \in {"publish", "decline"} =>
       Pending(req[t].photos[1]) /\ Undecided(req[t].photos[1])
  /\ req[t].op = "finish" =>
       Pending(req[t].photos[1]) /\ products[req[t].photos[1]] = 1
ItemOpen ==
  item > 0 /\ step # "prepare" => Undecided(batch[item]) /\ batch[item] \notin Queue

SerialInv ==
  OneAtATime /\ DecidedOnce /\ QueueOpen /\ (\A t \in Tabs : RequestOpen(t)) /\ ItemOpen

IInv == UnjudgedInv /\ ReviewInv /\ SerialInv

-----------------------------------------------------------------------------
(* While posts run one at a time and no commit loses its answer, the system*)
(* implements PhotoReview.                                                 *)
Waiting(p) ==
  Pending(p) \/ (item > 0 /\ step # "prepare" /\ batch[item] = p)

StatusOf(p) ==
  IF products[p] > 0 THEN "published"
  ELSE IF p \in refused THEN "refused"
  ELSE IF verdict[p] = "none" THEN "new"
  ELSE IF verdict[p] = "unusable" THEN "unusable"
  ELSE IF Waiting(p) THEN "waiting" ELSE "dropped"

Promise == INSTANCE PhotoReview WITH
  status <- [p \in Photos |-> StatusOf(p)],
  rows <- products

ImplementsReview == Promise!Spec

=============================================================================
