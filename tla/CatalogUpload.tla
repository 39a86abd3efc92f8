--------------------------- MODULE CatalogUpload ---------------------------
(***************************************************************************)
(* The admin upload form: photos are posted together, judged one after the *)
(* other into a queue in the memory of the API process, and reviewed one   *)
(* page at a time.  Each browser tab has a page and at most one request    *)
(* that has not been answered; the requests of different tabs interleave   *)
(* where the handler awaits.                                               *)
(***************************************************************************)
EXTENDS CatalogData

CONSTANTS
  Tabs,
  Overlap       \* BOOLEAN: posts run side by side, or one at a time

ASSUME UploadAssumption == Overlap \in BOOLEAN

VARIABLES
  place,        \* place of a photo in the queue's insertion order, 0 if absent
  placed,       \* entries put into the queue since it was cleared
  ready,        \* the service has looked up its business row
  page,         \* what a tab shows
  req,          \* the request a tab waits for
  latest        \* history: the photos of the last upload

uploadVars == <<place, placed, ready, page, req, latest>>

Page == [kind : {"form", "rejected", "published"}]
          \cup [kind : {"redirect", "review"}, photo : Photos]
Form == [kind |-> "form"]

Ops == {"none", "start", "prepare", "publish", "finish", "decline"}
Request == [op : Ops, photos : Seq(Photos), done : Nat]
NoRequest == [op |-> "none", photos |-> <<>>, done |-> 0]

UploadTypeOK ==
  /\ place \in [Photos -> Nat] /\ placed \in Nat
  /\ ready \in BOOLEAN
  /\ page \in [Tabs -> Page]
  /\ req \in [Tabs -> Request]
  /\ \A t \in Tabs : req[t].op # "none" => req[t].done < Len(req[t].photos)
  /\ latest \in Seq(Photos)

UploadInit ==
  /\ place = [p \in Photos |-> 0] /\ placed = 0
  /\ ready = FALSE
  /\ page = [t \in Tabs |-> Form]
  /\ req = [t \in Tabs |-> NoRequest]
  /\ latest = <<>>

Queue == {p \in Photos : place[p] > 0}
Pending(p) == p \in Queue /\ verdict[p] = "usable"
IsFirst(p, S) == p \in S /\ \A q \in S : place[p] <= place[q]

Without_Nothing(S) == place             \* mutant: queue.delete is forgotten
Without(S) == [p \in Photos |-> IF p \in S THEN 0 ELSE place[p]]

Show(t, shown) == page' = [page EXCEPT ![t] = shown]
Answer(t, shown) == Show(t, shown) /\ req' = [req EXCEPT ![t] = NoRequest]
Ask(t, op, photos) ==
  /\ req' = [req EXCEPT ![t] = [op |-> op, photos |-> photos, done |-> 0]]
  /\ UNCHANGED page

MayAsk(t) ==
  /\ req[t].op = "none"
  /\ Overlap \/ \A u \in Tabs : req[u].op = "none"

(* Mutant: the queue of the last upload is kept.                           *)

(* POST new: the queue is cleared before anything is awaited.              *)
Upload(t, b) ==
  /\ MayAsk(t)
  /\ Take(b)
  /\ latest' = b
  /\ place' = [p \in Photos |-> 0] /\ placed' = 0
  /\ Ask(t, "start", b)
  /\ UNCHANGED <<ready, verdict, products, accepted, refused, lapses>>

(* ensureBusiness: asks the database the first time only.                  *)
StartBatch(t) ==
  /\ req[t].op = "start"
  /\ \/ /\ ready' = TRUE
        /\ req' = [req EXCEPT ![t].op = "prepare"]
        /\ UNCHANGED <<page, lapses>>
     \/ /\ ~ready /\ Lapse("db")
        /\ Answer(t, Form)
        /\ UNCHANGED ready
  /\ UNCHANGED <<fresh, verdict, products, accepted, refused,
                 place, placed, latest>>

(* One image: generate, then into the queue.  After the last one the       *)
(* verdict on the first decides the answer.                                *)
PrepareImage(t, usable) ==
  /\ req[t].op = "prepare"
  /\ LET r == req[t]
         p == r.photos[r.done + 1]
     IN /\ Judge(p, usable)
        /\ placed' = placed + 1
        /\ place' = [place EXCEPT ![p] = placed + 1]
        /\ IF r.done + 1 < Len(r.photos)
             THEN req' = [req EXCEPT ![t].done = @ + 1] /\ UNCHANGED page
             ELSE Answer(t, IF verdict'[r.photos[1]] = "usable"
                              THEN [kind |-> "redirect", photo |-> r.photos[1]]
                              ELSE [kind |-> "rejected"])
  /\ UNCHANGED <<fresh, products, accepted, refused, lapses, ready, latest>>

(* GET review/:id, following a redirect or on an address another tab shows.*)
OpenReview(t, p) ==
  /\ req[t].op = "none"
  /\ \/ page[t] = [kind |-> "redirect", photo |-> p]
     \/ \E u \in Tabs \ {t} : page[u] = [kind |-> "review", photo |-> p]
  /\ Show(t, IF Pending(p) THEN [kind |-> "review", photo |-> p] ELSE Form)
  /\ UNCHANGED <<catalogVars, place, placed, ready, req, latest>>

(* POST review/:id, up to its first await.  An edit is an approval of other*)
(* words; one without a description is sent back to the same page and      *)
(* changes nothing.                                                        *)
SubmitReview(t, decision) ==
  /\ MayAsk(t)
  /\ page[t].kind = "review"
  /\ LET p == page[t].photo
     IN IF Pending(p)
          THEN /\ Ask(t, IF decision = "reject" THEN "decline" ELSE "publish", <<p>>)
               /\ accepted' = IF decision = "reject" THEN accepted
                                                     ELSE accepted \cup {p}
          ELSE Show(t, Form) /\ UNCHANGED <<req, accepted>>
  /\ UNCHANGED <<fresh, verdict, products, refused, lapses,
                 place, placed, ready, latest>>

(* publish: the handler still holds the listing it read from the queue.    *)
Publish(t) ==
  /\ req[t].op = "publish"
  /\ LET p == req[t].photos[1]
     IN \/ /\ Committed(p)
           /\ req' = [req EXCEPT ![t].op = "finish"]
           /\ UNCHANGED page
        \/ /\ Failed(p)
           /\ Answer(t, [kind |-> "review", photo |-> p])
  /\ UNCHANGED <<fresh, verdict, accepted, refused,
                 place, placed, ready, latest>>

(* The audit row is written: the entry leaves the queue, and the entry now *)
(* first is shown next; a rejection is consumed by showing it.             *)
FinishReview(t) ==
  /\ req[t].op \in {"finish", "decline"}
  /\ LET p == req[t].photos[1]
         rest == Queue \ {p}
     IN /\ refused' = IF req[t].op = "decline" THEN refused \cup {p} ELSE refused
        /\ \/ /\ rest = {}
              /\ place' = Without({p})
              /\ Answer(t, IF req[t].op = "finish" THEN [kind |-> "published"]
                                                   ELSE Form)
           \/ \E first \in Photos :
                /\ IsFirst(first, rest)
                /\ IF verdict[first] = "usable"
                     THEN /\ place' = Without({p})
                          /\ Answer(t, [kind |-> "redirect", photo |-> first])
                     ELSE /\ place' = Without({p, first})
                          /\ Answer(t, [kind |-> "rejected"])
  /\ UNCHANGED <<fresh, verdict, products, accepted, lapses,
                 placed, ready, latest>>

(* The API process restarts: queue, cached business and requests are gone; *)
(* a tab that waited is left with an error, which leads back to the form.  *)
RestartApi ==
  /\ Lapse("restart")
  /\ place' = [p \in Photos |-> 0] /\ placed' = 0
  /\ ready' = FALSE
  /\ req' = [t \in Tabs |-> NoRequest]
  /\ page' = [t \in Tabs |-> IF req[t].op = "none" THEN page[t] ELSE Form]
  /\ UNCHANGED <<fresh, verdict, products, accepted, refused, latest>>

UploadNext ==
  \/ \E t \in Tabs :
       \/ \E b \in Batches : Upload(t, b)
       \/ StartBatch(t)
       \/ \E usable \in BOOLEAN : PrepareImage(t, usable)
       \/ \E p \in Photos : OpenReview(t, p)
       \/ \E d \in {"approve", "reject"} : SubmitReview(t, d)
       \/ Publish(t)
       \/ FinishReview(t)
  \/ RestartApi

=============================================================================
