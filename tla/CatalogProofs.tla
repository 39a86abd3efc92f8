---------------------------- MODULE CatalogProofs ----------------------------
(***************************************************************************)
(* Theorems about CatalogSystem for every set of photos and tabs, every    *)
(* batch size and every failure budget.                                    *)
(***************************************************************************)
EXTENDS CatalogSystem, TLAPS

(* The images of a batch are fresh photos, no two of them the same.        *)
LEMMA BatchType ==
  ASSUME CatalogTypeOK, NEW b \in Batches
  PROVE  /\ b \in Seq(Photos) /\ Len(b) > 0 /\ DOMAIN b = 1..Len(b)
         /\ \A i \in 1..Len(b) : b[i] \in fresh
         /\ Distinct(b)
<1>1. PICK n \in 1..MaxBatch : b \in [1..n -> fresh]
  BY DEF Batches
<1>2. n \in Nat /\ n > 0
  BY <1>1, CatalogAssumption DEF CatalogAssumption
<1>3. fresh \subseteq Photos
  BY DEF CatalogTypeOK
<1>4. b \in Seq(fresh) /\ Len(b) = n
  BY <1>1, <1>2
<1>5. b \in Seq(Photos)
  BY <1>1, <1>2, <1>3
<1> QED
  BY <1>1, <1>2, <1>4, <1>5 DEF Batches, Distinct

-----------------------------------------------------------------------------
(* Type correctness.                                                       *)
LEMMA InitType == Init => TypeOK
<1> SUFFICES ASSUME Init PROVE TypeOK
  OBVIOUS
<1>1. <<>> \in Seq(Photos) /\ Len(<<>>) = 0
  OBVIOUS
<1>2. 0 \in 0..MaxFaults
  BY CatalogAssumption DEF CatalogAssumption
<1>3. CatalogTypeOK
  BY <1>2 DEF Init, CatalogInit, CatalogTypeOK
<1>4. NoRequest \in Request /\ Form \in Page
  BY <1>1 DEF NoRequest, Request, Ops, Form, Page
<1>5. UploadTypeOK
  BY <1>1, <1>4 DEF Init, UploadInit, UploadTypeOK, NoRequest
<1>6. ImportTypeOK
  BY <1>1 DEF Init, ImportInit, ImportTypeOK
<1> QED
  BY <1>3, <1>5, <1>6 DEF TypeOK

LEMMA LapseType ==
  ASSUME CatalogTypeOK, NEW k, Lapse(k)
  PROVE  lapses' \in 0..MaxFaults
BY CatalogAssumption DEF CatalogAssumption, CatalogTypeOK, Lapse

LEMMA JudgeType ==
  ASSUME CatalogTypeOK, NEW p \in Photos, NEW usable \in BOOLEAN, Judge(p, usable)
  PROVE  verdict' \in [Photos -> {"none", "usable", "unusable"}]
BY DEF CatalogTypeOK, Judge

LEMMA InsertType ==
  ASSUME CatalogTypeOK, NEW p \in Photos, Committed(p) \/ Failed(p)
  PROVE  products' \in [Photos -> Nat] /\ lapses' \in 0..MaxFaults
<1>1. CASE Committed(p)
  BY <1>1 DEF Committed, Insert, CatalogTypeOK
<1>2. CASE Failed(p)
  <2>1. PICK k \in {"db", "lost"} :
          Lapse(k) /\ IF k = "lost" THEN Insert(p) ELSE UNCHANGED products
    BY <1>2 DEF Failed
  <2>2. lapses' \in 0..MaxFaults
    BY <2>1, LapseType
  <2> QED
    BY <2>1, <2>2 DEF Insert, CatalogTypeOK
<1> QED
  BY <1>1, <1>2

(* Answering and asking keep pages and requests in their types.            *)
LEMMA AnswerType ==
  ASSUME UploadTypeOK, NEW t \in Tabs, NEW shown \in Page, Answer(t, shown)
  PROVE  /\ page' \in [Tabs -> Page] /\ req' \in [Tabs -> Request]
         /\ \A u \in Tabs : req'[u].op # "none" => req'[u].done < Len(req'[u].photos)
BY DEF UploadTypeOK, Answer, Show, NoRequest, Request, Ops

LEMMA AskType ==
  ASSUME UploadTypeOK, NEW t \in Tabs, NEW op \in Ops, NEW b \in Seq(Photos),
         Len(b) > 0, Ask(t, op, b)
  PROVE  /\ page' \in [Tabs -> Page] /\ req' \in [Tabs -> Request]
         /\ \A u \in Tabs : req'[u].op # "none" => req'[u].done < Len(req'[u].photos)
BY DEF UploadTypeOK, Ask, Request

(* A running request has a photo to go on with.                            *)
LEMMA RequestPhoto ==
  ASSUME UploadTypeOK, NEW t \in Tabs, req[t].op # "none"
  PROVE  /\ req[t] \in Request /\ Len(req[t].photos) \in Nat /\ req[t].done \in Nat
         /\ req[t].done + 1 \in 1..Len(req[t].photos)
         /\ req[t].photos[req[t].done + 1] \in Photos
         /\ req[t].photos[1] \in Photos
<1>1. /\ req[t] \in Request /\ req[t].photos \in Seq(Photos) /\ req[t].done \in Nat
      /\ req[t].done < Len(req[t].photos)
  BY DEF UploadTypeOK, Request
<1> QED
  BY SMTT(30), <1>1

LEMMA PageType ==
  ASSUME NEW p \in Photos
  PROVE  /\ Form \in Page
         /\ [kind |-> "rejected"] \in Page /\ [kind |-> "published"] \in Page
         /\ [kind |-> "redirect", photo |-> p] \in Page
         /\ [kind |-> "review", photo |-> p] \in Page
BY DEF Page, Form

LEMMA UploadType ==
  ASSUME TypeOK, UploadNext, UNCHANGED importVars
  PROVE  TypeOK'
<1> USE DEF TypeOK
<1>0. ImportTypeOK'
  BY DEF importVars, ImportTypeOK
<1>1. ASSUME NEW t \in Tabs, NEW b \in Batches, Upload(t, b) PROVE TypeOK'
  <2>1. b \in Seq(Photos) /\ Len(b) > 0
    BY BatchType
  <2>2. Ask(t, "start", b) /\ "start" \in Ops
    BY <1>1 DEF Upload, Ops
  <2>3. UploadTypeOK'
    BY <1>1, <2>1, <2>2, AskType DEF Upload, UploadTypeOK
  <2>4. CatalogTypeOK'
    BY <1>1 DEF Upload, Take, CatalogTypeOK
  <2> QED
    BY <1>0, <2>3, <2>4
<1>2. ASSUME NEW t \in Tabs, StartBatch(t) PROVE TypeOK'
  <2>1. lapses' \in 0..MaxFaults
    BY <1>2, LapseType DEF StartBatch, CatalogTypeOK
  <2>2. CatalogTypeOK'
    BY <1>2, <2>1 DEF StartBatch, CatalogTypeOK
  <2>4. CASE ready' = TRUE /\ req' = [req EXCEPT ![t].op = "prepare"] /\ UNCHANGED page
    <3>1. req'[t].photos = req[t].photos /\ req'[t].done = req[t].done
      BY <1>2, <2>4, RequestPhoto DEF StartBatch, UploadTypeOK, Request
    <3>2. req' \in [Tabs -> Request]
      BY <1>2, <2>4 DEF StartBatch, UploadTypeOK, Request, Ops
    <3>3. \A u \in Tabs : u # t => req'[u] = req[u]
      BY <2>4 DEF UploadTypeOK
    <3>4. \A u \in Tabs : req'[u].op # "none" => req'[u].done < Len(req'[u].photos)
      BY <1>2, <3>1, <3>3 DEF StartBatch, UploadTypeOK
    <3>5. UploadTypeOK'
      BY <1>2, <2>4, <3>2, <3>4 DEF StartBatch, UploadTypeOK
    <3> QED
      BY <1>0, <2>2, <3>5
  <2>5. Answer(t, Form) /\ UNCHANGED ready => UploadTypeOK'
    BY <1>2, AnswerType, PageType DEF StartBatch, UploadTypeOK, Page, Form
  <2> QED
    BY <1>0, <1>2, <2>2, <2>4, <2>5 DEF StartBatch
<1>3. ASSUME NEW t \in Tabs, NEW usable \in BOOLEAN, PrepareImage(t, usable) PROVE TypeOK'
  <2> DEFINE r == req[t]
             p == r.photos[r.done + 1]
             shown == IF verdict'[r.photos[1]] = "usable"
                        THEN [kind |-> "redirect", photo |-> r.photos[1]]
                        ELSE [kind |-> "rejected"]
  <2>1. /\ r \in Request /\ r.done \in Nat /\ Len(r.photos) \in Nat
        /\ p \in Photos /\ r.photos[1] \in Photos
    BY <1>3, RequestPhoto DEF PrepareImage
  <2>2. CatalogTypeOK'
    BY <1>3, <2>1, JudgeType DEF PrepareImage, CatalogTypeOK
  <2>3. placed' \in Nat /\ place' \in [Photos -> Nat]
    BY <1>3, <2>1 DEF PrepareImage, UploadTypeOK
  <2>4. CASE r.done + 1 < Len(r.photos)
    <3>1. req' = [req EXCEPT ![t].done = @ + 1] /\ UNCHANGED page
      BY <1>3, <2>4 DEF PrepareImage
    <3>2. req' \in [Tabs -> Request]
      <4>1. r.done + 1 \in Nat /\ r.op \in Ops /\ r.photos \in Seq(Photos)
        BY <2>1 DEF Request
      <4>2. [r EXCEPT !.done = @ + 1] \in Request
        BY <2>1, <4>1 DEF Request
      <4>3. req' = [req EXCEPT ![t] = [r EXCEPT !.done = @ + 1]]
        BY <3>1
      <4> QED
        BY <4>2, <4>3 DEF UploadTypeOK
    <3>3. req'[t].done = r.done + 1 /\ req'[t].photos = r.photos
      BY <2>1, <3>1 DEF UploadTypeOK, Request
    <3>4. \A u \in Tabs : u # t => req'[u] = req[u]
      BY <3>1 DEF UploadTypeOK
    <3>5. \A u \in Tabs : req'[u].op # "none" => req'[u].done < Len(req'[u].photos)
      BY <2>4, <3>3, <3>4 DEF UploadTypeOK
    <3>6. UploadTypeOK'
      BY <1>3, <2>3, <3>1, <3>2, <3>5 DEF PrepareImage, UploadTypeOK
    <3> QED
      BY <1>0, <2>2, <3>6
  <2>5. CASE ~(r.done + 1 < Len(r.photos))
    <3>1. Answer(t, shown)
      BY <1>3, <2>5 DEF PrepareImage
    <3>2. shown \in Page
      BY <2>1, PageType
    <3> HIDE DEF shown
    <3>3. UploadTypeOK'
      BY <1>3, <2>3, <3>1, <3>2, AnswerType DEF PrepareImage, UploadTypeOK
    <3> QED
      BY <1>0, <2>2, <3>3
  <2> QED
    BY <2>4, <2>5
<1>4. ASSUME NEW t \in Tabs, NEW p \in Photos, OpenReview(t, p) PROVE TypeOK'
  <2>1. page' \in [Tabs -> Page]
    BY <1>4, PageType DEF OpenReview, Show, UploadTypeOK
  <2> QED
    BY <1>0, <1>4, <2>1 DEF OpenReview, catalogVars, CatalogTypeOK, UploadTypeOK
<1>5. ASSUME NEW t \in Tabs, NEW d \in {"approve", "reject"}, SubmitReview(t, d) PROVE TypeOK'
  <2> DEFINE p == page[t].photo
             op == IF d = "reject" THEN "decline" ELSE "publish"
  <2>1. CASE Pending(p)
    <3>1. p \in Photos
      BY <2>1 DEF Pending, Queue
    <3>2. <<p>> \in Seq(Photos) /\ Len(<<p>>) > 0 /\ op \in Ops
      BY <3>1 DEF Ops
    <3>3. Ask(t, op, <<p>>) /\ accepted' \in SUBSET Photos
      BY <1>5, <2>1, <3>1 DEF SubmitReview, CatalogTypeOK
    <3> HIDE DEF op, p
    <3>4. UploadTypeOK'
      BY <1>5, <3>2, <3>3, AskType DEF SubmitReview, UploadTypeOK
    <3> QED
      BY <1>0, <1>5, <3>3, <3>4 DEF SubmitReview, CatalogTypeOK
  <2>2. CASE ~Pending(p)
    <3>1. Show(t, Form) /\ UNCHANGED <<req, accepted>>
      BY <1>5, <2>2 DEF SubmitReview
    <3>2. page' \in [Tabs -> Page]
      BY <3>1 DEF Show, UploadTypeOK, Page, Form
    <3> QED
      BY <1>0, <1>5, <3>1, <3>2 DEF SubmitReview, CatalogTypeOK, UploadTypeOK
  <2> QED
    BY <2>1, <2>2
<1>6. ASSUME NEW t \in Tabs, Publish(t) PROVE TypeOK'
  <2> DEFINE p == req[t].photos[1]
  <2>1. p \in Photos
    BY <1>6, RequestPhoto DEF Publish
  <2>2. CatalogTypeOK'
    BY <1>6, <2>1, InsertType DEF Publish, CatalogTypeOK
  <2>3. CASE req' = [req EXCEPT ![t].op = "finish"] /\ UNCHANGED page
    <3>1. req'[t].photos = req[t].photos /\ req'[t].done = req[t].done
      BY <1>6, <2>3, RequestPhoto DEF Publish, UploadTypeOK, Request
    <3>2. req' \in [Tabs -> Request]
      BY <1>6, <2>3 DEF UploadTypeOK, Request, Ops
    <3>3. \A u \in Tabs : u # t => req'[u] = req[u]
      BY <2>3 DEF UploadTypeOK
    <3>4. \A u \in Tabs : req'[u].op # "none" => req'[u].done < Len(req'[u].photos)
      BY <1>6, <3>1, <3>3 DEF Publish, UploadTypeOK
    <3>5. UploadTypeOK'
      BY <1>6, <2>3, <3>2, <3>4 DEF Publish, UploadTypeOK
    <3> QED
      BY <1>0, <2>2, <3>5
  <2>4. CASE Answer(t, [kind |-> "review", photo |-> p])
    <3>1. [kind |-> "review", photo |-> p] \in Page
      BY <2>1, PageType
    <3> HIDE DEF p
    <3>2. UploadTypeOK'
      BY <1>6, <2>4, <3>1, AnswerType DEF Publish, UploadTypeOK
    <3> QED
      BY <1>0, <2>2, <3>2
  <2> QED
    BY <1>6, <2>3, <2>4 DEF Publish
<1>7. ASSUME NEW t \in Tabs, FinishReview(t) PROVE TypeOK'
  <2>1. req[t].photos[1] \in Photos
    BY <1>7, RequestPhoto DEF FinishReview
  <2>2. CatalogTypeOK'
    BY <1>7, <2>1 DEF FinishReview, CatalogTypeOK
  <2>3. PICK shown \in Page : place' \in [Photos -> Nat] /\ Answer(t, shown)
    <3>1. Form \in Page /\ [kind |-> "published"] \in Page /\ [kind |-> "rejected"] \in Page
      BY DEF Page, Form
    <3>2. \A p \in Photos : [kind |-> "redirect", photo |-> p] \in Page
      BY PageType
    <3> DEFINE p == req[t].photos[1]
               rest == Queue \ {p}
               last == IF req[t].op = "finish" THEN [kind |-> "published"] ELSE Form
    <3>0. \A S : Without(S) \in [Photos -> Nat]
      BY DEF Without, UploadTypeOK
    <3>3. CASE rest = {} /\ place' = Without({p}) /\ Answer(t, last)
      <4>1. last \in Page
        BY <3>1
      <4> HIDE DEF last
      <4> QED
        BY <3>0, <3>3, <4>1
    <3>4. ASSUME NEW first \in Photos,
                 \/ /\ place' = Without({p})
                    /\ Answer(t, [kind |-> "redirect", photo |-> first])
                 \/ /\ place' = Without({p, first})
                    /\ Answer(t, [kind |-> "rejected"])
          PROVE  \E shown \in Page : place' \in [Photos -> Nat] /\ Answer(t, shown)
      BY <3>0, <3>1, <3>2, <3>4
    <3> QED
      BY <1>7, <3>3, <3>4 DEF FinishReview
  <2>4. UploadTypeOK'
    BY <1>7, <2>3, AnswerType DEF FinishReview, UploadTypeOK
  <2> QED
    BY <1>0, <2>2, <2>4
<1>8. ASSUME RestartApi PROVE TypeOK'
  <2>1. CatalogTypeOK'
    BY <1>8, LapseType DEF RestartApi, CatalogTypeOK
  <2>2. page' \in [Tabs -> Page] /\ req' \in [Tabs -> Request]
    <3>1. NoRequest \in Request /\ Form \in Page
      BY DEF NoRequest, Request, Ops, Form, Page
    <3> QED
      BY <1>8, <3>1 DEF RestartApi, UploadTypeOK
  <2>3. UploadTypeOK'
    BY <1>8, <2>2 DEF RestartApi, UploadTypeOK, NoRequest
  <2> QED
    BY <1>0, <2>1, <2>3
<1> QED
  BY <1>1, <1>2, <1>3, <1>4, <1>5, <1>6, <1>7, <1>8 DEF UploadNext

(* The item worked on.                                                     *)
LEMMA ItemPhoto ==
  ASSUME ImportTypeOK, item > 0
  PROVE  /\ item \in 1..Len(batch) /\ Len(batch) \in Nat /\ item \in Nat
         /\ batch[item] \in Photos
BY DEF ImportTypeOK

LEMMA ReportType ==
  ASSUME ImportTypeOK, item > 0, NEW result \in Results, Report(result)
  PROVE  ImportTypeOK'
<1>1. /\ item \in 1..Len(batch) /\ Len(batch) \in Nat
      /\ batch[item] \in Photos
  BY ItemPhoto
<1>2. report' \in [Photos -> Results \cup {"none"}]
  BY <1>1 DEF Report, ImportTypeOK
<1>3. item' \in 0..Len(batch')
  BY <1>1 DEF Report
<1> QED
  BY <1>2, <1>3 DEF Report, ImportTypeOK

LEMMA ImportType ==
  ASSUME TypeOK, ImportNext, UNCHANGED uploadVars
  PROVE  TypeOK'
<1> USE DEF TypeOK
<1>0. UploadTypeOK'
  BY DEF uploadVars, UploadTypeOK
<1>1. ASSUME NEW b \in Batches, StartImport(b) PROVE TypeOK'
  <2>1. b \in Seq(Photos) /\ Len(b) > 0 /\ Len(b) \in Nat
    BY BatchType
  <2>2. CatalogTypeOK'
    BY <1>1 DEF StartImport, Take, CatalogTypeOK
  <2>3. ImportTypeOK'
    BY <1>1, <2>1 DEF StartImport, ImportTypeOK
  <2> QED
    BY <1>0, <2>2, <2>3
<1>2. ASSUME NEW usable \in BOOLEAN, PrepareItem(usable) PROVE TypeOK'
  <2>1. item > 0 /\ batch[item] \in Photos
    BY <1>2, ItemPhoto DEF PrepareItem
  <2>2. CatalogTypeOK'
    BY <1>2, <2>1, JudgeType DEF PrepareItem, CatalogTypeOK
  <2>3. Report("image_rejected") => ImportTypeOK'
    BY <2>1, ReportType DEF Results
  <2>4. Continue("review") => ImportTypeOK'
    BY DEF Continue, ImportTypeOK
  <2> QED
    BY <1>0, <1>2, <2>2, <2>3, <2>4 DEF PrepareItem
<1>3. ASSUME NEW d \in {"approve", "reject"}, ReviewItem(d) PROVE TypeOK'
  <2>1. item > 0 /\ batch[item] \in Photos
    BY <1>3, ItemPhoto DEF ReviewItem
  <2>2. CatalogTypeOK'
    BY <1>3, <2>1 DEF ReviewItem, CatalogTypeOK
  <2>3. Report("review_rejected") => ImportTypeOK'
    BY <2>1, ReportType DEF Results
  <2>4. Continue("publish") => ImportTypeOK'
    BY DEF Continue, ImportTypeOK
  <2> QED
    BY <1>0, <1>3, <2>2, <2>3, <2>4 DEF ReviewItem
<1>4. ASSUME PublishItem PROVE TypeOK'
  <2>1. item > 0 /\ batch[item] \in Photos
    BY <1>4, ItemPhoto DEF PublishItem
  <2>2. Committed(batch[item]) \/ Failed(batch[item])
    BY <1>4 DEF PublishItem
  <2>3. CatalogTypeOK'
    BY <1>4, <2>1, <2>2, InsertType DEF PublishItem, CatalogTypeOK
  <2>4. \E result \in Results : Report(result)
    BY <1>4 DEF PublishItem, Results
  <2>5. ImportTypeOK'
    BY <2>1, <2>4, ReportType
  <2> QED
    BY <1>0, <2>3, <2>5
<1>5. ASSUME AbortImport PROVE TypeOK'
  <2>1. item > 0 /\ batch[item] \in Photos
    BY <1>5, ItemPhoto DEF AbortImport
  <2>2. products' \in [Photos -> Nat]
    BY <1>5, <2>1 DEF AbortImport, Insert, CatalogTypeOK
  <2>3. CatalogTypeOK'
    BY <1>5, <2>2, LapseType DEF AbortImport, CatalogTypeOK
  <2>4. ImportTypeOK'
    BY <1>5 DEF AbortImport, ImportTypeOK
  <2> QED
    BY <1>0, <2>3, <2>4
<1> QED
  BY <1>1, <1>2, <1>3, <1>4, <1>5 DEF ImportNext

LEMMA TypeStep == TypeOK /\ [Next]_vars => TypeOK'
<1> SUFFICES ASSUME TypeOK, [Next]_vars PROVE TypeOK'
  OBVIOUS
<1>1. CASE UNCHANGED vars
  BY <1>1 DEF vars, catalogVars, uploadVars, importVars,
       TypeOK, CatalogTypeOK, UploadTypeOK, ImportTypeOK
<1> QED
  BY <1>1, UploadType, ImportType DEF Next

(* Every variable of the upload form and of the import command keeps its   *)
(* type: no request runs past the images it was sent, no import past its   *)
(* batch, and every page names a photo of the shop.                        *)
THEOREM CatalogTypeCorrect == Spec => []TypeOK
<1> QED
  BY InitType, TypeStep, PTL DEF Spec

-----------------------------------------------------------------------------
(* A photo is judged once.                                                 *)

LEMMA InitUnjudged == Init => UnjudgedInv
<1> SUFFICES ASSUME Init PROVE UnjudgedInv
  OBVIOUS
<1>1. CliLeft = {} /\ \A t \in Tabs : WebLeft(t) = {}
  BY DEF Init, ImportInit, UploadInit, NoRequest, CliLeft, WebLeft
<1>2. Distinct(<<>>)
  BY DEF Distinct
<1>3. \A p \in fresh : verdict[p] = "none"
  BY DEF Init, CatalogInit
<1> QED
  BY <1>1, <1>2, <1>3 DEF Init, ImportInit, UploadInit, NoRequest, UnjudgedInv

(* A step that judges nothing and takes nothing new to judge.              *)
LEMMA UnjudgedShrinks ==
  ASSUME UnjudgedInv, UNCHANGED <<fresh, verdict>>,
         CliLeft' \subseteq CliLeft,
         \A t \in Tabs : WebLeft(t)' \subseteq WebLeft(t),
         Distinct(batch'), \A t \in Tabs : Distinct(req'[t].photos)
  PROVE  UnjudgedInv'
BY DEF UnjudgedInv

(* A step of the form that changes one tab's request, without judging.     *)
LEMMA UnjudgedTab ==
  ASSUME UnjudgedInv, UploadTypeOK, UNCHANGED <<fresh, verdict>>, UNCHANGED importVars,
         NEW t \in Tabs, NEW r, req' = [req EXCEPT ![t] = r],
         Distinct(r.photos),
         r.op \in {"start", "prepare"} =>
           /\ req[t].op \in {"start", "prepare"}
           /\ r.photos = req[t].photos /\ r.done = req[t].done
  PROVE  UnjudgedInv'
<1>1. req'[t] = r /\ \A u \in Tabs : u # t => req'[u] = req[u]
  BY DEF UploadTypeOK
<1>2. \A u \in Tabs : WebLeft(u)' \subseteq WebLeft(u)
  BY <1>1 DEF WebLeft
<1>3. CliLeft' = CliLeft /\ Distinct(batch')
  BY DEF importVars, CliLeft, UnjudgedInv
<1>4. \A u \in Tabs : Distinct(req'[u].photos)
  BY <1>1 DEF UnjudgedInv
<1> QED
  BY <1>2, <1>3, <1>4, UnjudgedShrinks

LEMMA UnjudgedAnswer ==
  ASSUME UnjudgedInv, UploadTypeOK, fresh' = fresh, verdict' = verdict,
         UNCHANGED importVars, NEW t \in Tabs, NEW shown, Answer(t, shown)
  PROVE  UnjudgedInv'
<1>1. req' = [req EXCEPT ![t] = NoRequest]
  BY DEF Answer
<1>2. Distinct(NoRequest.photos) /\ NoRequest.op \notin {"start", "prepare"}
  BY DEF NoRequest, Distinct
<1> QED
  BY <1>1, <1>2, UnjudgedTab

LEMMA UnjudgedSame ==
  ASSUME UnjudgedInv, fresh' = fresh, verdict' = verdict, req' = req,
         UNCHANGED importVars
  PROVE  UnjudgedInv'
<1>1. CliLeft' = CliLeft /\ batch' = batch
  BY DEF importVars, CliLeft
<1>2. \A t \in Tabs : WebLeft(t)' = WebLeft(t) /\ req'[t] = req[t]
  BY DEF WebLeft
<1> QED
  BY <1>1, <1>2 DEF UnjudgedInv

(* What a batch takes is no longer fresh and is not judged yet.            *)
LEMMA BatchTaken ==
  ASSUME CatalogTypeOK, NEW b \in Batches, Take(b), UnjudgedInv
  PROVE  LET taken == {b[i] : i \in 1..Len(b)} IN
         /\ taken \subseteq fresh /\ fresh' = fresh \ taken
         /\ \A p \in taken : verdict[p] = "none"
<1>1. DOMAIN b = 1..Len(b) /\ \A i \in 1..Len(b) : b[i] \in fresh
  BY BatchType
<1> QED
  BY <1>1 DEF Take, UnjudgedInv

LEMMA UploadUnjudged ==
  ASSUME TypeOK, UnjudgedInv, UploadNext, UNCHANGED importVars
  PROVE  UnjudgedInv'
<1> USE DEF TypeOK
<1>0. CliLeft' = CliLeft /\ batch' = batch
  BY DEF importVars, CliLeft
<1>1. ASSUME NEW t \in Tabs, NEW b \in Batches, Upload(t, b) PROVE UnjudgedInv'
  <2> DEFINE taken == {b[i] : i \in 1..Len(b)}
  <2>1. taken \subseteq fresh /\ fresh' = fresh \ taken
    BY <1>1, BatchTaken DEF Upload
  <2>2. /\ req'[t] = [op |-> "start", photos |-> b, done |-> 0]
        /\ \A u \in Tabs : u # t => req'[u] = req[u]
    BY <1>1 DEF Upload, Ask, UploadTypeOK
  <2>3. WebLeft(t)' = taken
    BY <2>2 DEF WebLeft
  <2>4. \A u \in Tabs : u # t => WebLeft(u)' = WebLeft(u)
    BY <2>2 DEF WebLeft
  <2>5. Distinct(b)
    BY BatchType
  <2>6. \A u \in Tabs : Distinct(req'[u].photos)
    BY <2>2, <2>5 DEF UnjudgedInv
  <2>7. verdict' = verdict
    BY <1>1 DEF Upload
  <2> HIDE DEF taken
  <2> QED
    BY <1>0, <2>1, <2>3, <2>4, <2>6, <2>7 DEF UnjudgedInv
<1>2. ASSUME NEW t \in Tabs, StartBatch(t) PROVE UnjudgedInv'
  <2>1. fresh' = fresh /\ verdict' = verdict
    BY <1>2 DEF StartBatch
  <2>2. CASE req' = [req EXCEPT ![t].op = "prepare"]
    <3> DEFINE r == [req[t] EXCEPT !.op = "prepare"]
    <3>1. req' = [req EXCEPT ![t] = r] /\ r.photos = req[t].photos /\ r.done = req[t].done
      BY <2>2, <1>2, RequestPhoto DEF StartBatch, Request
    <3>2. Distinct(r.photos)
      BY <3>1 DEF UnjudgedInv
    <3> HIDE DEF r
    <3> QED
      BY <1>2, <2>1, <3>1, <3>2, UnjudgedTab DEF StartBatch
  <2>3. CASE Answer(t, Form)
    BY <2>1, <2>3, UnjudgedAnswer
  <2> QED
    BY <1>2, <2>2, <2>3 DEF StartBatch
<1>3. ASSUME NEW t \in Tabs, NEW usable \in BOOLEAN, PrepareImage(t, usable)
      PROVE  UnjudgedInv'
  <2> DEFINE r == req[t]
             n == r.done + 1
             p == r.photos[n]
  <2>1. /\ r \in Request /\ n \in 1..Len(r.photos) /\ Len(r.photos) \in Nat
        /\ DOMAIN r.photos = 1..Len(r.photos) /\ r.done \in Nat /\ p \in Photos
    BY <1>3, RequestPhoto DEF PrepareImage, Request
  <2>2. p \in WebLeft(t)
    BY <1>3, <2>1 DEF PrepareImage, WebLeft
  <2>3. \A q \in Photos : q # p => verdict'[q] = verdict[q]
    BY <1>3 DEF PrepareImage, Judge, CatalogTypeOK
  <2>4. \A u \in Tabs : u # t => req'[u] = req[u]
    BY <1>3 DEF PrepareImage, Answer, UploadTypeOK
  <2>5. \A u \in Tabs : u # t => WebLeft(u)' = WebLeft(u)
    BY <2>4 DEF WebLeft
  <2>6. WebLeft(t)' \subseteq WebLeft(t) \ {p} /\ Distinct(req'[t].photos)
    <3>1. CASE n < Len(r.photos)
      <4>1. /\ req'[t].done = n /\ req'[t].photos = r.photos /\ req'[t].op = "prepare"
        BY <1>3, <2>1, <3>1 DEF PrepareImage, UploadTypeOK, Request
      <4>2. WebLeft(t)' = {r.photos[i] : i \in (n + 1)..Len(r.photos)}
        BY <4>1 DEF WebLeft
      <4>3. WebLeft(t) = {r.photos[i] : i \in n..Len(r.photos)}
        BY <1>3 DEF PrepareImage, WebLeft
      <4>4. \A i \in (n + 1)..Len(r.photos) : i \in n..Len(r.photos) /\ r.photos[i] # p
        <5>1. Distinct(r.photos)
          BY DEF UnjudgedInv
        <5> QED
          BY <2>1, <5>1 DEF Distinct
      <4>5. Distinct(req'[t].photos)
        BY <4>1 DEF UnjudgedInv
      <4> QED
        BY <4>2, <4>3, <4>4, <4>5
    <3>2. CASE ~(n < Len(r.photos))
      <4>1. req'[t] = NoRequest
        BY <1>3, <3>2 DEF PrepareImage, Answer, UploadTypeOK
      <4> QED
        BY <4>1 DEF WebLeft, NoRequest, Distinct
    <3> QED
      BY <3>1, <3>2
  <2>7. \A u \in Tabs : Distinct(req'[u].photos)
    BY <2>4, <2>6 DEF UnjudgedInv
  <2>8. fresh' = fresh /\ fresh \subseteq Photos
    BY <1>3 DEF PrepareImage, CatalogTypeOK
  <2>9. p \notin fresh' /\ p \notin CliLeft' /\ \A u \in Tabs : p \notin WebLeft(u)'
    BY <1>0, <2>2, <2>5, <2>6, <2>8 DEF UnjudgedInv
  <2>10. /\ CliLeft' \subseteq Photos
         /\ \A u \in Tabs : WebLeft(u) \subseteq Photos
    <3>1. CliLeft \subseteq Photos
      BY DEF CliLeft, ImportTypeOK
    <3>2. ASSUME NEW u \in Tabs PROVE WebLeft(u) \subseteq Photos
      <4>1. req[u].photos \in Seq(Photos) /\ req[u].done \in Nat
        BY DEF UploadTypeOK, Request
      <4> QED
        BY <4>1 DEF WebLeft
    <3> QED
      BY <1>0, <3>1, <3>2
  <2>11. \A u \in Tabs : WebLeft(u)' \subseteq WebLeft(u)
    BY <2>5, <2>6
  <2> HIDE DEF p, r, n
  <2>12. \A q \in fresh' \cup CliLeft' \cup UNION {WebLeft(u)' : u \in Tabs} :
           verdict'[q] = "none"
    BY <1>0, <2>3, <2>8, <2>9, <2>10, <2>11 DEF UnjudgedInv
  <2> QED
    BY <1>0, <2>7, <2>8, <2>11, <2>12 DEF UnjudgedInv
<1>4. ASSUME NEW t \in Tabs, NEW p \in Photos, OpenReview(t, p) PROVE UnjudgedInv'
  BY <1>4, UnjudgedSame DEF OpenReview, catalogVars
<1>5. ASSUME NEW t \in Tabs, NEW d \in {"approve", "reject"}, SubmitReview(t, d)
      PROVE  UnjudgedInv'
  <2> DEFINE p == page[t].photo
             r == [op |-> IF d = "reject" THEN "decline" ELSE "publish",
                   photos |-> <<p>>, done |-> 0]
  <2>1. fresh' = fresh /\ verdict' = verdict
    BY <1>5 DEF SubmitReview
  <2>2. CASE Pending(p)
    <3>1. req' = [req EXCEPT ![t] = r]
      BY <1>5, <2>2 DEF SubmitReview, Ask
    <3>2. Distinct(r.photos) /\ r.op \notin {"start", "prepare"}
      BY DEF Distinct
    <3> HIDE DEF r
    <3> QED
      BY <2>1, <3>1, <3>2, UnjudgedTab
  <2>3. CASE ~Pending(p)
    <3>1. req' = req
      BY <1>5, <2>3 DEF SubmitReview
    <3> QED
      BY <2>1, <3>1, UnjudgedSame
  <2> QED
    BY <2>2, <2>3
<1>6. ASSUME NEW t \in Tabs, Publish(t) PROVE UnjudgedInv'
  <2>1. fresh' = fresh /\ verdict' = verdict
    BY <1>6 DEF Publish
  <2>2. CASE req' = [req EXCEPT ![t].op = "finish"]
    <3> DEFINE r == [req[t] EXCEPT !.op = "finish"]
    <3>1. /\ req' = [req EXCEPT ![t] = r] /\ r.op = "finish"
          /\ r.photos = req[t].photos
      BY <2>2, <1>6, RequestPhoto DEF Publish, Request
    <3>2. Distinct(r.photos)
      BY <3>1 DEF UnjudgedInv
    <3> HIDE DEF r
    <3> QED
      BY <2>1, <3>1, <3>2, UnjudgedTab
  <2>3. ASSUME NEW shown, Answer(t, shown) PROVE UnjudgedInv'
    BY <2>1, <2>3, UnjudgedAnswer
  <2> QED
    BY <1>6, <2>2, <2>3 DEF Publish
<1>7. ASSUME NEW t \in Tabs, FinishReview(t) PROVE UnjudgedInv'
  <2>1. fresh' = fresh /\ verdict' = verdict
    BY <1>7 DEF FinishReview
  <2>2. \E shown : Answer(t, shown)
    BY <1>7 DEF FinishReview
  <2> QED
    BY <2>1, <2>2, UnjudgedAnswer
<1>8. ASSUME RestartApi PROVE UnjudgedInv'
  <2>1. \A t \in Tabs : WebLeft(t)' = {} /\ Distinct(req'[t].photos)
    BY <1>8 DEF RestartApi, NoRequest, WebLeft, Distinct
  <2> QED
    BY <1>0, <1>8, <2>1, UnjudgedShrinks DEF RestartApi, UnjudgedInv
<1> QED
  BY <1>1, <1>2, <1>3, <1>4, <1>5, <1>6, <1>7, <1>8 DEF UploadNext

(* Reporting an item moves the import on to the next.                      *)
LEMMA ReportLeft ==
  ASSUME ImportTypeOK, item > 0, NEW result, Report(result), Distinct(batch)
  PROVE  CliLeft' \subseteq CliLeft \ {batch[item]} /\ batch' = batch
<1>1. item \in 1..Len(batch) /\ Len(batch) \in Nat /\ DOMAIN batch = 1..Len(batch)
  BY ItemPhoto DEF ImportTypeOK
<1>2. CASE item = Len(batch)
  <2>1. item' = 0 /\ batch' = batch
    BY <1>2 DEF Report
  <2> QED
    BY <2>1 DEF CliLeft
<1>3. CASE item # Len(batch)
  <2>0. item + 1 # 0 /\ item \in Nat
    BY <1>1
  <2>1. item' = item + 1 /\ step' = "prepare" /\ batch' = batch /\ item' # 0
    BY <2>0, <1>3 DEF Report
  <2>2. CliLeft' = {batch[i] : i \in (item + 1)..Len(batch)}
    BY <2>1 DEF CliLeft
  <2>3. \A i \in (item + 1)..Len(batch) : batch[i] \in CliLeft /\ batch[i] # batch[item]
    BY <1>1 DEF CliLeft, Distinct
  <2> QED
    BY <2>1, <2>2, <2>3
<1> QED
  BY <1>2, <1>3 DEF Report

LEMMA ImportUnjudged ==
  ASSUME TypeOK, UnjudgedInv, ImportNext, UNCHANGED uploadVars
  PROVE  UnjudgedInv'
<1> USE DEF TypeOK
<1>0. /\ \A t \in Tabs : WebLeft(t)' = WebLeft(t)
      /\ \A t \in Tabs : Distinct(req'[t].photos)
  BY DEF uploadVars, WebLeft, UnjudgedInv
<1>1. ASSUME NEW b \in Batches, StartImport(b) PROVE UnjudgedInv'
  <2> DEFINE taken == {b[i] : i \in 1..Len(b)}
  <2>1. taken \subseteq fresh /\ fresh' = fresh \ taken
    BY <1>1, BatchTaken DEF StartImport
  <2>2. CliLeft' = taken
    BY <1>1 DEF StartImport, CliLeft
  <2>3. Distinct(batch') /\ verdict' = verdict
    BY <1>1, BatchType DEF StartImport
  <2> HIDE DEF taken
  <2> QED
    BY <1>0, <2>1, <2>2, <2>3 DEF UnjudgedInv
<1>2. ASSUME NEW usable \in BOOLEAN, PrepareItem(usable) PROVE UnjudgedInv'
  <2> DEFINE p == batch[item]
  <2>1. /\ item \in 1..Len(batch) /\ Len(batch) \in Nat /\ item > 0
        /\ DOMAIN batch = 1..Len(batch) /\ p \in Photos
    BY <1>2, ItemPhoto DEF PrepareItem, ImportTypeOK
  <2>2. p \in CliLeft
    BY <1>2, <2>1 DEF PrepareItem, CliLeft
  <2>3. \A q \in Photos : q # p => verdict'[q] = verdict[q]
    BY <1>2 DEF PrepareItem, Judge, CatalogTypeOK
  <2>4. CliLeft' \subseteq CliLeft \ {p} /\ batch' = batch
    <3>1. CASE Report("image_rejected")
      BY <2>1, <3>1, ReportLeft DEF UnjudgedInv
    <3>2. CASE Continue("review")
      <4>1. CliLeft' = {batch[i] : i \in (item + 1)..Len(batch)}
        BY <2>1, <3>2 DEF Continue, CliLeft
      <4>2. CliLeft = {batch[i] : i \in item..Len(batch)}
        BY <1>2, <2>1 DEF PrepareItem, CliLeft
      <4>3. \A i \in (item + 1)..Len(batch) : i \in item..Len(batch) /\ batch[i] # p
        BY <2>1 DEF UnjudgedInv, Distinct
      <4> QED
        BY <3>2, <4>1, <4>2, <4>3 DEF Continue
    <3> QED
      BY <1>2, <3>1, <3>2 DEF PrepareItem
  <2>5. fresh' = fresh /\ fresh \subseteq Photos
    BY <1>2 DEF PrepareItem, CatalogTypeOK
  <2>6. CliLeft \subseteq Photos /\ \A u \in Tabs : WebLeft(u) \subseteq Photos
    <3>1. CliLeft \subseteq Photos
      BY DEF CliLeft, ImportTypeOK
    <3>2. ASSUME NEW u \in Tabs PROVE WebLeft(u) \subseteq Photos
      <4>1. req[u].photos \in Seq(Photos) /\ req[u].done \in Nat
        BY DEF UploadTypeOK, Request
      <4> QED
        BY <4>1 DEF WebLeft
    <3> QED
      BY <3>1, <3>2
  <2> HIDE DEF p
  <2>7. p \notin fresh /\ p \notin CliLeft' /\ \A u \in Tabs : p \notin WebLeft(u)
    BY <2>2, <2>4 DEF UnjudgedInv
  <2>8. \A q \in fresh' \cup CliLeft' \cup UNION {WebLeft(u)' : u \in Tabs} :
          verdict'[q] = "none"
    BY <1>0, <2>3, <2>4, <2>5, <2>6, <2>7 DEF UnjudgedInv
  <2> QED
    BY <1>0, <2>4, <2>5, <2>8 DEF UnjudgedInv
<1>3. ASSUME NEW d \in {"approve", "reject"}, ReviewItem(d) PROVE UnjudgedInv'
  <2>1. Report("review_rejected") => CliLeft' \subseteq CliLeft /\ batch' = batch
    BY <1>3, ReportLeft DEF ReviewItem, UnjudgedInv
  <2>2. Continue("publish") => CliLeft' = CliLeft /\ batch' = batch
    BY <1>3 DEF ReviewItem, Continue, CliLeft
  <2> QED
    BY <1>0, <1>3, <2>1, <2>2, UnjudgedShrinks DEF ReviewItem, UnjudgedInv
<1>4. ASSUME PublishItem PROVE UnjudgedInv'
  <2>1. \E result \in Results : Report(result)
    BY <1>4 DEF PublishItem, Results
  <2>2. CliLeft' \subseteq CliLeft /\ batch' = batch
    BY <1>4, <2>1, ReportLeft DEF PublishItem, UnjudgedInv
  <2> QED
    BY <1>0, <1>4, <2>2, UnjudgedShrinks DEF PublishItem, UnjudgedInv
<1>5. ASSUME AbortImport PROVE UnjudgedInv'
  <2>1. CliLeft' = {} /\ Distinct(batch')
    BY <1>5 DEF AbortImport, CliLeft, Distinct
  <2> QED
    BY <1>0, <1>5, <2>1, UnjudgedShrinks DEF AbortImport
<1> QED
  BY <1>1, <1>2, <1>3, <1>4, <1>5 DEF ImportNext

LEMMA UnjudgedStep == TypeOK /\ UnjudgedInv /\ [Next]_vars => UnjudgedInv'
<1> SUFFICES ASSUME TypeOK, UnjudgedInv, [Next]_vars PROVE UnjudgedInv'
  OBVIOUS
<1>1. CASE UNCHANGED vars
  BY <1>1, UnjudgedSame DEF vars, catalogVars, uploadVars
<1> QED
  BY <1>1, UploadUnjudged, ImportUnjudged DEF Next

-----------------------------------------------------------------------------
(* Nothing is published without a review.                                  *)

LEMMA InitReview == Init => ReviewInv
BY DEF Init, CatalogInit, UploadInit, ImportInit, NoRequest, ReviewInv,
     OnlyReviewedPublished

(* A verdict is final, and so is an approval.                              *)
LEMMA VerdictFinal ==
  ASSUME TypeOK, UnjudgedInv, Next
  PROVE  /\ \A p \in Photos : verdict[p] # "none" => verdict'[p] = verdict[p]
         /\ accepted \subseteq accepted'
<1> USE DEF TypeOK
<1>1. ASSUME NEW t \in Tabs, NEW usable \in BOOLEAN, PrepareImage(t, usable)
      PROVE  \A p \in Photos : verdict[p] # "none" => verdict'[p] = verdict[p]
  <2> DEFINE q == req[t].photos[req[t].done + 1]
  <2>1. q \in WebLeft(t)
    BY <1>1, RequestPhoto DEF PrepareImage, WebLeft
  <2>2. verdict[q] = "none"
    BY <2>1 DEF UnjudgedInv
  <2> QED
    BY <1>1, <2>2 DEF PrepareImage, Judge, CatalogTypeOK
<1>2. ASSUME NEW usable \in BOOLEAN, PrepareItem(usable)
      PROVE  \A p \in Photos : verdict[p] # "none" => verdict'[p] = verdict[p]
  <2>1. batch[item] \in CliLeft
    BY <1>2, ItemPhoto DEF PrepareItem, CliLeft
  <2>2. verdict[batch[item]] = "none"
    BY <2>1 DEF UnjudgedInv
  <2> QED
    BY <1>2, <2>2 DEF PrepareItem, Judge, CatalogTypeOK
<1>3. \/ verdict' = verdict
      \/ \E t \in Tabs, usable \in BOOLEAN : PrepareImage(t, usable)
      \/ \E usable \in BOOLEAN : PrepareItem(usable)
  BY DEF Next, UploadNext, ImportNext, Upload, StartBatch, OpenReview, catalogVars,
       SubmitReview, Publish, FinishReview, RestartApi, StartImport, ReviewItem,
       PublishItem, AbortImport
<1>4. accepted \subseteq accepted'
  BY DEF Next, UploadNext, ImportNext, Upload, StartBatch, PrepareImage, OpenReview,
       catalogVars, SubmitReview, Publish, FinishReview, RestartApi, StartImport,
       PrepareItem, ReviewItem, PublishItem, AbortImport
<1> QED
  BY <1>1, <1>2, <1>3, <1>4

(* A step publishes at most the photo its actor holds.                     *)
LEMMA PublishesOne ==
  ASSUME CatalogTypeOK, NEW p \in Photos, Committed(p) \/ Failed(p)
  PROVE  \A q \in Photos : q # p => products'[q] = products[q]
BY DEF Committed, Failed, Insert, CatalogTypeOK

(* What the parts of ReviewInv come down to: products, requests, import.   *)
ProductsReviewed == \A p \in Photos : products[p] > 0 =>
                      verdict[p] = "usable" /\ p \in accepted
RequestReviewed(t) ==
  /\ req[t].op \in {"publish", "finish", "decline"} =>
       verdict[req[t].photos[1]] = "usable"
  /\ req[t].op = "publish" => req[t].photos[1] \in accepted
ItemReviewed ==
  /\ item > 0 /\ step # "prepare" => verdict[batch[item]] = "usable"
  /\ item > 0 /\ step = "publish" => batch[item] \in accepted

LEMMA ReviewParts ==
  ReviewInv <=> ProductsReviewed /\ (\A t \in Tabs : RequestReviewed(t)) /\ ItemReviewed
BY DEF ReviewInv, OnlyReviewedPublished, ProductsReviewed, RequestReviewed, ItemReviewed

LEMMA ProductsStep ==
  ASSUME TypeOK, UnjudgedInv, ReviewInv, Next
  PROVE  ProductsReviewed'
<1> USE DEF TypeOK
<1>0. ProductsReviewed /\ ItemReviewed /\ \A t \in Tabs : RequestReviewed(t)
  BY ReviewParts
<1>1. products' = products => ProductsReviewed'
  BY <1>0, VerdictFinal DEF ProductsReviewed
<1>2. ASSUME NEW p \in Photos, verdict[p] = "usable", p \in accepted,
             \A q \in Photos : q # p => products'[q] = products[q]
      PROVE  ProductsReviewed'
  BY <1>0, <1>2, VerdictFinal DEF ProductsReviewed
<1>3. ASSUME NEW t \in Tabs, Publish(t) PROVE ProductsReviewed'
  <2> DEFINE p == req[t].photos[1]
  <2>1. p \in Photos /\ (Committed(p) \/ Failed(p))
    BY <1>3, RequestPhoto DEF Publish
  <2>2. verdict[p] = "usable" /\ p \in accepted
    BY <1>0, <1>3 DEF Publish, RequestReviewed
  <2> HIDE DEF p
  <2> QED
    BY <1>2, <2>1, <2>2, PublishesOne
<1>4. ASSUME PublishItem PROVE ProductsReviewed'
  <2>1. /\ batch[item] \in Photos
        /\ Committed(batch[item]) \/ Failed(batch[item])
    BY <1>4, ItemPhoto DEF PublishItem
  <2>2. verdict[batch[item]] = "usable" /\ batch[item] \in accepted
    BY <1>0, <1>4 DEF PublishItem, ItemReviewed
  <2> QED
    BY <1>2, <2>1, <2>2, PublishesOne
<1>5. ASSUME AbortImport PROVE ProductsReviewed'
  <2>1. CASE step = "publish" /\ Insert(batch[item])
    <3>1. batch[item] \in Photos
      BY <1>5, ItemPhoto DEF AbortImport
    <3>2. verdict[batch[item]] = "usable" /\ batch[item] \in accepted
      BY <1>0, <1>5, <2>1 DEF AbortImport, ItemReviewed
    <3>3. \A q \in Photos : q # batch[item] => products'[q] = products[q]
      BY <2>1 DEF Insert, CatalogTypeOK
    <3> QED
      BY <1>2, <3>1, <3>2, <3>3
  <2> QED
    BY <1>1, <1>5, <2>1 DEF AbortImport
<1>6. \/ products' = products
      \/ \E t \in Tabs : Publish(t)
      \/ PublishItem \/ AbortImport
  BY DEF Next, UploadNext, ImportNext, Upload, StartBatch, PrepareImage, OpenReview,
       catalogVars, SubmitReview, FinishReview, RestartApi, StartImport,
       PrepareItem, ReviewItem
<1> QED
  BY <1>1, <1>3, <1>4, <1>5, <1>6

(* How a request changes: it ends, goes on, or begins.                     *)
RequestMove(t) ==
  \/ req'[t].op \in {"none", "start", "prepare"}
  \/ req'[t] = req[t]
  \/ /\ req[t].op = "publish" /\ req'[t].op = "finish"
     /\ req'[t].photos = req[t].photos
  \/ /\ req'[t].op \in {"publish", "decline"}
     /\ Pending(req'[t].photos[1])
     /\ req'[t].op = "publish" => req'[t].photos[1] \in accepted'

LEMMA RequestMoves ==
  ASSUME TypeOK, Next, NEW t \in Tabs
  PROVE  RequestMove(t)
<1> USE DEF TypeOK
<1>1. ASSUME NEW u \in Tabs, NEW r, req' = [req EXCEPT ![u] = r]
      PROVE  req'[u] = r /\ (t # u => req'[t] = req[t])
  BY <1>1 DEF UploadTypeOK
<1>2. ASSUME NEW u \in Tabs, NEW shown, Answer(u, shown) PROVE RequestMove(t)
  BY <1>1, <1>2 DEF Answer, NoRequest, RequestMove
<1>3. ASSUME req' = req PROVE RequestMove(t)
  BY <1>3 DEF RequestMove
<1>4. ASSUME NEW u \in Tabs, NEW b \in Batches, Upload(u, b) PROVE RequestMove(t)
  BY <1>1, <1>4 DEF Upload, Ask, RequestMove
<1>5. ASSUME NEW u \in Tabs, StartBatch(u) PROVE RequestMove(t)
  <2>1. CASE req' = [req EXCEPT ![u].op = "prepare"]
    BY <2>1 DEF RequestMove, UploadTypeOK, Request
  <2> QED
    BY <1>2, <1>5, <2>1 DEF StartBatch
<1>6. ASSUME NEW u \in Tabs, NEW usable \in BOOLEAN, PrepareImage(u, usable)
      PROVE  RequestMove(t)
  <2>1. CASE req' = [req EXCEPT ![u].done = @ + 1]
    BY <1>6, <2>1 DEF PrepareImage, RequestMove, UploadTypeOK, Request
  <2>2. req' = [req EXCEPT ![u].done = @ + 1] \/ \E shown : Answer(u, shown)
    BY <1>6 DEF PrepareImage
  <2> QED
    BY <1>2, <2>1, <2>2
<1>7. ASSUME NEW u \in Tabs, NEW d \in {"approve", "reject"}, SubmitReview(u, d)
      PROVE  RequestMove(t)
  <2>1. CASE Pending(page[u].photo)
    <3> DEFINE p == page[u].photo
               op == IF d = "reject" THEN "decline" ELSE "publish"
    <3>1. req' = [req EXCEPT ![u] = [op |-> op, photos |-> <<p>>, done |-> 0]]
      BY <1>7, <2>1 DEF SubmitReview, Ask
    <3>2. op = "publish" => p \in accepted'
      BY <1>7, <2>1 DEF SubmitReview
    <3> QED
      BY <1>1, <2>1, <3>1, <3>2 DEF RequestMove
  <2> QED
    BY <1>3, <1>7, <2>1 DEF SubmitReview
<1>8. ASSUME NEW u \in Tabs, Publish(u) PROVE RequestMove(t)
  <2>1. CASE req' = [req EXCEPT ![u].op = "finish"]
    BY <1>8, <2>1 DEF Publish, RequestMove, UploadTypeOK, Request
  <2> QED
    BY <1>2, <1>8, <2>1 DEF Publish
<1>9. ASSUME NEW u \in Tabs, FinishReview(u) PROVE RequestMove(t)
  <2>1. \E shown : Answer(u, shown)
    BY <1>9 DEF FinishReview
  <2> QED
    BY <1>2, <2>1
<1>10. ASSUME RestartApi PROVE RequestMove(t)
  BY <1>10 DEF RestartApi, NoRequest, RequestMove
<1>11. ASSUME ImportNext /\ UNCHANGED uploadVars PROVE RequestMove(t)
  BY <1>3, <1>11 DEF uploadVars
<1> QED
  BY <1>3, <1>4, <1>5, <1>6, <1>7, <1>8, <1>9, <1>10, <1>11
     DEF Next, UploadNext, OpenReview

LEMMA RequestsStep ==
  ASSUME TypeOK, UnjudgedInv, ReviewInv, Next, NEW t \in Tabs
  PROVE  RequestReviewed(t)'
<1>1. RequestReviewed(t) /\ RequestMove(t)
  BY ReviewParts, RequestMoves
<1>2. req[t].op \in {"publish", "finish", "decline"} => req[t].photos[1] \in Photos
  BY RequestPhoto DEF TypeOK
<1>3. \A p \in Photos : verdict[p] = "usable" => verdict'[p] = "usable"
  BY VerdictFinal
<1>4. accepted \subseteq accepted'
  BY VerdictFinal
<1>5. \A p : Pending(p) => p \in Photos /\ verdict[p] = "usable"
  BY DEF Pending, Queue
<1> QED
  BY <1>1, <1>2, <1>3, <1>4, <1>5 DEF RequestReviewed, RequestMove

LEMMA ItemStep ==
  ASSUME TypeOK, UnjudgedInv, ReviewInv, Next
  PROVE  ItemReviewed'
<1> USE DEF TypeOK
<1>0. ItemReviewed
  BY ReviewParts
<1>1. CASE UNCHANGED importVars
  <2>1. item > 0 => batch[item] \in Photos
    BY ItemPhoto
  <2> QED
    BY <1>0, <1>1, <2>1, VerdictFinal DEF ItemReviewed, importVars
<1>2. \A result : Report(result) => ItemReviewed'
  BY DEF Report, ItemReviewed
<1>3. ASSUME NEW usable \in BOOLEAN, PrepareItem(usable) PROVE ItemReviewed'
  <2>1. item > 0 /\ batch[item] \in Photos
    BY <1>3, ItemPhoto DEF PrepareItem
  <2>2. CASE usable
    BY <1>3, <2>1, <2>2 DEF PrepareItem, Judge, Continue, ItemReviewed, CatalogTypeOK
  <2> QED
    BY <1>2, <1>3, <2>2 DEF PrepareItem
<1>4. ASSUME NEW d \in {"approve", "reject"}, ReviewItem(d) PROVE ItemReviewed'
  <2>1. item > 0 /\ batch[item] \in Photos /\ verdict[batch[item]] = "usable"
    BY <1>0, <1>4, ItemPhoto DEF ReviewItem, ItemReviewed
  <2>2. CASE d # "reject"
    BY <1>4, <2>1, <2>2 DEF ReviewItem, Continue, ItemReviewed
  <2> QED
    BY <1>2, <1>4, <2>2 DEF ReviewItem
<1>5. (\E b \in Batches : StartImport(b)) \/ AbortImport => ItemReviewed'
  BY DEF StartImport, AbortImport, ItemReviewed
<1>6. PublishItem => ItemReviewed'
  BY <1>2 DEF PublishItem
<1> QED
  BY <1>1, <1>3, <1>4, <1>5, <1>6 DEF Next, ImportNext

LEMMA ReviewStep == TypeOK /\ UnjudgedInv /\ ReviewInv /\ [Next]_vars => ReviewInv'
<1> SUFFICES ASSUME TypeOK, UnjudgedInv, ReviewInv, [Next]_vars PROVE ReviewInv'
  OBVIOUS
<1>1. CASE UNCHANGED vars
  BY <1>1 DEF vars, catalogVars, uploadVars, importVars, ReviewInv, OnlyReviewedPublished
<1>2. CASE Next
  <2>1. (ProductsReviewed /\ (\A t \in Tabs : RequestReviewed(t)) /\ ItemReviewed)'
    BY <1>2, ProductsStep, RequestsStep, ItemStep
  <2> QED
    BY <2>1 DEF ReviewInv, OnlyReviewedPublished, ProductsReviewed, RequestReviewed,
         ItemReviewed
<1> QED
  BY <1>1, <1>2

(* A photo becomes a product only if the vision model found it usable and a*)
(* person approved its listing, whatever tabs, restarts and failures do.   *)
THEOREM NothingUnreviewed == Spec => []OnlyReviewedPublished
<1>1. Init => TypeOK /\ UnjudgedInv /\ ReviewInv
  BY InitType, InitUnjudged, InitReview
<1>2. TypeOK /\ UnjudgedInv /\ ReviewInv /\ [Next]_vars
        => (TypeOK /\ UnjudgedInv /\ ReviewInv)'
  BY TypeStep, UnjudgedStep, ReviewStep
<1>3. ReviewInv => OnlyReviewedPublished
  BY DEF ReviewInv
<1> QED
  BY <1>1, <1>2, <1>3, PTL DEF Spec

-----------------------------------------------------------------------------
(* While posts run one at a time and no commit loses its answer.           *)

LEMMA InitSerial == Init => SerialInv
BY DEF Init, CatalogInit, UploadInit, ImportInit, NoRequest, SerialInv, OneAtATime,
     DecidedOnce, QueueOpen, Queue, RequestOpen, ItemOpen

(* A photo not judged yet is undecided and in no queue.                    *)
LEMMA UnjudgedOpen ==
  ASSUME TypeOK, ReviewInv, SerialInv, NEW p \in Photos, verdict[p] = "none"
  PROVE  products[p] = 0 /\ p \notin refused /\ p \notin Queue
BY DEF TypeOK, CatalogTypeOK, ReviewInv, OnlyReviewedPublished, SerialInv,
     DecidedOnce, QueueOpen

(* Where one request runs, every other tab waits for none.                 *)
LEMMA Alone ==
  ASSUME OneAtATime, NEW t \in Tabs, req[t].op # "none"
  PROVE  \A u \in Tabs \ {t} : req[u].op = "none"
BY DEF OneAtATime

(* Steps that change a tab's request only.                                 *)
LEMMA OneAtATimeStep ==
  ASSUME UploadTypeOK, OneAtATime, NEW t \in Tabs, NEW r, req' = [req EXCEPT ![t] = r],
         \/ req[t].op # "none" \/ r.op = "none"
         \/ \A u \in Tabs : req[u].op = "none"
  PROVE  OneAtATime'
BY DEF OneAtATime, UploadTypeOK

LEMMA FailedUnlost ==
  ASSUME "lost" \notin Faults, NEW p \in Photos, Failed(p)
  PROVE  products' = products
BY DEF Failed, Lapse

LEMMA UploadSerial ==
  ASSUME ~Overlap, "lost" \notin Faults,
         TypeOK, UnjudgedInv, ReviewInv, SerialInv, UploadNext, UNCHANGED importVars
  PROVE  SerialInv'
<1> USE DEF TypeOK
<1>0. /\ OneAtATime /\ DecidedOnce /\ QueueOpen /\ ItemOpen
      /\ \A u \in Tabs : RequestOpen(u)
  BY DEF SerialInv
<1> SUFFICES /\ OneAtATime' /\ DecidedOnce' /\ QueueOpen' /\ ItemOpen'
             /\ \A u \in Tabs : RequestOpen(u)'
  BY DEF SerialInv
<1>1. ASSUME NEW t \in Tabs, NEW b \in Batches, Upload(t, b)
      PROVE  /\ OneAtATime' /\ DecidedOnce' /\ QueueOpen' /\ ItemOpen'
             /\ \A u \in Tabs : RequestOpen(u)'
  <2>1. /\ \A u \in Tabs : req[u].op = "none"
        /\ req'[t].op = "start" /\ \A u \in Tabs \ {t} : req'[u] = req[u]
    BY <1>1 DEF Upload, MayAsk, Ask, UploadTypeOK
  <2>2. OneAtATime' /\ \A u \in Tabs : RequestOpen(u)'
    BY <2>1 DEF OneAtATime, RequestOpen
  <2>3. Queue' = {}
    BY <1>1 DEF Upload, Queue
  <2> QED
    BY <1>0, <1>1, <2>2, <2>3
       DEF Upload, DecidedOnce, QueueOpen, ItemOpen, Undecided, importVars
<1>2. ASSUME NEW t \in Tabs, StartBatch(t)
      PROVE  /\ OneAtATime' /\ DecidedOnce' /\ QueueOpen' /\ ItemOpen'
             /\ \A u \in Tabs : RequestOpen(u)'
  <2>1. /\ req'[t].op \in {"prepare", "none"} /\ \A u \in Tabs \ {t} : req'[u] = req[u]
        /\ req[t].op = "start"
    BY <1>2 DEF StartBatch, Answer, NoRequest, UploadTypeOK, Request
  <2>2. \A u \in Tabs \ {t} : req[u].op = "none"
    BY <1>0, <2>1, Alone
  <2>3. OneAtATime' /\ \A u \in Tabs : RequestOpen(u)'
    BY <2>1, <2>2 DEF OneAtATime, RequestOpen
  <2>4. Queue' = Queue /\ \A p : ~Finishing(p)
    BY <1>2, <2>1, <2>2 DEF StartBatch, Queue, Finishing
  <2> QED
    BY <1>0, <1>2, <2>3, <2>4
       DEF StartBatch, DecidedOnce, QueueOpen, ItemOpen, Undecided, importVars
<1>3. ASSUME NEW t \in Tabs, NEW usable \in BOOLEAN, PrepareImage(t, usable)
      PROVE  /\ OneAtATime' /\ DecidedOnce' /\ QueueOpen' /\ ItemOpen'
             /\ \A u \in Tabs : RequestOpen(u)'
  <2> DEFINE p == req[t].photos[req[t].done + 1]
  <2>1. p \in Photos /\ p \in WebLeft(t)
    BY <1>3, RequestPhoto DEF PrepareImage, WebLeft
  <2>2. verdict[p] = "none"
    BY <2>1 DEF UnjudgedInv
  <2>3. products[p] = 0 /\ p \notin refused /\ p \notin Queue
    BY <2>1, <2>2, UnjudgedOpen
  <2>4. /\ req'[t].op \in {"prepare", "none"} /\ \A u \in Tabs \ {t} : req'[u] = req[u]
        /\ req[t].op = "prepare"
    BY <1>3 DEF PrepareImage, Answer, NoRequest, UploadTypeOK, Request
  <2>5. \A u \in Tabs \ {t} : req[u].op = "none"
    BY <1>0, <2>4, Alone
  <2>6. OneAtATime' /\ \A u \in Tabs : RequestOpen(u)'
    BY <2>4, <2>5 DEF OneAtATime, RequestOpen
  <2>7. /\ verdict'[p] # "none" /\ \A q \in Photos : q # p => verdict'[q] = verdict[q]
        /\ Queue' \subseteq Queue \cup {p}
        /\ products' = products /\ refused' = refused
    <3>1. Judge(p, usable) /\ place' = [place EXCEPT ![p] = placed + 1]
      BY <1>3 DEF PrepareImage
    <3>2. \A q \in Photos : q # p => place'[q] = place[q]
      BY <3>1 DEF UploadTypeOK
    <3> HIDE DEF p
    <3>3. verdict'[p] # "none" /\ \A q \in Photos : q # p => verdict'[q] = verdict[q]
      BY <2>1, <3>1 DEF Judge, CatalogTypeOK
    <3> QED
      BY <1>3, <3>2, <3>3 DEF PrepareImage, Queue
  <2>8. \A q : ~Finishing(q)
    BY <2>4, <2>5 DEF Finishing
  <2>9. DecidedOnce'
    BY <1>0, <2>2, <2>7 DEF DecidedOnce
  <2>10. QueueOpen'
    <3> HIDE DEF p
    <3>1. Queue \subseteq Photos
      BY DEF Queue
    <3> QED
      BY <1>0, <2>1, <2>3, <2>7, <2>8, <3>1 DEF QueueOpen, Undecided
  <2>11. ItemOpen'
    <3>1. item > 0 /\ step # "prepare" => verdict[batch[item]] = "usable"
      BY DEF ReviewInv
    <3> HIDE DEF p
    <3> QED
      BY <1>0, <2>2, <2>7, <3>1 DEF ItemOpen, Undecided, importVars
  <2> QED
    BY <2>6, <2>9, <2>10, <2>11
<1>4. ASSUME NEW t \in Tabs, NEW p \in Photos, OpenReview(t, p)
      PROVE  /\ OneAtATime' /\ DecidedOnce' /\ QueueOpen' /\ ItemOpen'
             /\ \A u \in Tabs : RequestOpen(u)'
  BY <1>0, <1>4 DEF OpenReview, catalogVars, importVars, OneAtATime, DecidedOnce,
       QueueOpen, Queue, Finishing, Undecided, ItemOpen, RequestOpen, Pending
<1>5. ASSUME NEW t \in Tabs, NEW d \in {"approve", "reject"}, SubmitReview(t, d)
      PROVE  /\ OneAtATime' /\ DecidedOnce' /\ QueueOpen' /\ ItemOpen'
             /\ \A u \in Tabs : RequestOpen(u)'
  <2>0. PICK p : p = page[t].photo
    OBVIOUS
  <2>1. \A u \in Tabs : req[u].op = "none"
    BY <1>5 DEF SubmitReview, MayAsk
  <2>2. /\ verdict' = verdict /\ products' = products /\ refused' = refused
        /\ place' = place
    BY <1>5 DEF SubmitReview
  <2>3. \A q : ~Finishing(q)
    BY <2>1 DEF Finishing
  <2>4. DecidedOnce' /\ QueueOpen' /\ ItemOpen'
    BY <1>0, <2>2, <2>3 DEF DecidedOnce, QueueOpen, Queue, Undecided, ItemOpen, importVars
  <2>5. CASE Pending(p)
    <3>1. /\ req'[t].op \in {"publish", "decline"} /\ req'[t].photos = <<p>>
          /\ \A u \in Tabs \ {t} : req'[u] = req[u]
      BY <1>5, <2>0, <2>5 DEF SubmitReview, Ask, UploadTypeOK
    <3>2. Undecided(p)
      BY <1>0, <2>3, <2>5 DEF QueueOpen, Pending
    <3>3. req'[t].photos[1] = p /\ Pending(p)' /\ Undecided(p)'
      BY <2>2, <2>5, <3>1, <3>2 DEF Pending, Queue, Undecided
    <3>4. \A u \in Tabs \ {t} : req'[u].op = "none"
      BY <2>1, <3>1
    <3>5. OneAtATime'
      BY <3>4 DEF OneAtATime
    <3>6. \A u \in Tabs : RequestOpen(u)'
      BY <3>1, <3>3, <3>4 DEF RequestOpen
    <3> QED
      BY <2>4, <3>5, <3>6
  <2>6. CASE ~Pending(p)
    <3>1. req' = req
      BY <1>5, <2>0, <2>6 DEF SubmitReview
    <3>2. OneAtATime' /\ \A u \in Tabs : RequestOpen(u)'
      BY <2>1, <3>1 DEF OneAtATime, RequestOpen
    <3> QED
      BY <2>4, <3>2
  <2> QED
    BY <2>5, <2>6
<1>6. ASSUME NEW t \in Tabs, Publish(t)
      PROVE  /\ OneAtATime' /\ DecidedOnce' /\ QueueOpen' /\ ItemOpen'
             /\ \A u \in Tabs : RequestOpen(u)'
  <2>0. PICK p : p = req[t].photos[1]
    OBVIOUS
  <2>1. p \in Photos /\ p \in Queue /\ Undecided(p)
    BY <1>0, <1>6, <2>0, RequestPhoto DEF Publish, RequestOpen, Pending
  <2>2. req[t].op = "publish" /\ \A u \in Tabs \ {t} : req[u].op = "none"
    BY <1>0, <1>6, Alone DEF Publish
  <2>3. /\ verdict' = verdict /\ refused' = refused /\ place' = place
        /\ Queue' = Queue
    BY <1>6 DEF Publish, Queue
  <2>4. \A q : ~Finishing(q)
    BY <2>2 DEF Finishing
  <2>5. CASE Committed(p) /\ req' = [req EXCEPT ![t].op = "finish"]
    <3>1. /\ req'[t].op = "finish" /\ req'[t].photos = req[t].photos
          /\ \A u \in Tabs \ {t} : req'[u] = req[u]
      BY <2>5 DEF UploadTypeOK, Request
    <3>2. products'[p] = 1 /\ \A q \in Photos : q # p => products'[q] = products[q]
      BY <2>1, <2>5 DEF Committed, Insert, Undecided, CatalogTypeOK
    <3>3. OneAtATime' /\ \A u \in Tabs : RequestOpen(u)'
      <4>1. Pending(p)' /\ req'[t].photos[1] = p
        BY <1>0, <1>6, <2>0, <2>3, <3>1 DEF Publish, RequestOpen, Pending
      <4> QED
        BY <2>2, <3>1, <3>2, <4>1 DEF OneAtATime, RequestOpen
    <3>4. Finishing(p)'
      BY <2>0, <3>1 DEF Finishing
    <3>5. Queue \subseteq Photos /\ p \notin refused
      BY <2>1 DEF Queue, Undecided
    <3>6. DecidedOnce'
      BY <1>0, <2>1, <2>3, <3>2, <3>5 DEF DecidedOnce
    <3>7. QueueOpen'
      <4>1. \A q \in Queue : Undecided(q) /\ verdict[q] # "none"
        BY <1>0, <2>4 DEF QueueOpen
      <4>2. \A q \in Queue : q # p => Undecided(q)'
        BY <2>3, <3>2, <3>5, <4>1 DEF Undecided
      <4> QED
        BY <2>3, <3>4, <4>1, <4>2 DEF QueueOpen
    <3>8. ItemOpen'
      <4>1. item > 0 => batch[item] \in Photos
        BY ItemPhoto
      <4> QED
        BY <1>0, <2>1, <2>3, <3>2, <4>1 DEF ItemOpen, Undecided, importVars
    <3> QED
      BY <3>3, <3>6, <3>7, <3>8
  <2>6. CASE Failed(p) /\ Answer(t, [kind |-> "review", photo |-> p])
    <3>1. products' = products
      BY <2>1, <2>6, FailedUnlost
    <3>2. req'[t].op = "none" /\ \A u \in Tabs \ {t} : req'[u] = req[u]
      BY <2>6 DEF Answer, NoRequest, UploadTypeOK
    <3>3. OneAtATime' /\ \A u \in Tabs : RequestOpen(u)'
      BY <2>2, <3>2 DEF OneAtATime, RequestOpen
    <3>4. DecidedOnce' /\ QueueOpen' /\ ItemOpen'
      BY <1>0, <2>3, <2>4, <3>1
         DEF DecidedOnce, QueueOpen, Undecided, ItemOpen, importVars
    <3> QED
      BY <3>3, <3>4
  <2> QED
    BY <1>6, <2>0, <2>5, <2>6 DEF Publish
<1>7. ASSUME NEW t \in Tabs, FinishReview(t)
      PROVE  /\ OneAtATime' /\ DecidedOnce' /\ QueueOpen' /\ ItemOpen'
             /\ \A u \in Tabs : RequestOpen(u)'
  <2>0. PICK p : p = req[t].photos[1]
    OBVIOUS
  <2>1. p \in Photos
    BY <1>7, <2>0, RequestPhoto DEF FinishReview
  <2>2. /\ req[t].op \in {"finish", "decline"}
        /\ \A u \in Tabs \ {t} : req[u].op = "none"
    BY <1>0, <1>7, Alone DEF FinishReview
  <2>3. req'[t].op = "none" /\ \A u \in Tabs \ {t} : req'[u] = req[u]
    <3>1. \E shown : Answer(t, shown)
      BY <1>7 DEF FinishReview
    <3> QED
      BY <3>1 DEF Answer, NoRequest, UploadTypeOK
  <2>4. OneAtATime' /\ \A u \in Tabs : RequestOpen(u)'
    BY <2>2, <2>3 DEF OneAtATime, RequestOpen
  <2>5. /\ verdict' = verdict /\ products' = products
        /\ refused' = IF req[t].op = "decline" THEN refused \cup {p} ELSE refused
        /\ Queue' \subseteq Queue \ {p}
    <3>1. \A S : p \in S => {q \in Photos : Without(S)[q] > 0} \subseteq Queue \ {p}
      BY DEF Without, Queue
    <3>2. place' = Without({p}) \/ \E first \in Photos : place' = Without({p, first})
      BY <1>7, <2>0 DEF FinishReview
    <3>3. {q \in Photos : place'[q] > 0} \subseteq Queue \ {p}
      BY <3>1, <3>2
    <3> QED
      BY <1>7, <2>0, <3>3 DEF FinishReview, Queue
  <2>6. req[t].op = "decline" => Pending(p) /\ Undecided(p)
    BY <1>0, <1>7, <2>0 DEF RequestOpen
  <2>7. \A q \in Queue \ {p} : Undecided(q)
    BY <1>0, <2>0, <2>2 DEF QueueOpen, Finishing
  <2>8. req[t].op = "decline" /\ item > 0 /\ step # "prepare" => batch[item] # p
    BY <1>0, <2>6 DEF ItemOpen, Pending
  <2>9. DecidedOnce'
    BY <1>0, <2>5, <2>6 DEF DecidedOnce, Pending, Undecided
  <2>10. QueueOpen'
    BY <1>0, <2>5, <2>7 DEF QueueOpen, Undecided
  <2>11. ItemOpen'
    BY <1>0, <2>5, <2>8 DEF ItemOpen, Undecided, importVars
  <2> QED
    BY <2>4, <2>9, <2>10, <2>11
<1>8. ASSUME RestartApi
      PROVE  /\ OneAtATime' /\ DecidedOnce' /\ QueueOpen' /\ ItemOpen'
             /\ \A u \in Tabs : RequestOpen(u)'
  <2>1. Queue' = {} /\ \A u \in Tabs : req'[u].op = "none"
    BY <1>8 DEF RestartApi, Queue, NoRequest
  <2> QED
    BY <1>0, <1>8, <2>1 DEF RestartApi, OneAtATime, DecidedOnce, QueueOpen, ItemOpen,
         RequestOpen, Undecided, importVars
<1> QED
  BY <1>1, <1>2, <1>3, <1>4, <1>5, <1>6, <1>7, <1>8 DEF UploadNext

(* An import step that decides at most the photo it holds.                 *)
LEMMA ImportDecides ==
  ASSUME TypeOK, SerialInv, UNCHANGED uploadVars, verdict' = verdict,
         NEW p \in Photos, p \notin Queue,
         products'[p] <= 1,
         p \in refused' => products'[p] = 0 /\ verdict[p] = "usable",
         \A q \in Photos : q # p => products'[q] = products[q]
                                    /\ (q \in refused' <=> q \in refused)
  PROVE  OneAtATime' /\ DecidedOnce' /\ QueueOpen' /\ \A u \in Tabs : RequestOpen(u)'
<1>0. /\ OneAtATime /\ DecidedOnce /\ QueueOpen /\ \A u \in Tabs : RequestOpen(u)
  BY DEF SerialInv
<1>1. OneAtATime' /\ DecidedOnce'
  BY <1>0 DEF OneAtATime, DecidedOnce, uploadVars
<1>2. Queue' = Queue /\ Queue \subseteq Photos /\ req' = req /\ place' = place
  BY DEF Queue, uploadVars
<1>3. \A q \in Queue : (Undecided(q)' <=> Undecided(q)) /\ products'[q] = products[q]
  BY <1>2 DEF Undecided
<1>4. \A q : Finishing(q)' <=> Finishing(q)
  BY <1>2 DEF Finishing
<1>5. QueueOpen'
  BY <1>0, <1>2, <1>3, <1>4 DEF QueueOpen
<1>6. ASSUME NEW u \in Tabs PROVE RequestOpen(u)'
  <2>1. \A q : Pending(q)' <=> Pending(q)
    BY <1>2 DEF Pending
  <2> QED
    BY <1>0, <1>2, <1>3, <2>1 DEF RequestOpen, Pending
<1> QED
  BY <1>1, <1>5, <1>6

LEMMA ImportSerial ==
  ASSUME "lost" \notin Faults,
         TypeOK, UnjudgedInv, ReviewInv, SerialInv, ImportNext, UNCHANGED uploadVars
  PROVE  SerialInv'
<1> USE DEF TypeOK
<1>0. /\ OneAtATime /\ DecidedOnce /\ QueueOpen /\ ItemOpen
      /\ \A u \in Tabs : RequestOpen(u)
  BY DEF SerialInv
<1>1. ASSUME UNCHANGED <<verdict, products, refused>>,
             step' = "prepare" \/ item' = 0
      PROVE  SerialInv'
  <2>1. ItemOpen'
    BY <1>1 DEF ItemOpen
  <2>2. \A p : Pending(p)' <=> Pending(p)
    BY <1>1 DEF Pending, Queue, uploadVars
  <2> QED
    BY <1>0, <1>1, <2>1, <2>2 DEF SerialInv, OneAtATime, DecidedOnce, QueueOpen, Queue,
         Finishing, Undecided, RequestOpen, uploadVars
<1>2. ASSUME NEW usable \in BOOLEAN, PrepareItem(usable) PROVE SerialInv'
  <2>0. PICK p : p = batch[item]
    OBVIOUS
  <2>1. p \in Photos /\ p \in CliLeft
    BY <1>2, <2>0, ItemPhoto DEF PrepareItem, CliLeft
  <2>2. verdict[p] = "none"
    BY <2>1 DEF UnjudgedInv
  <2>3. products[p] = 0 /\ p \notin refused /\ p \notin Queue
    BY <2>1, <2>2, UnjudgedOpen
  <2>4. /\ products' = products /\ refused' = refused
        /\ \A q \in Photos : q # p => verdict'[q] = verdict[q]
    BY <1>2, <2>0 DEF PrepareItem, Judge, CatalogTypeOK
  <2>5. Queue' = Queue /\ Queue \subseteq Photos /\ req' = req
    BY DEF Queue, uploadVars
  <2>6. OneAtATime' /\ DecidedOnce' /\ QueueOpen'
    BY <1>0, <2>2, <2>3, <2>4, <2>5
       DEF OneAtATime, DecidedOnce, QueueOpen, Finishing, Undecided
  <2>7. \A q : Pending(q) => Pending(q)'
    BY <2>3, <2>4, <2>5 DEF Pending
  <2>8. \A u \in Tabs : RequestOpen(u)'
    BY <1>0, <2>4, <2>5, <2>7 DEF RequestOpen, Undecided
  <2>9. ItemOpen'
    <3>1. CASE Continue("review")
      BY <2>0, <2>3, <2>4, <2>5, <3>1 DEF Continue, ItemOpen, Undecided
    <3>2. CASE Report("image_rejected")
      BY <3>2 DEF Report, ItemOpen
    <3> QED
      BY <1>2, <3>1, <3>2 DEF PrepareItem
  <2> QED
    BY <2>6, <2>8, <2>9 DEF SerialInv
<1>3. ASSUME NEW d \in {"approve", "reject"}, ReviewItem(d) PROVE SerialInv'
  <2>0. PICK p : p = batch[item]
    OBVIOUS
  <2>1. p \in Photos /\ p \notin Queue /\ Undecided(p) /\ verdict[p] = "usable"
    BY <1>0, <1>3, <2>0, ItemPhoto DEF ReviewItem, ItemOpen, ReviewInv
  <2>2. CASE Report("review_rejected") /\ refused' = refused \cup {p}
    <3>1. OneAtATime' /\ DecidedOnce' /\ QueueOpen' /\ \A u \in Tabs : RequestOpen(u)'
      BY <1>3, <2>1, <2>2, ImportDecides DEF ReviewItem, Undecided
    <3>2. ItemOpen'
      BY <2>2 DEF Report, ItemOpen
    <3> QED
      BY <3>1, <3>2 DEF SerialInv
  <2>3. CASE Continue("publish") /\ UNCHANGED refused
    <3>1. OneAtATime' /\ DecidedOnce' /\ QueueOpen' /\ \A u \in Tabs : RequestOpen(u)'
      BY <1>3, <2>1, <2>3, ImportDecides DEF ReviewItem, Undecided
    <3>2. ItemOpen'
      BY <1>3, <2>0, <2>1, <2>3
         DEF ReviewItem, Continue, ItemOpen, Undecided, Queue, uploadVars
    <3> QED
      BY <3>1, <3>2 DEF SerialInv
  <2> QED
    BY <1>3, <2>0, <2>2, <2>3 DEF ReviewItem
<1>4. ASSUME item > 0, step = "publish", UNCHANGED <<verdict, refused>>,
             products' = products \/ Insert(batch[item]),
             step' = "prepare" \/ item' = 0
      PROVE  SerialInv'
  <2>0. PICK p : p = batch[item]
    OBVIOUS
  <2>1. p \in Photos /\ p \notin Queue /\ Undecided(p)
    BY <1>0, <1>4, <2>0, ItemPhoto DEF ItemOpen
  <2>2. /\ products'[p] <= 1
        /\ \A q \in Photos : q # p => products'[q] = products[q]
    BY <1>4, <2>0, <2>1 DEF Insert, Undecided, CatalogTypeOK
  <2>3. OneAtATime' /\ DecidedOnce' /\ QueueOpen' /\ \A u \in Tabs : RequestOpen(u)'
    BY <1>4, <2>1, <2>2, ImportDecides DEF Undecided
  <2>4. ItemOpen'
    BY <1>4 DEF ItemOpen
  <2> QED
    BY <2>3, <2>4 DEF SerialInv
<1>5. ASSUME PublishItem PROVE SerialInv'
  <2>1. batch[item] \in Photos
    BY <1>5, ItemPhoto DEF PublishItem
  <2>2. products' = products \/ Insert(batch[item])
    BY <1>5, <2>1, FailedUnlost DEF PublishItem, Committed
  <2>3. step' = "prepare"
    BY <1>5 DEF PublishItem, Report
  <2> QED
    BY <1>4, <1>5, <2>2, <2>3 DEF PublishItem
<1>6. ASSUME AbortImport PROVE SerialInv'
  <2>1. CASE step = "publish" /\ Insert(batch[item])
    BY <1>4, <1>6, <2>1 DEF AbortImport
  <2> QED
    BY <1>1, <1>6, <2>1 DEF AbortImport
<1>7. ASSUME NEW b \in Batches, StartImport(b) PROVE SerialInv'
  BY <1>1, <1>7 DEF StartImport
<1> QED
  BY <1>2, <1>3, <1>5, <1>6, <1>7 DEF ImportNext

LEMMA SerialStep ==
  ASSUME ~Overlap, "lost" \notin Faults
  PROVE  TypeOK /\ UnjudgedInv /\ ReviewInv /\ SerialInv /\ [Next]_vars => SerialInv'
<1> SUFFICES ASSUME TypeOK, UnjudgedInv, ReviewInv, SerialInv, [Next]_vars
             PROVE  SerialInv'
  OBVIOUS
<1>1. CASE UNCHANGED vars
  BY <1>1 DEF vars, catalogVars, uploadVars, importVars, SerialInv, OneAtATime,
       DecidedOnce, QueueOpen, Queue, Finishing, Undecided, RequestOpen, Pending, ItemOpen
<1> QED
  BY <1>1, UploadSerial, ImportSerial DEF Next

-----------------------------------------------------------------------------
(* What adding products promises.                                          *)

(* A photo whose rows and place in line stay keeps its status.             *)
LEMMA StatusKept ==
  ASSUME TypeOK, NEW q \in Photos,
         verdict'[q] = verdict[q], products'[q] = products[q],
         q \in refused' <=> q \in refused,
         verdict[q] = "usable" => (Waiting(q)' <=> Waiting(q))
  PROVE  StatusOf(q)' = StatusOf(q)
BY DEF StatusOf, TypeOK, CatalogTypeOK

(* A step that lets go of waiting photos at most.                          *)
LEMMA DropOnly ==
  ASSUME TypeOK, TypeOK', UNCHANGED <<verdict, products, refused>>,
         \A q \in Photos : verdict[q] = "usable" /\ Waiting(q)' => Waiting(q)
  PROVE  Promise!Drop
<1>1. ASSUME NEW q \in Photos
      PROVE  \/ StatusOf(q)' = StatusOf(q)
             \/ StatusOf(q) = "waiting" /\ StatusOf(q)' = "dropped"
  BY <1>1 DEF StatusOf, TypeOK, CatalogTypeOK
<1>2. \A q \in Photos :
        StatusOf(q)' \in {"new", "waiting", "unusable", "published", "refused", "dropped"}
  BY DEF StatusOf, TypeOK, CatalogTypeOK
<1> QED
  BY <1>1, <1>2 DEF Promise!Drop

(* A step that moves one photo.                                            *)
LEMMA OneMoves ==
  ASSUME NEW p \in Photos, NEW from, NEW to,
         StatusOf(p) = from, StatusOf(p)' = to,
         \A q \in Photos : q # p => StatusOf(q)' = StatusOf(q)
  PROVE  Promise!Change(p, from, to)
BY DEF Promise!Change

(* What the rows say of a photo, before a step and after it.               *)
LEMMA StatusBefore ==
  ASSUME TypeOK, NEW p \in Photos
  PROVE  /\ Undecided(p) /\ verdict[p] = "none" => StatusOf(p) = "new"
         /\ Undecided(p) /\ verdict[p] = "usable" /\ Waiting(p) => StatusOf(p) = "waiting"
BY DEF StatusOf, Undecided

LEMMA StatusAfter ==
  ASSUME NEW p \in Photos
  PROVE  /\ products'[p] = 1 => StatusOf(p)' = "published"
         /\ products'[p] = 0 /\ p \in refused' => StatusOf(p)' = "refused"
         /\ Undecided(p)' /\ verdict'[p] = "usable" /\ Waiting(p)'
              => StatusOf(p)' = "waiting"
         /\ Undecided(p)' /\ verdict'[p] = "unusable" => StatusOf(p)' = "unusable"
BY DEF StatusOf, Undecided

(* The photo held leaves the waiting state with a product, or refused.     *)
LEMMA Decides ==
  ASSUME TypeOK, NEW p \in Photos, Waiting(p), Undecided(p), verdict[p] = "usable",
         verdict' = verdict,
         \A q \in Photos : q # p =>
           /\ products'[q] = products[q] /\ (q \in refused' <=> q \in refused)
           /\ verdict[q] = "usable" => (Waiting(q)' <=> Waiting(q)),
         \/ Insert(p)
         \/ products' = products /\ p \in refused'
  PROVE  Promise!Publish(p) \/ Promise!Refuse(p)
<1>1. \A q \in Photos : q # p => StatusOf(q)' = StatusOf(q)
  BY StatusKept
<1>2. StatusOf(p) = "waiting"
  BY StatusBefore
<1>3. CASE Insert(p)
  <2>1. products' = [products EXCEPT ![p] = 1]
    BY <1>3 DEF Insert, Undecided, TypeOK, CatalogTypeOK
  <2>2. StatusOf(p)' = "published"
    BY <2>1, StatusAfter DEF TypeOK, CatalogTypeOK
  <2> QED
    BY <1>1, <1>2, <2>1, <2>2, OneMoves DEF Promise!Publish
<1>4. CASE products' = products /\ p \in refused'
  <2>1. StatusOf(p)' = "refused"
    BY <1>4, StatusAfter DEF Undecided
  <2> QED
    BY <1>1, <1>2, <1>4, <2>1, OneMoves DEF Promise!Refuse
<1> QED
  BY <1>3, <1>4

(* A photo judged for the first time waits if it is usable.                *)
LEMMA Judges ==
  ASSUME TypeOK, UnjudgedInv, ReviewInv, SerialInv,
         NEW p \in Photos, verdict[p] = "none", NEW usable \in BOOLEAN, Judge(p, usable),
         UNCHANGED <<products, refused>>,
         usable => Waiting(p)',
         \A q \in Photos : q # p /\ verdict[q] = "usable" => (Waiting(q)' <=> Waiting(q))
  PROVE  Promise!Judge(p)
<1>1. \A q \in Photos : q # p => verdict'[q] = verdict[q]
  BY DEF Judge, TypeOK, CatalogTypeOK
<1>2. verdict'[p] = IF usable THEN "usable" ELSE "unusable"
  BY DEF Judge, TypeOK, CatalogTypeOK
<1>3. products[p] = 0 /\ p \notin refused
  BY UnjudgedOpen
<1>4. \A q \in Photos : q # p => StatusOf(q)' = StatusOf(q)
  BY <1>1, StatusKept
<1>5. StatusOf(p) = "new"
  BY <1>3, StatusBefore DEF Undecided
<1>6. StatusOf(p)' \in {"waiting", "unusable"}
  BY <1>2, <1>3, StatusAfter DEF Undecided
<1> QED
  BY <1>4, <1>5, <1>6, OneMoves DEF Promise!Judge

LEMMA UploadKeepsPromise ==
  ASSUME "lost" \notin Faults, TypeOK, TypeOK', UnjudgedInv, ReviewInv, SerialInv,
         UploadNext, UNCHANGED importVars
  PROVE  Promise!Next
<1>0. /\ QueueOpen /\ \A t \in Tabs : RequestOpen(t)
  BY DEF SerialInv
<1>1. ASSUME UNCHANGED <<verdict, products, refused>>,
             \A q \in Photos : place'[q] > 0 => place[q] > 0 
      PROVE  Promise!Next
  <2>1. \A q \in Photos : Waiting(q)' => Waiting(q)
    BY <1>1 DEF Waiting, Pending, Queue, importVars
  <2> QED
    BY <1>1, <2>1, DropOnly DEF Promise!Next
<1>2. \A S : \A q \in Photos : ~(Without(S)[q] > 0) \/ place[q] > 0
  BY DEF Without
<1>3. ASSUME NEW t \in Tabs, NEW b \in Batches, Upload(t, b) PROVE Promise!Next
  BY <1>1, <1>3 DEF Upload
<1>4. ASSUME NEW t \in Tabs, StartBatch(t) PROVE Promise!Next
  BY <1>1, <1>4 DEF StartBatch
<1>5. ASSUME NEW t \in Tabs, NEW usable \in BOOLEAN, PrepareImage(t, usable)
      PROVE  Promise!Next
  <2>0. PICK p : p = req[t].photos[req[t].done + 1]
    OBVIOUS
  <2>1. p \in Photos /\ p \in WebLeft(t)
    <3>1. req[t].done + 1 \in 1..Len(req[t].photos) /\ req[t].done \in Nat
      BY <1>5, RequestPhoto DEF PrepareImage, TypeOK
    <3> QED
      BY <1>5, <2>0, <3>1, RequestPhoto DEF PrepareImage, TypeOK, WebLeft
  <2>2. verdict[p] = "none"
    BY <2>1 DEF UnjudgedInv
  <2>3. /\ Judge(p, usable) /\ UNCHANGED <<products, refused>>
        /\ place' = [place EXCEPT ![p] = placed + 1]
    BY <1>5, <2>0 DEF PrepareImage
  <2>4. \A q \in Photos : q # p /\ verdict[q] = "usable" => (Waiting(q)' <=> Waiting(q))
    BY <2>1, <2>3 DEF Waiting, Pending, Queue, importVars, Judge, TypeOK, CatalogTypeOK,
         UploadTypeOK
  <2>5. usable => Waiting(p)'
    BY <2>1, <2>3 DEF Waiting, Pending, Queue, Judge, TypeOK, CatalogTypeOK, UploadTypeOK
  <2> QED
    BY <2>1, <2>2, <2>3, <2>4, <2>5, Judges DEF Promise!Next
<1>6. ASSUME NEW t \in Tabs, NEW p \in Photos, OpenReview(t, p) PROVE Promise!Next
  BY <1>1, <1>6 DEF OpenReview, catalogVars
<1>7. ASSUME NEW t \in Tabs, NEW d \in {"approve", "reject"}, SubmitReview(t, d)
      PROVE  Promise!Next
  BY <1>1, <1>7 DEF SubmitReview
<1>8. ASSUME NEW t \in Tabs, Publish(t) PROVE Promise!Next
  <2>0. PICK p : p = req[t].photos[1]
    OBVIOUS
  <2>1. p \in Photos /\ Pending(p) /\ Undecided(p)
    BY <1>0, <1>8, <2>0, RequestPhoto DEF Publish, RequestOpen, TypeOK
  <2>2. UNCHANGED <<verdict, refused, place>>
    BY <1>8 DEF Publish
  <2>3. CASE Committed(p)
    <3>1. Insert(p)
      BY <2>3 DEF Committed
    <3>2. \A q \in Photos : q # p =>
            /\ products'[q] = products[q] /\ (q \in refused' <=> q \in refused)
            /\ verdict[q] = "usable" => (Waiting(q)' <=> Waiting(q))
      BY <2>2, <3>1 DEF Insert, TypeOK, CatalogTypeOK, Waiting, Pending, Queue, importVars
    <3>3. Waiting(p) /\ verdict[p] = "usable"
      BY <2>1 DEF Waiting, Pending
    <3> QED
      BY <2>1, <2>2, <3>1, <3>2, <3>3, Decides DEF Promise!Next
  <2>4. CASE Failed(p)
    BY <1>1, <2>1, <2>2, <2>4, FailedUnlost
  <2> QED
    BY <1>8, <2>0, <2>3, <2>4 DEF Publish
<1>9. ASSUME NEW t \in Tabs, FinishReview(t) PROVE Promise!Next
  <2>0. PICK p : p = req[t].photos[1]
    OBVIOUS
  <2>1. /\ UNCHANGED <<verdict, products>>
        /\ \A q \in Photos : place'[q] > 0 => place[q] > 0
    <3>1. \E S : place' = Without(S)
      BY <1>9 DEF FinishReview
    <3> QED
      BY <1>2, <1>9, <3>1 DEF FinishReview
  <2>2. CASE req[t].op = "finish"
    BY <1>1, <1>9, <2>1, <2>2 DEF FinishReview
  <2>3. CASE req[t].op = "decline"
    <3>1. p \in Photos /\ Pending(p) /\ Undecided(p)
      BY <1>0, <2>0, <2>3, RequestPhoto DEF RequestOpen, TypeOK
    <3>2. refused' = refused \cup {p}
      BY <1>9, <2>0, <2>3 DEF FinishReview
    <3>3. \A q \in Photos : q # p /\ verdict[q] = "usable" => place'[q] = place[q]
      <4>1. \/ place' = Without({p})
            \/ \E first \in Photos : /\ verdict[first] # "usable"
                                     /\ place' = Without({p, first})
        BY <1>9, <2>0 DEF FinishReview
      <4> QED
        BY <4>1 DEF Without
    <3>4. \A q \in Photos : q # p =>
            /\ products'[q] = products[q] /\ (q \in refused' <=> q \in refused)
            /\ verdict[q] = "usable" => (Waiting(q)' <=> Waiting(q))
      BY <2>1, <3>2, <3>3 DEF Waiting, Pending, Queue, importVars
    <3>5. Waiting(p) /\ verdict[p] = "usable"
      BY <3>1 DEF Waiting, Pending
    <3> QED
      BY <2>1, <3>1, <3>2, <3>4, <3>5, Decides DEF Promise!Next
  <2> QED
    BY <1>9, <2>2, <2>3 DEF FinishReview
<1>10. CASE RestartApi
  BY <1>1, <1>10 DEF RestartApi
<1> QED
  BY <1>3, <1>4, <1>5, <1>6, <1>7, <1>8, <1>9, <1>10 DEF UploadNext

LEMMA ImportKeepsPromise ==
  ASSUME "lost" \notin Faults, TypeOK, TypeOK', UnjudgedInv, ReviewInv, SerialInv,
         ImportNext, UNCHANGED uploadVars
  PROVE  Promise!Next
<1>0. ItemOpen
  BY DEF SerialInv
<1>1. Queue' = Queue
  BY DEF uploadVars, Queue
(* The item is let go of.                                                  *)
<1>2. ASSUME UNCHANGED <<verdict, products, refused>>,
             step' = "prepare" \/ item' = 0
      PROVE  Promise!Next
  BY <1>1, <1>2, DropOnly DEF Waiting, Pending, Promise!Next
(* The item is decided, and let go of.                                     *)
<1>3. ASSUME item > 0, step # "prepare", verdict' = verdict,
             step' = "prepare" \/ item' = 0,
             \/ Insert(batch[item]) /\ refused' = refused
             \/ products' = products /\ refused' = refused \cup {batch[item]}
      PROVE  Promise!Next
  <2>0. PICK p : p = batch[item]
    OBVIOUS
  <2>1. p \in Photos /\ Waiting(p) /\ Undecided(p) /\ verdict[p] = "usable"
    BY <1>0, <1>3, <2>0, ItemPhoto DEF ItemOpen, Waiting, ReviewInv, TypeOK
  <2>2. \A q \in Photos : q # p =>
          /\ products'[q] = products[q] /\ (q \in refused' <=> q \in refused)
          /\ verdict[q] = "usable" => (Waiting(q)' <=> Waiting(q))
    BY <1>1, <1>3, <2>0, <2>1 DEF Insert, TypeOK, CatalogTypeOK, Waiting, Pending
  <2>3. Insert(p) \/ (products' = products /\ p \in refused')
    BY <1>3, <2>0
  <2> QED
    BY <1>3, <2>1, <2>2, <2>3, Decides DEF Promise!Next
<1>4. ASSUME NEW b \in Batches, StartImport(b) PROVE Promise!Next
  BY <1>2, <1>4 DEF StartImport
<1>5. ASSUME NEW usable \in BOOLEAN, PrepareItem(usable) PROVE Promise!Next
  <2>0. PICK p : p = batch[item]
    OBVIOUS
  <2>1. p \in Photos /\ p \in CliLeft
    BY <1>5, <2>0, ItemPhoto DEF PrepareItem, CliLeft, TypeOK
  <2>2. verdict[p] = "none"
    BY <2>1 DEF UnjudgedInv
  <2>3. Judge(p, usable) /\ UNCHANGED <<products, refused>>
    BY <1>5, <2>0 DEF PrepareItem
  <2>4. \A q \in Photos : q # p => verdict'[q] = verdict[q]
    BY <2>3 DEF Judge, TypeOK, CatalogTypeOK
  <2>5. CASE usable
    <3>1. item > 0 /\ step = "prepare" /\ Continue("review")
      BY <1>5, <2>5 DEF PrepareItem
    <3>2. Waiting(p)'
      BY <2>0, <3>1 DEF Continue, Waiting
    <3>3. \A q \in Photos : q # p => (Waiting(q)' <=> Waiting(q))
      BY <1>1, <2>0, <2>4, <3>1 DEF Continue, Waiting, Pending
    <3> QED
      BY <2>1, <2>2, <2>3, <3>2, <3>3, Judges DEF Promise!Next
  <2>6. CASE ~usable
    <3>1. step = "prepare" /\ step' = "prepare"
      BY <1>5, <2>6 DEF PrepareItem, Report
    <3>2. \A q \in Photos : q # p => (Waiting(q)' <=> Waiting(q))
      BY <1>1, <2>4, <3>1 DEF Waiting, Pending
    <3> QED
      BY <2>1, <2>2, <2>3, <2>6, <3>2, Judges DEF Promise!Next
  <2> QED
    BY <2>5, <2>6
<1>6. ASSUME NEW d \in {"approve", "reject"}, ReviewItem(d) PROVE Promise!Next
  <2>1. CASE d = "reject"
    BY <1>3, <1>6, <2>1 DEF ReviewItem, Report
  <2>2. CASE d # "reject"
    <3>1. /\ UNCHANGED <<verdict, products, refused, batch, item>>
          /\ item > 0 /\ step # "prepare"
      BY <1>6, <2>2 DEF ReviewItem, Continue
    <3>2. \A q \in Photos : Waiting(q)' => Waiting(q)
      BY <1>1, <3>1 DEF Waiting, Pending
    <3> QED
      BY <3>1, <3>2, DropOnly DEF Promise!Next
  <2> QED
    BY <2>1, <2>2
<1>7. ASSUME PublishItem PROVE Promise!Next
  <2>1. batch[item] \in Photos
    BY <1>7, ItemPhoto DEF PublishItem, TypeOK
  <2>2. /\ products' = products \/ Insert(batch[item])
        /\ UNCHANGED <<verdict, refused>>
        /\ item > 0 /\ step = "publish" /\ step' = "prepare"
    BY <1>7, <2>1, FailedUnlost DEF PublishItem, Committed, Report
  <2> QED
    BY <1>2, <1>3, <2>2
<1>8. CASE AbortImport
  BY <1>2, <1>3, <1>8 DEF AbortImport
<1> QED
  BY <1>4, <1>5, <1>6, <1>7, <1>8 DEF ImportNext

(* Where posts to the form run one at a time and no commit loses its       *)
(* answer, the form and the command keep what adding products by photo     *)
(* promises (PhotoReview): each photo is judged once, becomes one product  *)
(* or none, by the owner's word, and is not brought back once it is        *)
(* published, refused or dropped by a restart, an upload or a failed item. *)
THEOREM ReviewRefinement ==
  ASSUME ~Overlap, "lost" \notin Faults
  PROVE  Spec => ImplementsReview
<1>1. Init => TypeOK /\ UnjudgedInv /\ ReviewInv /\ SerialInv
  BY InitType, InitUnjudged, InitReview, InitSerial
<1>2. TypeOK /\ UnjudgedInv /\ ReviewInv /\ SerialInv /\ [Next]_vars
        => (TypeOK /\ UnjudgedInv /\ ReviewInv /\ SerialInv)'
  BY TypeStep, UnjudgedStep, ReviewStep, SerialStep
<1>3. Init => Promise!Init
  <2> SUFFICES ASSUME Init PROVE Promise!Init
    OBVIOUS
  <2>1. \A p \in Photos : StatusOf(p) = "new"
    BY <1>1, StatusBefore DEF Init, CatalogInit, Undecided
  <2> QED
    BY <2>1 DEF Init, CatalogInit, Promise!Init
<1>4. TypeOK /\ UnjudgedInv /\ ReviewInv /\ SerialInv /\ [Next]_vars
        => [Promise!Next]_(Promise!vars)
  <2> SUFFICES ASSUME TypeOK, UnjudgedInv, ReviewInv, SerialInv, [Next]_vars
               PROVE  [Promise!Next]_(Promise!vars)
    OBVIOUS
  <2>1. CASE UNCHANGED vars
    <3>1. \A q \in Photos : StatusOf(q)' = StatusOf(q)
      BY <2>1, StatusKept
         DEF vars, catalogVars, uploadVars, importVars, Waiting, Pending, Queue
    <3> QED
      BY <2>1, <3>1 DEF vars, catalogVars, Promise!vars
  <2>2. CASE Next
    <3>1. TypeOK'
      BY TypeStep
    <3> QED
      BY <2>2, <3>1, UploadKeepsPromise, ImportKeepsPromise DEF Next
  <2> QED
    BY <2>1, <2>2
<1> QED
  BY <1>1, <1>2, <1>3, <1>4, PTL DEF Spec, ImplementsReview, Promise!Spec

(* Where posts to the form run one at a time and no commit loses its       *)
(* answer, no photo becomes two products.                                  *)
THEOREM NothingPublishedTwice ==
  ASSUME ~Overlap, "lost" \notin Faults
  PROVE  Spec => []PublishedOnce
<1>1. Init => TypeOK /\ UnjudgedInv /\ ReviewInv /\ SerialInv
  BY InitType, InitUnjudged, InitReview, InitSerial
<1>2. TypeOK /\ UnjudgedInv /\ ReviewInv /\ SerialInv /\ [Next]_vars
        => (TypeOK /\ UnjudgedInv /\ ReviewInv /\ SerialInv)'
  BY TypeStep, UnjudgedStep, ReviewStep, SerialStep
<1>3. SerialInv => PublishedOnce
  BY DEF SerialInv, DecidedOnce, PublishedOnce
<1> QED
  BY <1>1, <1>2, <1>3, PTL DEF Spec

-----------------------------------------------------------------------------
(* The summary of the import.                                              *)

(* A step of the form that changes one tab's request: what is held         *)
(* afterwards was held before, or is new.                                  *)
LEMMA WebTab ==
  ASSUME UploadTypeOK, NEW t \in Tabs, NEW r, req' = [req EXCEPT ![t] = r], NEW new,
         Images(r) \subseteq WebHeld \cup new,
         Queue' \subseteq WebHeld
  PROVE  WebHeld' \subseteq WebHeld \cup new
<1>1. \A u \in Tabs : req'[u] = IF u = t THEN r ELSE req[u]
  BY DEF UploadTypeOK
<1>2. ASSUME NEW u \in Tabs PROVE Images(req'[u]) \subseteq WebHeld \cup new
  <2>1. CASE u = t
    BY <1>1, <2>1 DEF Images
  <2>2. CASE u # t
    <3>1. Images(req'[u]) = Images(req[u])
      BY <1>1, <2>2 DEF Images
    <3> QED BY <3>1 DEF WebHeld
  <2> QED BY <2>1, <2>2
<1> QED BY <1>2 DEF WebHeld

LEMMA NoneAsked == Images(NoRequest) = {}
BY DEF NoRequest, Images

LEMMA AskedFirst ==
  ASSUME UploadTypeOK, NEW t \in Tabs, req[t].op # "none"
  PROVE  req[t].photos[1] \in WebHeld /\ req[t].photos[req[t].done + 1] \in WebHeld
<1>1. /\ req[t].photos \in Seq(Photos) /\ req[t].done \in Nat
      /\ req[t].done < Len(req[t].photos)
  BY DEF UploadTypeOK, Request
<1>2. 1 \in DOMAIN req[t].photos /\ req[t].done + 1 \in DOMAIN req[t].photos
  BY <1>1
<1> QED BY <1>2 DEF WebHeld, Images

(* What a step of the form holds it held before or just took, and only of  *)
(* that it makes products.                                                 *)
LEMMA WebMoves ==
  ASSUME "lost" \notin Faults, TypeOK, UnjudgedInv, UploadNext
  PROVE  /\ WebHeld' \subseteq WebHeld \cup (fresh \ fresh') /\ fresh' \subseteq fresh
         /\ \A p \in Photos \ WebHeld : products'[p] = products[p]
<1> USE DEF TypeOK
<1>1. ASSUME NEW t \in Tabs, NEW b \in Batches, Upload(t, b)
      PROVE  /\ WebHeld' \subseteq WebHeld \cup (fresh \ fresh') /\ fresh' \subseteq fresh
             /\ products' = products
  <2> DEFINE r == [op |-> "start", photos |-> b, done |-> 0]
             taken == {b[i] : i \in 1..Len(b)}
  <2>1. /\ req' = [req EXCEPT ![t] = r] /\ products' = products
        /\ place' = [p \in Photos |-> 0] /\ Take(b)
    BY <1>1 DEF Upload, Ask
  <2>2. taken \subseteq fresh /\ fresh' = fresh \ taken
    BY <2>1, BatchTaken
  <2>3. DOMAIN b = 1..Len(b)
    BY BatchType
  <2>4. Images(r) = taken
    BY <2>3 DEF Images
  <2>5. Queue' = {}
    BY <2>1 DEF Queue
  <2>6. taken \subseteq fresh \ fresh'
    BY <2>2
  <2> HIDE DEF r, taken
  <2>7. WebHeld' \subseteq WebHeld \cup (fresh \ fresh')
    BY <2>1, <2>4, <2>5, <2>6, WebTab
  <2> QED BY <2>1, <2>2, <2>7
<1>2. ASSUME fresh' = fresh, WebHeld' \subseteq WebHeld, products' = products
      PROVE  /\ WebHeld' \subseteq WebHeld \cup (fresh \ fresh') /\ fresh' \subseteq fresh
             /\ \A p \in Photos \ WebHeld : products'[p] = products[p]
  BY <1>2
<1>3. ASSUME NEW t \in Tabs, NEW r, req' = [req EXCEPT ![t] = r], Queue' \subseteq WebHeld,
             Images(r) \subseteq WebHeld
      PROVE  WebHeld' \subseteq WebHeld
  <2>1. WebHeld' \subseteq WebHeld \cup {}
    BY <1>3, WebTab
  <2> QED BY <2>1
<1>4. ASSUME NEW t \in Tabs, NEW shown, Answer(t, shown), Queue' \subseteq WebHeld
      PROVE  WebHeld' \subseteq WebHeld
  <2>1. req' = [req EXCEPT ![t] = NoRequest]
    BY <1>4 DEF Answer
  <2> QED BY <1>3, <1>4, <2>1, NoneAsked
<1>5. Queue \subseteq WebHeld /\ \A u \in Tabs : Images(req[u]) \subseteq WebHeld
  BY DEF WebHeld
<1>6. ASSUME NEW t \in Tabs, StartBatch(t)
      PROVE  fresh' = fresh /\ WebHeld' \subseteq WebHeld /\ products' = products
  <2>1. Queue' \subseteq WebHeld /\ fresh' = fresh /\ products' = products
    BY <1>5, <1>6 DEF StartBatch, Queue
  <2>2. CASE req' = [req EXCEPT ![t].op = "prepare"]
    <3> DEFINE r == [req[t] EXCEPT !.op = "prepare"]
    <3>1. req' = [req EXCEPT ![t] = r]
      BY <2>2
    <3>2. r.photos = req[t].photos
      BY DEF UploadTypeOK, Request
    <3> HIDE DEF r
    <3>3. Images(r) \subseteq WebHeld
      BY <1>5, <3>2 DEF Images
    <3> QED BY <1>3, <2>1, <3>1, <3>3
  <2>3. CASE Answer(t, Form)
    BY <1>4, <2>1, <2>3
  <2> QED BY <1>6, <2>1, <2>2, <2>3 DEF StartBatch
<1>7. ASSUME NEW t \in Tabs, NEW usable \in BOOLEAN, PrepareImage(t, usable)
      PROVE  fresh' = fresh /\ WebHeld' \subseteq WebHeld /\ products' = products
  <2>0. PICK p : p = req[t].photos[req[t].done + 1]
    OBVIOUS
  <2>1. p \in WebHeld
    BY <1>7, <2>0, AskedFirst DEF PrepareImage
  <2>2. /\ place' = [place EXCEPT ![p] = placed + 1]
        /\ fresh' = fresh /\ products' = products
    BY <1>7, <2>0 DEF PrepareImage
  <2>3. Queue' \subseteq WebHeld
    BY <1>5, <2>1, <2>2 DEF Queue, UploadTypeOK
  <2>4. CASE req' = [req EXCEPT ![t].done = @ + 1]
    <3> DEFINE r == [req[t] EXCEPT !.done = @ + 1]
    <3>1. req' = [req EXCEPT ![t] = r]
      BY <2>4
    <3>2. r.photos = req[t].photos
      BY DEF UploadTypeOK, Request
    <3> HIDE DEF r
    <3>3. Images(r) \subseteq WebHeld
      BY <1>5, <3>2 DEF Images
    <3> QED BY <1>3, <2>2, <2>3, <3>1, <3>3
  <2>5. CASE \E shown : Answer(t, shown)
    BY <1>4, <2>2, <2>3, <2>5
  <2> QED BY <1>7, <2>4, <2>5 DEF PrepareImage
<1>8. ASSUME NEW t \in Tabs, NEW p \in Photos, OpenReview(t, p)
      PROVE  fresh' = fresh /\ WebHeld' \subseteq WebHeld /\ products' = products
  BY <1>8 DEF OpenReview, catalogVars, WebHeld, Queue
<1>9. ASSUME NEW t \in Tabs, NEW d \in {"approve", "reject"}, SubmitReview(t, d)
      PROVE  fresh' = fresh /\ WebHeld' \subseteq WebHeld /\ products' = products
  <2>0. PICK p : p = page[t].photo
    OBVIOUS
  <2>1. Queue' = Queue /\ fresh' = fresh /\ products' = products
    BY <1>9 DEF SubmitReview, Queue
  <2>2. CASE Pending(p)
    <3>1. PICK op : Ask(t, op, <<p>>)
      BY <1>9, <2>0, <2>2 DEF SubmitReview
    <3> DEFINE r == [op |-> op, photos |-> <<p>>, done |-> 0]
    <3>2. req' = [req EXCEPT ![t] = r]
      BY <3>1 DEF Ask
    <3>3. Images(r) = {p}
      BY DEF Images
    <3>4. p \in WebHeld
      BY <1>5, <2>2 DEF Pending
    <3> HIDE DEF r
    <3> QED BY <1>3, <1>5, <2>1, <3>2, <3>3, <3>4
  <2>3. CASE ~Pending(p)
    <3>1. req' = req
      BY <1>9, <2>0, <2>3 DEF SubmitReview
    <3> QED BY <2>1, <3>1 DEF WebHeld
  <2> QED BY <2>2, <2>3
<1>10. ASSUME NEW t \in Tabs, Publish(t)
       PROVE  /\ fresh' = fresh /\ WebHeld' \subseteq WebHeld
              /\ \A q \in Photos \ WebHeld : products'[q] = products[q]
  <2>0. PICK p : p = req[t].photos[1]
    OBVIOUS
  <2>1. p \in WebHeld /\ p \in Photos
    BY <1>10, <2>0, AskedFirst, RequestPhoto DEF Publish
  <2>2. Queue' = Queue /\ fresh' = fresh
    BY <1>10 DEF Publish, Queue
  <2>3. CASE Committed(p) /\ req' = [req EXCEPT ![t].op = "finish"]
    <3> DEFINE r == [req[t] EXCEPT !.op = "finish"]
    <3>1. req' = [req EXCEPT ![t] = r]
      BY <2>3
    <3>2. r.photos = req[t].photos
      BY DEF UploadTypeOK, Request
    <3> HIDE DEF r
    <3>3. Images(r) \subseteq WebHeld
      BY <1>5, <3>2 DEF Images
    <3>4. WebHeld' \subseteq WebHeld
      BY <1>3, <1>5, <2>2, <3>1, <3>3
    <3>5. \A q \in Photos \ WebHeld : products'[q] = products[q]
      BY <2>1, <2>3 DEF Committed, Insert, CatalogTypeOK
    <3> QED BY <2>2, <3>4, <3>5
  <2>4. CASE Failed(p) /\ Answer(t, [kind |-> "review", photo |-> p])
    <3>1. products' = products
      BY <2>1, <2>4, FailedUnlost
    <3> QED BY <1>4, <1>5, <2>2, <2>4, <3>1
  <2> QED BY <1>10, <2>0, <2>3, <2>4 DEF Publish
<1>11. ASSUME NEW t \in Tabs, FinishReview(t)
       PROVE  fresh' = fresh /\ WebHeld' \subseteq WebHeld /\ products' = products
  <2>1. fresh' = fresh /\ products' = products /\ \E shown : Answer(t, shown)
    BY <1>11, Zenon DEF FinishReview
  <2>2. \E S : place' = Without(S)
    BY <1>11, Zenon DEF FinishReview
  <2>3. Queue' \subseteq WebHeld
    BY <1>5, <2>2 DEF Without, Queue
  <2> QED BY <1>4, <2>1, <2>3
<1>12. ASSUME RestartApi
       PROVE  fresh' = fresh /\ WebHeld' \subseteq WebHeld /\ products' = products
  <2>1. /\ fresh' = fresh /\ products' = products
        /\ place' = [p \in Photos |-> 0] /\ req' = [t \in Tabs |-> NoRequest]
    BY <1>12 DEF RestartApi
  <2>2. Queue' = {}
    BY <2>1 DEF Queue
  <2>3. \A t \in Tabs : Images(req'[t]) = {}
    BY <2>1, NoneAsked
  <2> QED BY <2>1, <2>2, <2>3 DEF WebHeld
<1>13. ASSUME NEW t \in Tabs, Publish(t)
       PROVE  /\ WebHeld' \subseteq WebHeld \cup (fresh \ fresh') /\ fresh' \subseteq fresh
              /\ \A p \in Photos \ WebHeld : products'[p] = products[p]
  BY <1>10, <1>13
<1> QED BY <1>1, <1>2, <1>6, <1>7, <1>8, <1>9, <1>11, <1>12, <1>13 DEF UploadNext

LEMMA UploadSummary ==
  ASSUME "lost" \notin Faults, TypeOK, UnjudgedInv, SummaryInv, UploadNext, UNCHANGED importVars
  PROVE  SummaryInv'
<1>1. /\ WebHeld' \subseteq WebHeld \cup (fresh \ fresh') /\ fresh' \subseteq fresh
      /\ \A p \in Photos \ WebHeld : products'[p] = products[p]
  BY WebMoves
<1>2. CliHeld' = CliHeld /\ report' = report /\ batch' = batch /\ item' = item
  BY DEF importVars, CliHeld
<1>3. CliHeld \subseteq Photos
  BY DEF CliHeld, TypeOK, ImportTypeOK
<1>4. fresh' \cap WebHeld' = {}
  BY <1>1 DEF SummaryInv
<1> QED BY <1>1, <1>2, <1>3, <1>4 DEF SummaryInv

(* The item worked on has no status and is no product.                     *)
LEMMA ItemUnreported ==
  ASSUME TypeOK, SummaryInv, item > 0
  PROVE  /\ item \in DOMAIN batch /\ batch[item] \in Photos /\ batch[item] \in CliHeld
         /\ report[batch[item]] = "none" /\ products[batch[item]] = 0
<1>1. /\ item \in DOMAIN batch /\ batch[item] \in Photos /\ item \in Nat
  BY ItemPhoto DEF TypeOK, ImportTypeOK
<1>2. batch[item] \in CliHeld
  BY <1>1 DEF CliHeld
<1>3. report[batch[item]] = "none"
  BY <1>1 DEF SummaryInv
<1>4. products[batch[item]] \in Nat /\ products[batch[item]] # 1 /\ products[batch[item]] <= 1
  BY <1>1, <1>2, <1>3 DEF SummaryInv, TypeOK, CatalogTypeOK
<1> QED BY <1>1, <1>2, <1>3, <1>4

LEMMA WebKept == ASSUME UNCHANGED uploadVars PROVE WebHeld' = WebHeld
BY DEF uploadVars, WebHeld, Queue

(* The item gets a status that is true of it.                              *)
LEMMA ReportSummary ==
  ASSUME TypeOK, UnjudgedInv, SummaryInv, UNCHANGED uploadVars, fresh' = fresh, item > 0,
         NEW result \in Results, Report(result),
         products'[batch[item]] <= 1,
         result = "generated" <=> products'[batch[item]] = 1,
         \A q \in Photos \ {batch[item]} : products'[q] = products[q]
  PROVE  SummaryInv'
<1>1. PICK p : p = batch[item]
  OBVIOUS
<1>2. item \in DOMAIN batch /\ p \in Photos /\ p \in CliHeld /\ report[p] = "none"
  BY <1>1, ItemUnreported
<1>3. /\ report' = [report EXCEPT ![p] = result] /\ batch' = batch
      /\ item' = IF item = Len(batch) THEN 0 ELSE item + 1
  BY <1>1 DEF Report
<1>4. /\ report \in [Photos -> Results \cup {"none"}] /\ result # "none"
      /\ batch \in Seq(Photos) /\ item \in Nat
  BY DEF TypeOK, ImportTypeOK, Results
<1>5. CliHeld' = CliHeld
  BY <1>2, <1>3, <1>4 DEF CliHeld
<1>6. WebHeld' = WebHeld
  BY WebKept
<1>7. ASSUME NEW i \in DOMAIN batch
      PROVE  report'[batch[i]] # "none" <=> item' = 0 \/ i < item'
  <2>1. DOMAIN batch = 1..Len(batch) /\ Len(batch) \in Nat /\ i \in 1..Len(batch)
    BY <1>4
  <2>2. report[batch[i]] # "none" <=> i < item
    BY DEF SummaryInv
  <2>3. batch[i] = p <=> i = item
    BY <1>1, <1>2 DEF UnjudgedInv, Distinct
  <2>4. batch[i] \in Photos
    BY <1>4
  <2>5. report'[batch[i]] # "none" <=> i < item \/ i = item
    BY <1>3, <1>4, <2>2, <2>3, <2>4
  <2>6. i < item \/ i = item <=> item' = 0 \/ i < item'
    <3>1. item \in 1..Len(batch)
      BY <1>2, <2>1
    <3>2. PICK n : n = Len(batch) /\ n \in Nat
      BY <2>1
    <3>3. CASE item = n
      <4>1. item' = 0
        BY <1>3, <3>2, <3>3
      <4> QED BY <2>1, <3>2, <3>3, <4>1, SMT
    <3>4. CASE item # n
      <4>1. item' = item + 1
        BY <1>3, <3>2, <3>4
      <4> QED BY <2>1, <3>1, <3>2, <3>4, <4>1, SMT
    <3> QED BY <3>3, <3>4
  <2> QED BY <2>5, <2>6
<1>8. ASSUME NEW q \in CliHeld
      PROVE  products'[q] <= 1 /\ (report'[q] = "generated" <=> products'[q] = 1)
  <2>1. q \in Photos
    BY <1>4 DEF CliHeld
  <2>2. CASE q = p
    BY <1>1, <1>2, <1>3, <1>4, <2>2
  <2>3. CASE q # p
    <3>1. products'[q] = products[q] /\ report'[q] = report[q]
      BY <1>1, <1>3, <1>4, <2>1, <2>3
    <3> QED BY <3>1 DEF SummaryInv
  <2> QED BY <2>2, <2>3
<1> QED BY <1>3, <1>5, <1>6, <1>7, <1>8 DEF SummaryInv

LEMMA ImportSummary ==
  ASSUME "lost" \notin Faults,
         TypeOK, UnjudgedInv, ReviewInv, SummaryInv, ImportNext, UNCHANGED uploadVars
  PROVE  SummaryInv'
<1>0. WebHeld' = WebHeld
  BY WebKept
<1>1. ASSUME UNCHANGED <<batch, item, report, products, fresh>>
      PROVE  SummaryInv'
  BY <1>0, <1>1 DEF SummaryInv, CliHeld
<1>2. ASSUME NEW b \in Batches, StartImport(b) PROVE SummaryInv'
  <2> DEFINE taken == {b[i] : i \in 1..Len(b)}
  <2>1. /\ Take(b) /\ item = 0 /\ batch' = b /\ item' = 1
        /\ report' = report /\ products' = products
    BY <1>2 DEF StartImport
  <2>2. taken \subseteq fresh /\ fresh' = fresh \ taken /\ \A p \in taken : verdict[p] = "none"
    BY <2>1, BatchTaken DEF TypeOK
  <2>3. DOMAIN b = 1..Len(b) /\ Len(b) \in Nat
    BY BatchType
  <2>4. CliHeld' \subseteq CliHeld \cup taken
    BY <2>1, <2>3 DEF CliHeld
  <2>5. ASSUME NEW p \in taken PROVE report[p] = "none" /\ products[p] = 0 /\ p \in Photos
    <3>1. p \in Photos /\ p \notin CliHeld
      BY <2>2, <2>5 DEF SummaryInv, TypeOK, CatalogTypeOK
    <3>2. ~(products[p] > 0) /\ products[p] \in Nat
      BY <2>2, <2>5, <3>1 DEF ReviewInv, OnlyReviewedPublished, TypeOK, CatalogTypeOK
    <3> QED BY <3>1, <3>2 DEF CliHeld
  <2>6. \A i \in DOMAIN b : b[i] \in taken /\ ~(i < 1)
    BY <2>3
  <2> HIDE DEF taken
  <2>7. /\ WebHeld' \cap CliHeld' = {} /\ fresh' \cap (WebHeld' \cup CliHeld') = {}
    BY <1>0, <2>2, <2>4 DEF SummaryInv
  <2>8. \A i \in DOMAIN batch' : report'[batch'[i]] # "none" <=> item' = 0 \/ i < item'
    BY <2>1, <2>5, <2>6
  <2>9. \A p \in CliHeld' :
          products'[p] <= 1 /\ (report'[p] = "generated" <=> products'[p] = 1)
    BY <2>1, <2>4, <2>5 DEF SummaryInv
  <2> QED BY <2>7, <2>8, <2>9 DEF SummaryInv
<1>3. ASSUME NEW usable \in BOOLEAN, PrepareItem(usable) PROVE SummaryInv'
  <2>1. item > 0 /\ fresh' = fresh /\ products' = products
    BY <1>3 DEF PrepareItem
  <2>2. products[batch[item]] = 0
    BY <2>1, ItemUnreported
  <2>3. CASE Continue("review")
    BY <1>1, <2>1, <2>3 DEF Continue
  <2>4. CASE Report("image_rejected")
    BY <2>1, <2>2, <2>4, ReportSummary DEF Results
  <2> QED BY <1>3, <2>3, <2>4 DEF PrepareItem
<1>4. ASSUME NEW d \in {"approve", "reject"}, ReviewItem(d) PROVE SummaryInv'
  <2>1. item > 0 /\ fresh' = fresh /\ products' = products
    BY <1>4 DEF ReviewItem
  <2>2. products[batch[item]] = 0
    BY <2>1, ItemUnreported
  <2>3. CASE Continue("publish")
    BY <1>1, <2>1, <2>3 DEF Continue
  <2>4. CASE Report("review_rejected")
    BY <2>1, <2>2, <2>4, ReportSummary DEF Results
  <2> QED BY <1>4, <2>3, <2>4 DEF ReviewItem
<1>5. ASSUME PublishItem PROVE SummaryInv'
  <2>1. item > 0 /\ fresh' = fresh
    BY <1>5 DEF PublishItem
  <2>2. products[batch[item]] = 0 /\ batch[item] \in Photos
    BY <2>1, ItemUnreported
  <2>3. CASE Committed(batch[item]) /\ Report("generated")
    <3>1. /\ products'[batch[item]] = 1
          /\ \A q \in Photos \ {batch[item]} : products'[q] = products[q]
      BY <2>2, <2>3 DEF Committed, Insert, TypeOK, CatalogTypeOK
    <3> QED BY <2>1, <2>3, <3>1, ReportSummary DEF Results
  <2>4. CASE Failed(batch[item]) /\ Report("error")
    <3>1. products' = products
      BY <2>2, <2>4, FailedUnlost
    <3> QED BY <2>1, <2>2, <2>4, <3>1, ReportSummary DEF Results
  <2> QED BY <1>5, <2>3, <2>4 DEF PublishItem
<1>6. ASSUME AbortImport PROVE SummaryInv'
  <2>1. /\ item > 0 /\ fresh' = fresh /\ batch' = <<>> /\ item' = 0 /\ report' = report
        /\ products' = products \/ Insert(batch[item])
    BY <1>6 DEF AbortImport
  <2>2. report[batch[item]] = "none" /\ batch[item] \in Photos
    BY <2>1, ItemUnreported
  <2>3. DOMAIN batch' = {}
    BY <2>1
  <2>4. CliHeld' \subseteq CliHeld \ {batch[item]}
    BY <2>1, <2>2, <2>3 DEF CliHeld
  <2>5. \A q \in Photos \ {batch[item]} : products'[q] = products[q]
    BY <2>1, <2>2 DEF Insert, TypeOK, CatalogTypeOK
  <2>6. CliHeld \subseteq Photos
    BY DEF CliHeld, TypeOK, ImportTypeOK
  <2> QED BY <1>0, <2>1, <2>3, <2>4, <2>5, <2>6 DEF SummaryInv
<1> QED BY <1>2, <1>3, <1>4, <1>5, <1>6 DEF ImportNext

LEMMA InitSummary == Init => SummaryInv
<1> SUFFICES ASSUME Init PROVE SummaryInv
  OBVIOUS
<1>1. /\ batch = <<>> /\ report = [p \in Photos |-> "none"]
      /\ place = [p \in Photos |-> 0] /\ req = [t \in Tabs |-> NoRequest]
  BY DEF Init, CatalogInit, UploadInit, ImportInit
<1>2. Queue = {} /\ CliHeld = {} /\ DOMAIN batch = {}
  BY <1>1 DEF Queue, CliHeld
<1>3. \A t \in Tabs : Images(req[t]) = {}
  BY <1>1, NoneAsked
<1> QED BY <1>2, <1>3 DEF SummaryInv, WebHeld

(* The summary of the import command: whatever tabs, restarts, stops and   *)
(* failed items, each item of a batch that ran to its end has a status, and*)
(* says "generated" exactly of what is now one product, if no commit loses *)
(* its answer (it would be reported as an error).  Posts to the form may   *)
(* run side by side (catalog.service.ts:87-107).                           *)
THEOREM SummaryTrue ==
  ASSUME "lost" \notin Faults
  PROVE  Spec => []SummaryIsTrue
<1>1. Init => TypeOK /\ UnjudgedInv /\ ReviewInv /\ SummaryInv
  BY InitType, InitUnjudged, InitReview, InitSummary
<1>2. TypeOK /\ UnjudgedInv /\ ReviewInv /\ SummaryInv /\ [Next]_vars
        => (TypeOK /\ UnjudgedInv /\ ReviewInv /\ SummaryInv)'
  <2>1. ASSUME TypeOK, UnjudgedInv, ReviewInv, SummaryInv, [Next]_vars
        PROVE  SummaryInv'
    <3>1. CASE UNCHANGED vars
      BY <2>1, <3>1 DEF vars, catalogVars, uploadVars, importVars, SummaryInv, CliHeld, WebHeld,
         Queue
    <3>2. CASE Next
      BY <2>1, <3>2, UploadSummary, ImportSummary DEF Next
    <3> QED BY <2>1, <3>1, <3>2
  <2> QED BY <2>1, TypeStep, UnjudgedStep, ReviewStep
<1>3. TypeOK /\ SummaryInv => SummaryIsTrue
  <2> SUFFICES ASSUME TypeOK, SummaryInv PROVE SummaryIsTrue
    OBVIOUS
  <2>1. ASSUME NEW p \in Photos, report[p] # "none"
        PROVE  report[p] = "generated" <=> products[p] = 1
    BY <2>1 DEF SummaryInv, CliHeld
  <2> QED BY <2>1 DEF SummaryInv, SummaryIsTrue
<1> QED
  BY <1>1, <1>2, <1>3, PTL DEF Spec

=============================================================================
