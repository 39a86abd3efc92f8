# WhatsApp AI Business OS: TLA+ models and proofs

Formal models of the system under `src/`: an AI sales assistant that sells over
WhatsApp, takes payments through Paystack and follows up with quiet customers.
This directory holds TLA+ modules, the TLC configurations that check them, and
proofs checked by TLAPS. `PROJECT.json` maps every definition to the lines it
models and lists the runs, the mutants that each property rejects, the findings
and the hazards.

    tlc -config PayRivals.cfg MCPaymentSystem      # Pay*.cfg
    tlc -config MsgTurns.cfg MCMessageSystem       # Msg*.cfg
    tlc -config FollowRace.cfg MCFollowUp          # Follow*.cfg
    tlc -config CatalogReview.cfg MCCatalogSystem
    tlc -config MonitorAlerts.cfg MCMonitor
    tlc -config OpsPause.cfg KillSwitch
    tlc -config AgentTurn.cfg MCAgentTurn          # Agent*.cfg
    tlapm PaymentSystemProofs.tla
    tlapm MessageProofs.tla
    tlapm FollowUpProofs.tla
    tlapm CatalogProofs.tla
    tlapm MonitorProofs.tla
    tlapm KillSwitchProofs.tla
    tlapm AgentProofs.tla

## 1. The system

Three processes share PostgreSQL and Redis: the API (`apps/api`), the worker
(`apps/worker`) and the admin commands (`apps/admin`). Nothing takes a lock
across two database calls. Every `await` is a point where another process, or
another message of the same process, may run; what keeps rows consistent is
conditional updates (`updateMany ... where status`), unique keys, one
transaction (the stock deduction) and BullMQ job ids.

| Component | State | Operations | What is hard | Correct when |
|---|---|---|---|---|
| WhatsApp webhook (`apps/api/src/webhook`) | `events`, `messages`, `conversations`, `customers` rows, the message queue | capture the raw change, create or find the rows, enqueue, apply delivery statuses, mark processed | duplicated and reordered deliveries, death between any two steps, find-then-create | an event marked PROCESSED was put to work; a message is answered once |
| Paystack webhook (`apps/api/src/payments`) | `events`, the payment queue | capture, enqueue by event key | redelivery, death between the two | every charge is handled in the end |
| Queue (`packages/queue`) | BullMQ jobs | add with job id, 5 attempts, eviction | a job id in use swallows a redelivery | a work item per delivery of new work |
| Payment service (`packages/payment`) | `payments`, `orders`, `stock_levels` | charge succeeded / failed, stock race, receipt | claim before work, a stale order snapshot, crashes, resends | stock is conserved, a payment settles once, a charge in full is not lost, one receipt |
| Payment-link tool (`packages/ai/src/tools.ts`) | `payments`, `orders` | reuse or create a link | a stale status overwritten after a network call | an order that moved past payment stays there |
| Delivery command (`apps/admin`) | `orders` | advance the delivery status | check-then-write | only paid orders ship, and only forward |
| Inbound handler (`apps/worker/src/handler.ts`) | `messages`, `conversations` | kill switch, transcription, agent, escalation, reply | retries after a side effect, five messages at a time | a handed-over conversation is in the human's queue |
| Agents, orchestrator, router (`packages/ai`) | cart in conversation metadata, `escalations`, `orders` | keyword and model routing, tool rounds, cart, create order, escalate, guard against repeated replies | stale metadata, find-then-create, retries after an order, marks that only the model's text carries | no edit of a cart is lost, nothing is ordered twice, one OPEN escalation, no loop without a hand-over |
| LLM clients, transcription (`packages/ai`) | none between calls | retry, classify errors, translate contents and pair tool results, judge a voice note | nested retries, calls paired by name | every result reaches its call, every call ends |
| Follow-up engine (`packages/followup`) | `follow_ups`, `messages` | cart pass, payment pass | racing scans, caps, an early return | an attempt is sent once, under the cap, outside quiet hours, and in the end |
| Catalog (`apps/admin`, `apps/api/src/analytics`) | `products`, `stock_levels`, a review queue in the API's memory, the pages open in tabs | upload, generate, review, publish; the import command | stale pages, double submission, a restart between upload and review, one item of several failing | only reviewed photos become products, each one once; the import's summary is true |
| Monitor (`packages/monitor`, the timer and `onError` in `apps/worker`) | counter buckets and cooldown slots in Redis | count a failed AI call, check four signals, claim an alert, send it | INCR and EXPIRE apart, buckets as long as the window, every worker checking, the claim before the send | the counter covers its window and leaves no keys; an alert once per cooldown, heard by every channel |
| Kill switch (`packages/ops`, `apps/api/src/ops`) | a Redis key | pause for a time or until resumed, resume, status; redis-cli | SET and EXPIRE apart, GET and TTL apart, two operators | a timed pause ends, a lasting one lasts, a status is true |
| Rate limiter (`apps/api/src/rate-limit`) | in-memory buckets | count a request, sweep | windows that start with a client's first request | a bound on bursts, and a Retry-After that is kept |
| Audit, analytics, health, prompts, SMTP | none of their own | reads, pure formatting, I/O | not modelled | |

The components meet only in rows and queues. A customer's message goes from the
webhook through the message queue to the handler, whose agent turn edits the cart
and creates orders and payment links; Paystack's event goes through the payment
queue to the payment service, which reads the same orders the link tool and the
delivery command write; the follow-up engine reads conversations, carts, orders
and payments, and writes only its own rows.

## 2. Modules

```
Sums                      totals of functions over finite sets, and facts about them

ShopData                  rows shared by the payment side: orders, payments, stock
  PaymentEvents           Paystack, the endpoint, the payment-events queue
    PaymentService        the worker: handleChargeEvent step by step
    PaymentLinks          create_payment_link
  DeliveryCli             the delivery command
PaymentSystem             all of them interleaved; properties, strengthenings
  Settlement              the abstract promise, implemented through a mapping
  PaymentSystemProofs     theorems

ChatData                  rows shared by webhook and handler: conversations, messages
  InboundWebhook          Meta, handleWebhook step by step, the message queue
    InboundHandler        the worker's message job with its agent turn
      MessageSystem       the two interleaved, and the properties
        MessageProofs     theorems

FollowUp                  runScan step by step, the shop it reads, the clock
  FollowUpProofs          theorems

CatalogData               photos, the vision model's verdicts, product rows
  CatalogUpload           the upload form: queue, tabs, requests
  CatalogImport           the import command, item by item
    CatalogSystem         the two interleaved; properties, strengthenings
      PhotoReview         the abstract promise, implemented through a mapping
      CatalogProofs       theorems

Monitor                   counter, checks of every worker, alert claim, dispatch
  MonitorProofs           theorems

RateLimiter               the buckets of one process
  KillSwitch              the key, the requests behind the limit, redis-cli
    KillSwitchProofs      theorems

LlmClient                 calls with retries; contents as chat messages
  AgentTurn               the turns of one conversation, router to reply
    AgentProofs           theorems

MCPaymentSystem, MCMessageSystem, MCFollowUp, MCCatalogSystem, MCMonitor,
MCAgentTurn               instances for TLC
```

In all of them an action is what happens between two awaits, and the `pc` of a
process, request, slot or scan names the await it is at. A local variable of the
code that outlives an await (a snapshot) is a field next to it.

**ShopData.** `status`, `delivery`, `tracked` and `conf` are the columns
`status`, `deliveryStatus`, `trackingReference IS NOT NULL` and
`confirmationSentAt IS NOT NULL` of an order; `payment` is the status of the
payment row with a reference ("none" before it exists); `stock` the quantities.
A reference is random, so the set `Refs` and the order each will name are
constants.

**PaymentEvents.** Paystack's own state is `charge` (unpaid, paid, or charged
with another amount than the payment row's), `declined` and the links `shown`
to the customer. `evt` is the row in `events`, `inflight` counts deliveries that
were captured and not yet enqueued, `job` and `attempts` are the BullMQ job.
`CaptureRawEvent` / `EnqueuePaymentEvent` are the two awaits of `handleWebhook`;
`ApiFails` is a death in between. `Evict` is `removeOnComplete` / `removeOnFail`.

**PaymentService.** `pc[w]` is the next await of worker process `w`: `claim`
(the guarded `payment.updateMany`), `tx` (the deduction transaction), `cancel`
(`handleStockRace`), `confirm`, `send`, `release`, `persist`
(`sendPaidConfirmation`), `claimFailed`, `failClaim`, and `done` (mark the raw
event PROCESSED). `snap[w]` is the order as read at job start. `Abort` is a
database error at any step, `Crash` the death of the process; the stalled job
goes back to the queue (BullMQ gives up a job that stalls twice, so runs with
crashes allow one). `settled`, `confirmed` and `copies` are history: committed
deductions by payment, sends that returned, and receipts that arrived. The stock
transaction is one step: each line is a conditional update that holds its row
lock to commit, and a short line rolls back the others.

**PaymentLinks** and **DeliveryCli** are the tool's and the command's awaits;
`relinked` records that the tool overwrote a status past payment.

**Settlement** has four variables and three actions: a payment is made in full,
it is sold once from stock that is there, an order is confirmed once.

**ChatData.** `row` and `home` are an inbound message's status and conversation,
`outRow` the status of the outbound row of its first reply, `cart` the units in
`conversations.metadata.cart`, `tickets` the OPEN escalations, `sent` the replies
WhatsApp accepted (history).

**InboundWebhook.** An envelope is a sequence of changes; a change carries
messages or statuses and is stored under `deriveEventKey` (`Key`). `post[p]` is a
request that is being served: its envelope, the change and item it is at, the
conversation it found, and whether a status came before its message. `Receive` is
Meta posting an envelope that was not answered with 200 (or, with the fault
"again", one that was). Unique keys appear as in the database: the loser of
`CreateCustomer` answers 500, the loser of `InsertMessage` takes `FindMessage`.
Creating a conversation has no unique key, and none is modelled. `Enqueueable` is
BullMQ's rule for a job id, `DropJob` its eviction.

**InboundHandler.** A slot is a job in progress: five in each worker process. The
model's answers are free: in a turn it may add to the cart, order, escalate in any
sequence, and reply or stay silent. `slot[s].cart` is the copy of the cart the
tools work on, `plus` and `cleared` are what the turn did to it, so that `serial`
(history) can say what the same turns leave when they run one after the other.
`StepFails` is any call that gives up, `MarkFailed` the catch block and BullMQ's
retry, `WorkerDies` a stalled job.

**FollowUp.** `scan[s]` holds what `runScan` keeps across awaits: `todo` (the
candidates), `seen` (quiet time of each), `past` (attempt counts), `hour` and
`lag` (its `now`, and the hours since). `claim` is the `follow_ups` row of
conversation, type and attempt, created by the unique insert that precedes the
send. The shop around it does what the engine can observe: a message, a filled
cart, an order, a hand-over, a settled or failed payment.

**CatalogData.** A photo is one uploaded image with its price and quantity.
`verdict` is what `prepare` said of it, `products` the rows `publish` committed for
it (product and stock row are one transaction), `refused` its CATALOG_REVIEWED
audit row; `accepted` is history.

**CatalogUpload.** The `Map` of the service is `place`: a photo's place in the
order of insertion, 0 once deleted. `page[t]` is what a browser tab shows, `req[t]`
the request it waits for: `start` (`ensureBusiness`), `prepare` (one image at a
time), `publish` (the transaction), `finish` and `decline` (the audit row, after
which the entry is deleted and the next one is looked up in the same step). A tab
may keep its page for as long as it likes, and open a page another tab shows.
`RestartApi` empties the memory. `Overlap` says whether requests that change
something run side by side.

**CatalogImport.** `item` is the index of `importImages`' loop, `step` the await of
`importOne`, `report` the summary. `AbortImport` is the command being stopped.

**PhotoReview** has a status and a row count for each photo: new, waiting or
unusable, then published, refused or dropped.

**Monitor.** `now` is the clock of every process and of Redis, in ticks; `Tick`
drops the keys whose time is up. `failed` and `pending` hold when the FAILED
messages and PENDING events the monitor counts were created. `error[x]` is a failed
call of an LLM provider: `CallFails` is `onError`, which starts `inc` and awaits
nothing, `Incr` and `Expire` its two writes, `IncFails` a write that is refused or
never made. `count` and `expires` are the counter's keys, one a bucket. `check[c]`
is the check of a worker's timer (a second check that the same timer starts before
the first one ends is one more member of `Checks`): the time it took at its start,
the queries it still waits for, what they returned, and the channels it has yet to
tell. `claims` are the cooldown slots. A slot is named by the problems *with their
counts*, as the text that is hashed holds them. `delivered` is history, forgotten
after a cooldown; `lapses` counts injected failures. Nothing in `src/` gives an
event the status FAILED, so the second signal, which `docs/DEPLOYMENT.md` and
`docs/RUNBOOK.md` rely on, is always 0, in the code as in the model.

**RateLimiter.** A `bucket` holds the requests counted (up to the first one over the
limit, which is all the code asks) and the ticks left until `resetAt`; a bucket whose
time is over stays until its client comes back or a sweep finds it. `wait` (what the last
429 told a client, counted down) and `admitted` (requests let through, by the ticks
gone by since) are history.

**KillSwitch.** `key` is `ops:kill-switch` with the ticks left to it. `req[r].pc` is the
Redis command a request waits for: `set`, `expire`, `del`, then `get` and `ttl` of the
status every answer ends with. `calm` says that nobody else wrote the key since the
request did. `setter` is history: what the last write was meant to be (`timed`,
`forever`, or `broken` when its request ended between the two writes) and whether other
requests were between theirs. `RedisRefuses` and `ApiDies` end a request anywhere;
`Command` is the failsafe the comment in `kill-switch.ts` gives.

**LlmClient.** `call[m]` is the call a job waits for and its attempt. `RequestFails` is
`classifyError` and the test in `withRetry`: another attempt after a 429, a 5xx or no
answer, the end after any other status or the last attempt. `BuildRequest` is the
translation of the contents of a turn to chat messages: it gives each function call an
id and each result the first id that waits for its name.

**AgentTurn.** `turn[m].pc` is the await a job is at: transcription (`voice`), the
history, the router's call, the cart (`load`), the model (`think`), the tools, the
write-back of the cart (`store`), the send, the row, what follows it. Contents keep the
number of each call, which the wire does not carry; that is what `CallsAnswered`
compares. A reply is a set of words, as the guard against repetition takes it, and may
carry the marks of sentiment and principle, which are stripped after the guard. A cart is
a set of units, so that an order can be asked which units it holds. What the model
answers is free within `Batches` and `Texts`. `InboundHandler` has the turns side by
side; here a job has every await of the agent, one customer and the orders.

## 3. What is checked

Failures come from a budget (`MaxFaults`) of the kinds in `Faults`. Payments:
`api` (endpoint dies between capture and enqueue), `agent` (a tool turn dies),
`db` (a worker's database call throws), `reply` (WhatsApp's answer is lost),
`crash` (the worker dies). Messages: `api` (a request fails or dies at any step),
`again` (an acknowledged envelope is posted again), `turn` and `record` (a call
of the job gives up before or after its reply was sent), `crash`, `evict` (a
finished job is removed), `pause` (the kill switch is set). Follow-up: `send` and
`crash`. Catalog: `db` (a transaction or lookup throws), `lost` (it commits and its
answer is lost), `restart` (of the API), `abort` (of the import). Monitor: `count` (an
increment is cut short), `check` (a check rejects or its worker dies), `send` (a channel
refuses). Switch: `redis` (a command is refused), `api` (the process restarts). Agent:
`llm` (a request fails in a way worth another one), `refused` (in any other), `turn`
(a query or the send gives up), `crash`.

| Run | Instance | Shows | States |
|---|---|---|---|
| `pay_rivals` | two orders of one reference each competing for three shirts, a failed charge of one, two workers, one agent, one crash, database error or lost reply | stock conservation, and the whole implements `Settlement` | 1.4 M |
| `pay_relink` | one order with two references, one worker, agent, staff, faults `agent` or `api` | one deduction per payment, at most one receipt; shipping and fulfilled orders are backed by a settled payment; one deduction an order unless relinked; no processed full charge is unaccounted for | 1.7 M |
| `pay_live` | one order, one reference of the shop and one of another system on the same account, up to two of `api`, `agent`, `reply` | only full charges of the shop's own references settle; every charge is handled; a receipt is resumed until sent or its job is used up | 30 k |
| `msg_delivery` | two messages of a new customer and a status, two overlapping requests, one slot, faults `api`, `again` | no PROCESSED event hides a message that was not put to work; no message is answered twice | 0.9 M |
| `msg_turns` | two messages, one request, one slot, one fault of `api`, `turn`, `record`, `crash`, `evict`, `pause` | types; carts keep every edit across failed and repeated turns; a handed-over conversation has its one escalation; every posted message is worked through or uses up its attempts | 284 k |
| `follow_race` | one conversation, two scans, a failed send or a crash, a window around midnight | no attempt is sent twice; the cap holds and no attempt is skipped; silence in quiet hours; a quiet cart gets its first attempt; an unpaid order gets one while some cart exists | 321 k |
| `catalog_review` | four photos, batches of up to three, two tabs and an import, two of `db`, `restart`, `abort` | only usable and approved photos become products; the import's summary is complete and true; the whole implements `PhotoReview` | 295 k |
| `monitor_alerts` | two workers, two channels, one failed call, one message, one event, windows of a tick, cooldowns of three, one of `count`, `check`, `send` | the counter covers its window and leaves no key; a channel hears of the same problems once in a cooldown; problems found are heard | 3.1 M |
| `ops_pause` | one client, two requests, a limit and a window of two, pauses of up to two ticks, SET and DEL by redis-cli, one of `redis`, `api` | only a request cut short leaves a pause nobody asked for; answers are true; a lasting pause stays and a timed one ends; the burst over two windows is bounded, and who waits as told is let through | 78 k |
| `agent_turn` | a text and a voice note, one job at a time, two attempts, two rounds, two requests a call, two units of goods, three batches of calls, one of `llm`, `refused`, `turn`, `crash` | every tool result reaches its own call; nothing is ordered twice; a finished job left a reply; a repeated reply without marks comes with a hand-over; every turn ends | 1.1 M |

Bounds. Two references are what a second payment of one order needs, two orders
what a race for stock needs, two workers what a lost claim needs; two messages
and two requests are what a lost race in the webhook needs, two scans what a race
for a row needs, two conversations what a scan needs to fail on one before it
reaches the other. One failure is enough for every recovery path; a second one
mostly repeats it from a state that is covered, and `catalog_review` and
`pay_live` allow it. `MaxInflight` 1 still redelivers without limit, one delivery at a time
(two in flight differ only in who finds the job present). Attempts (`MaxAttempts`
of the payment queue, `MaxTries` of the message queue) are 1 or 2 for 5: a last
attempt, and one that is retried. `Convs` bounds conversation rows; a behaviour
that would need another stops there. `Available` bounds a cart. A day has 3 or 4
hours for 24, with a window that wraps: hours before, in and after it, on both
sides of midnight, are all there. Three images are a batch with one between two others, and the fourth photo is
what a second batch, of the form or of the command, needs beside it; a second tab
is what a stale page needs. `MaxLag` bounds the hours that pass under one
scan, `MaxDeeds` what customers do; in `follow_race` `MaxLag` is 0, so that a scan is over before the hour is,
and both delays are an hour: the second nudge is due as soon as a scan that raced the
first could send it. In `Monitor`, `MaxLag` is the ticks a check may
take (shorter than the cooldown, which is a minute at least, while a send to Slack
gives up after ten seconds), `MaxRows` the rows that count at a time, `Queries` which
signals a check reads in one step: the counter apart from the rows, which is where
they meet other processes; three windows of ticks (`MaxNow`) show a key
cross a bucket's end, roll out of the window and expire, and a slot be free again; a
bucket of several ticks is the theorem's (`CounterIsCovering` holds for every `Window`).
Every threshold is 1. In `KillSwitch` a window of two ticks has a request before, in and after
a boundary, a `MaxBuckets` of 0 sweeps at every request, and two requests are what it takes to
come between two writes. In `AgentTurn` one job runs at a time (overlapping turns are
`InboundHandler`'s, and the properties exclude them); two rounds have a last one and one
before it, two attempts a last one and one that is retried, and among the batches are two
calls of one name and an order beside an escalation. The one reply has three words and
four of marks, which hides its likeness; from twelve words on they would not, and the
guard would work. Runs of `FollowUp` and `MessageSystem` may
end (budgets used up, everything answered), as may those of the payment side and
of the catalog (no photo left), so
deadlock is not checked.

Where a property holds only under a condition, the run states it: `AnsweredOnce`
is checked without failures after the send and while finished jobs keep their id;
`CartIsSerial` and `OneOpenEscalation` with one job at a time, `OrderedOnce` and `NoLoop` with one turn at a time, `OrderedOnce` but for
what attempts ordered that then broke off, `NoLoop` but for replies with marks, `NeverSilent`
but for replies that are nothing else, `AnswerIsTrue` and `LastingPauseStays` but for other
requests between their writes, `NoStrayPause` but for requests that broke off there,
`ProblemHeard` and `KeysExpire` while nothing failed, `SilentInQuietHours` for scans that end in the hour they started in, `NoMoneyLost`
without crashes of the worker, `ImplementsReview` with posts
to the form one at a time and no commit whose answer is lost. Section 3.2 shows what happens otherwise.

### 3.1 Fairness

*Payments* (`pay_live`): Paystack posts an event until it is acknowledged and the
endpoint enqueues what it captured (weak fairness); BullMQ hands out waiting jobs
in order, so a waiting job is taken infinitely often unless it stops waiting
(strong fairness); a running handler goes on (weak fairness). No fairness for
customers, agents, staff, or eviction.

*Messages* (`msg_turns`): Meta posts an envelope until it is answered with 200,
and finds a free request now and then (strong fairness of `Receive` while not
acknowledged); a request and a running job go on, and a turn ends because tool
rounds are capped (weak); waiting jobs are handed out in order (strong). None for
the customer, the model's choices, the kill switch or eviction.

*Follow-up* (`follow_race`): time passes (strong: a scan at its `MaxLag` holds the
model's clock only until it goes on); a scan that runs goes on (weak); the cron
starts a scan at every hour of the day infinitely often (strong, per hour: it
fires every 15 minutes, `queue/src/index.ts`). Without fairness per hour the cron
could fall in the quiet window every day, which it does not. And again and again no scan
is running: scans take seconds and start minutes apart, so two of them may overlap but
not for ever, which would hold the model's clock.

*Kill switch* (`ops_pause`): time passes, and a request that is being served goes on
(weak). None for operators.

*Agent* (`agent_turn`): a worker takes what waits, a turn goes on, and a request to the
model is answered or fails (weak, for the three together: what the model answers and
whether it fails stays open). Attempts, requests and rounds are capped, and nothing else
makes a turn end.

### 3.2 Where the code and its documentation disagree

The runs `money_lost_by_crash` and `agent_repeats` each check one claim of the repository
that TLC refutes. The other rows are counterexamples to look at, not listed runs: either a
configuration that is kept here, or a listed one with the constants and the property changed
as the row says (and `SPECIFICATION Spec` for an invariant).

| Run or configuration | Claim | What happens |
|---|---|---|
| `money_lost_by_crash` | `docs/RUNBOOK.md:95-96` a restart is safe, it will just reprocess | the payment is claimed before the deduction; a crash in between makes the retry a duplicate, and the paid order is never settled |
| `agent_repeats` | `agent.ts:227-229` a near-duplicate of a recent reply escalates instead of repeating | the guard compares the reply with its marks against stored replies without them; two identical replies of fewer than a dozen words are sent, and nobody is called |
| `MsgTurns.cfg` with `Slots = {s1, s2}`, `Faults = {}`, `OneOpenEscalation` | `schema.prisma:295-296` escalations are idempotent per conversation | two turns look for an OPEN escalation before either creates one |
| `FollowRace.cfg` with `Scans = {s1}`, `Faults = {}`, `PaymentNudged` | `engine.ts:56-58` runs for each OPEN conversation with a stuck payment | without a cart anywhere the scan returns before its payment pass |
| `RelinkDeductsTwice.cfg` | `payment/src/service.ts:146-147` never re-deduct an order that moved past payment | a link turn reads the order, it is paid and settled by another link, the turn writes PAYMENT_PENDING, and its own payment deducts again |
| `PayRelink.cfg` with `Workers = {w1, w2}` | `queue/src/index.ts:111-113` concurrency 1 serializes deductions per order | concurrency is per process; two processes read the order before either settles it |
| `ReceiptLostByCrash.cfg` | `schema.prisma:180-181` the flag is set only after the message is sent | it is set before; a crash in between loses the receipt |
| `TwoReceipts.cfg` | `docs/payments.md:64-65` never two "paid" messages | the client retries a send whose answer was lost |
| `PayRelink.cfg` with `Staff = {s1, s2}`, `DeliveryForward` | `delivery.ts:14` one-way transitions | two commands write from the same read |
| `SecondWorkItem.cfg` | `queue/src/index.ts:41-43` a webhook delivered twice never creates two work items | the first job finished and was evicted before the second delivery |
| `MsgTurns.cfg` with `Slots = {s1, s2}`, `Faults = {}`, `CartIsSerial` | `agent.ts:138` the cart survives across messages | two turns read the same metadata and the later write drops the other's goods |
| `StatusDropped.cfg` | `docs/foundation.md:13-15` the raw event is stored first, nothing is lost | all statuses of a reply share one event key; once one is PROCESSED the rest are not stored |
| `StatusNeverApplied.cfg` | `webhook.service.ts:190-193` the raw event is left PENDING so a re-delivery can apply it | the request is answered with 200 all the same, so Meta has nothing to deliver again |
| `FollowRace.cfg` with `Scans = {s1}`, `MaxLag = 1`, `Faults = {}`, `SilentInQuietHours` | `timing.ts:60-63` the business never texts late at night | the scan's clock is read once, and sends go out over its whole length |
| `PaidNudged.cfg` | `engine.ts:138-140` nudges orders stuck on PAYMENT_PENDING | the customer pays between the read and the send |
| `FailedChargeForgotten.cfg` | `docs/payments.md:115-116` after a failed charge the follow-up engine keeps nudging | the candidate query asks for a PENDING payment |
| `CatalogReview.cfg` with `Overlap = TRUE`, `Faults = {}`, `PublishedOnce` | `docs/catalog.md:61` one row per approved image | two tabs submit the same review; both find it in the queue before the first one's publication is awaited to its end |
| `CatalogReview.cfg` with `Faults = {"lost"}`, `PublishedOnce` | `docs/catalog.md:61`, and the page's "Review submission failed. Please try again" (`catalog-upload.controller.ts:191`) | the transaction committed, its answer was lost, and trying again publishes a second row |
| `BatchStranded.cfg` | `catalog-upload.spec.ts:163` a batch is stepped through in upload order, a rejection in its middle included | the test calls the service; the pages do not get there, because the rejection's page is the upload form and links to nothing, and the next upload clears the rest |
| `CatalogReview.cfg` with `Overlap = TRUE`, `QueueFollowsUpload` | `catalog-upload.service.ts:214` a fresh review queue for a new upload | two uploads side by side: the first goes on filling the queue the second has cleared |
| `OutageAlertsAgain.cfg` | `monitor/src/service.ts:17-18` a persistent outage alerts once instead of spamming every check; `.env.example:102-103` once per cooldown per distinct problem | the slot is named by the problem's text, which holds the count: an outage whose count changes alerts at every check |
| `MonitorAlerts.cfg` with `AlwaysHeard` | `main.ts:73-74` a persistent problem alerts once per cooldown | the slot is taken before the send; when the send fails, or the worker dies, nobody hears of the problem until the cooldown ends |
| `MonitorAlerts.cfg` with `EveryKeyExpires` | `counter.ts:7-8` keys expire, so Redis never accumulates keys | a worker dies between INCR and EXPIRE of a bucket's only error; the key has no expiry, and nothing gives it one later |

Three more are plain in the code and leave no room for a check: `tools.ts:275-277` says
unexpected errors propagate for BullMQ's retry, and the `catch` around it returns every
error to the model; `agent.ts:299` says contents must end on a user turn, and nothing
sees to it (a reply that a slower job stored last comes last); `docs` and code offer other
providers for voice notes, whose transcription route answers text that
`transcription.ts:66` parses as JSON, so that each such note is unclear.

## 4. What is proved

### Payments

`PaymentSystemProofs` proves for every set of orders, references, products,
workers, agents and staff and every failure budget, from the assumptions named
in the modules (the types of the constants, and that the null values are not
members of the sets they extend):

* `TypeCorrect`: every variable keeps its type. The part that is not routine is
  `stock \in [Products -> Nat]`: the transaction's guard keeps it non-negative.
* `Strengthened`: the inductive invariant `IInv`, in three parts.
  `SettleInv`: a job exists only for an event that occurred; a worker about to
  settle holds a reference that was charged in full, is SUCCESS, has not been
  settled, and is held by no other worker. The last three hold each other up: the
  guarded update admits one claimer per payment, and without the uniqueness a
  second settling worker could not be excluded. `BackedInv`: what staff, workers
  and receipts rest on was settled by some payment, which nothing takes back, so
  a stale delivery write cannot fulfil an unpaid order. `ReceiptInv`: the holder
  of the confirmation claim is alone and nothing was sent before.
* From it: `SettledOnce`, `OnlyFullCharges`, `PaidBacked`, `ReceiptOnce`, and the
  action property `SuccessFinal`.
* `Conserved` (`StockConserved`): a step either leaves stock and deductions alone or
  takes one order's items for one reference, and the sum moves with it (`TotalUpdate` of
  `Sums`).
* `OnceUnlessRelinked` (`DeductedOnceUnlessRelinked`), with one worker process
  (`OneWorker`; section 3.2 shows two that violate it). `OnceInv`: an order that was
  deducted and not reopened is past payment, and the snapshot of a worker about to settle
  says so, which holds only as long as no other worker moves the order in between. From
  one deducting reference at most the total is at most one (`TotalOne`).
* `MoneyKept` (`NoMoneyLost`), without crashes and database errors (`NoBreaks`;
  `MoneyLostByCrash.cfg` shows that the condition is needed). `MoneyInv` follows a claimed
  payment to the end of its job: a payment that is SUCCESS and whose order is not accounted
  for is in the hands of a worker about to settle or cancel. "Accounted for" includes
  an order that `create_payment_link` reopened: with tight stock the cancelled order can
  be made PAYMENT_PENDING again by a link turn that read it before, a history the
  proof attempt led to.
* `Refinement`: `Spec => Promise!Spec`. A charge in full maps to `PayInFull`, the
  deduction to `Sell`, the sent receipt to `Confirm`, all else to a stutter.

The theory of sums is in `Sums`. The library's induction theorems cannot be instantiated
here, so it is built by minimal counterexample: a family of subsets of a finite set has a
smallest member (`SmallestSubset`, from the well-foundedness of strict inclusion), and if
a fact about totals failed, it would fail first at a set whose smaller subsets obey it.

The step lemmas do not go through the fifteen worker actions once per conjunct.
`WorkerMove`, `PaymentMove` and `OrderMove` say what a worker's step may do to
control, payments and orders; each is proved once for every action, and the
invariants are proved from them.

### Messages

`MessageProofs` proves for every set of customers, messages, envelopes, requests and
slots and every failure budget, where no condition is named with all kinds of failure:

* `MessageTypeCorrect`. The index a request works at is within its change and its
  envelope (`Well`), it is past the capture only of an event that is stored (`Stored`),
  and what a slot added is part of its cart (`SoundSlot`).
* `ProcessedMeansQueued`, for changes that carry the same messages whenever they share
  an event key (`SameKeySameMessages`): Meta puts a message in one change, while the
  statuses of one reply do share a key and carry no message. The invariant it rests on,
  `ItemInv`, says that a request has stored and put to work every message it has
  passed, that a job was counted as a work item, and that a work item has a row; rows and
  counts are never taken back, so what a request passed stays so while others go on.
* `HandedOverQueued`, from `TicketInv`: a slot that is to hand over, or past the record
  of an escalation, has an open one, whatever the other slots do.
* `AnsweredOnceEach`, when calls fail only before the send, no worker dies and finished
  jobs keep their id (`FailsBeforeSend`; section 3 lists why each is needed). `SendInv`
  says that a job that waits was not answered, that one in work is in one slot, and that a
  slot before its send, or one that gave up, has not sent.
* `OneTicketAlone` and `CartSerialAlone`, with one slot (`OneSlot`; two slots violate
  both, section 3.2). `AloneInv` says that the slot's copy of the cart is the stored cart
  with its edits, and that a slot about to create an escalation has seen there is none.
* `ChangesStored` (`EveryChangeStored`), when no two changes share an event key
  (`OneChangePerKey`; `StatusDropped.cfg` shows two that do). `AckInv`: a
  request has stored every change before its own, and an event lies under its own key.
* `OneConversationAlone` (`OneOpenConversation`), with one request at a time
  (`OneRequest`): `OpenInv` says that a request about to create a conversation has found
  none, which a second request would make stale.

The last two name properties of `MessageSystem` that no listed run checks; the
instances of `msg_turns` satisfy both conditions and the properties.

### Follow-up

`FollowUpProofs` proves for every set of conversations and scans, every
configuration of delays, cap, quiet hours and day, and every failure budget:

* `FollowUpTypeCorrect`, with an attempt never beyond `MaxAttempts + 1`.
* `CapRespected`: attempts stay under the cap and none is skipped. A scan decides
  from a count that other scans make stale, so the cap alone is not inductive.
  `HoldInv` says a scan works on the attempt after those it counted; `CountInv`
  that the attempts it counted are the first ones and are still there, because a
  row is never deleted. The two need `CapHolds` itself: only a set of attempts
  without gaps is named by its size (`CountedPrefix`, a fact about cardinalities).
* `NudgedAtMostOnce`: `SendInv` says that the attempt a scan is about to send is
  claimed, was not sent, and is not another scan's. A scan gets there only by the
  insert of a row nobody had, which is what keeps two of them apart.
* `NudgesFollowWaking`: a nudge goes out at most `MaxLag` hours after an hour that is not
  quiet. `ClockInv` relates the clock a scan took when it started, the hours it has run
  and the hour it is, round the clock any number of times; `WakingInv` says that a scan
  about to write took an hour for which `IsQuietHour` is false. `QuietHoursAre` proves
  that the comparisons of `timing.ts`, wraparound included, are the walk round the clock
  from the window's start to its end.
* `SilentAtNight` (`SilentInQuietHours`) is the case of scans that end in the hour they
  started in (`MaxLag = 0`). With an hour of lag it is false (section 3.2).

### Catalog

`CatalogProofs` proves for every set of photos and tabs, every batch size and every
failure budget:

* `CatalogTypeCorrect`: no request and no import runs past its images.
* `NothingUnreviewed`: only usable and approved photos become products, with posts
  side by side and lost answers included. The inductive invariant has two parts.
  `UnjudgedInv`: the photos nobody uploaded, those each request has yet to judge and
  those the import has yet to judge are apart, and none of them has a verdict; so a
  verdict is given once and nothing already approved is judged again. `ReviewInv`:
  whoever is about to publish a photo holds one that is usable and approved.
* `ReviewRefinement`: with posts one at a time and no lost answers, form and command
  implement `PhotoReview`; `NothingPublishedTwice` follows from the same invariant.
  It adds `SerialInv`: a photo in the queue is undecided, except the one whose
  request is being finished; a request about to publish or decline holds one that is
  in the queue; the import's item is undecided and never in the queue. A photo's
  status is a function of its rows and of who holds it, so every step of the code
  is one of three: it drops photos that waited (`DropOnly`), decides the one it
  holds (`Decides`), or judges one (`Judges`). Both assumptions are needed: two rows of
  section 3.2 violate the conclusion without them.
* `SummaryTrue` (`SummaryIsTrue`), unless the answer of a commit is lost; posts may
  overlap. `SummaryInv`: the form (its queue and its requests) and the command (its batch
  and what it reported) never hold the same photo, so no tab publishes what a report is
  about; an item is reported exactly when the import is past it. A commit whose answer
  is lost is reported as failed and is a product all the same.

### Monitor

`MonitorProofs` proves for every set of rows, failed calls, workers and channels,
every configuration and every failure budget, from `MonitorAssumption`:

* `MonitorTypeCorrect`: what a check counts are numbers (cardinalities of finite sets,
  buckets that exist), and no key outlives its time. It needs `LagInv`: a running check
  began at most `MaxLag` ticks ago, so the bucket it reads is one of the buckets.
* `AlertsSpaced`. Two alerts of the same problems are two claims of the same slot, but
  the slot counts from the claim and the alert from its delivery, so the slot may run
  out while its alert is young. `SlotInv` says that who sends holds a slot that
  outlives its check, and that no two tell the same problems; `ToldInv` that an alert is
  protected by its slot or old enough, and that what a check is about to tell a channel
  was not told there lately. Neither is inductive without the other and `LagInv`; the
  bound `Cooldown - MaxLag` is what a claim early in a check costs.
* `ProblemsHeard`: without failures, a check that ends either lost the slot to one that
  told or is telling the same problems (`HeardInv`: for every slot and channel there is
  a delivery that is young as long as the slot lives, or a check that is yet to tell),
  or was the last to tell them itself.
* `CounterIsCovering` (`CounterCovers`). `CounterInv`: a bucket's count is the number of
  errors counted in it (`Held`) until its time is over, and at most that afterwards; its
  expiry is never before the end of the window after it. A check reads two neighbouring
  buckets, whose errors are disjoint, and what is young enough to matter is in one of them
  (lemmas on the division by the window and on cardinalities).
* `NoKeyStays`: a key with a count has an expiry, or a failed call is about to set one.

### Kill switch and limit

`KillSwitchProofs` proves for every set of clients and requests, every limit, window and
size of the map, and every failure budget:

* `SwitchTypeCorrect`, with no bucket beyond its window.
* `RetryAfterHonest`: `WaitInv` ties a client's wait to its bucket, which no sweep takes
  before the wait is over: a client told to wait has a bucket that runs out no later than
  its wait does.
* `BurstsBounded` (`BurstBound`): `WindowInv` ties what a client was let through at each
  age to its bucket: since the window opened it got what the bucket counts, up to the
  limit, and before that at most the limit less one, because the request that opened
  the last window is out of the span. A tick shifts the ages (`TotalShift` of `Sums`).
* `NoStray`, `AnswersTrue`, `LastingStays` from one invariant, `SwitchInv`. `BodyInv` says
  which command goes with which body, and that a request is undisturbed (`calm`) only
  after it wrote. `StandsInv`: an undisturbed request about to EXPIRE finds the key
  without an end, so the end it gives is the one that was asked for; without it
  `AnswerIsTrue` is not inductive. `AloneInv`: a lasting pause made while no request was
  between its two writes meets none at EXPIRE for as long as it is the last write, since
  a request gets there only by a SET, which becomes the last write itself.

### Agent

`AgentProofs` proves for every set of messages, every cap, batch of calls and text, and
every failure budget:

* `AgentTypeCorrect`: rounds and attempts stay under their caps and no cart exceeds the
  stock (cardinalities).
* `NothingOrderedTwice`, from `OrderInv`. `AloneInv`: without overlap at most one turn is
  under way. `GoneInv`: a unit that some order holds is in no turn's cart, and in the
  stored cart only while the turn that ordered it has yet to write its cart back; units of
  attempts that broke off after ordering (`torn`) are excepted. `OnceInv`: no unit is in
  two orders. Adding takes a unit nobody holds; ordering empties the cart and marks it
  dirty, without which the write-back, and with it the conclusion, is lost.
* `EveryoneAnswered` (`NeverSilent`) and `LoopsHandOver` (`NoLoop`), from `TalkInv`.
  `Replied` counts the jobs that are done and had something to say beside the turns that
  have stored their reply, and is never more than the replies in the conversation.
  `Fresh`: while turns follow each other, the history a turn has loaded has the same
  replies at the same places as the conversation. `Told`: a text that was not handed over
  is like none of the four last replies, from when the guard judged it until it is stored;
  a text changes in between only by losing its marks, which is why marked ones are
  excepted (`AgentRepeats.cfg`). `NoLoop` is an invariant of growing histories: a new
  row is last, and `RepeatAt` of an old one looks only at rows before it.
* `CallsGetTheirResults` (`CallsAnswered`). `Wire` is a recursive function of the contents;
  that it is well defined, that contents which agree so far are the same wire so far, and
  so that adding a part adds its message (`WireAppends`), is proved by least
  counterexample (`LeastNat` of `Sums`). `AskInv` says of a turn in its rounds that the calls
  waiting on the wire are those it has yet to run, in the same order (`Waits`), so a result
  finds its own call first although it looks for a name only; and `Paired`, that
  of n calls exactly the first a have their result, after the call. That an answer with
  function calls holds at least one (`AgentTurnAssumption`) is the code's own test
  (`agent.ts:177`).
* `BestRouteWins`: the router's loop picks a highest score and prefers a complaint to a
  delivery and a delivery to a sale.

### Only model-checked

Every invariant that a run checks is also proved. What stays with TLC: unlisted,
`QueueFollowsUpload` (an order of two sequences); `DeliveryForward` with more than one
actor (it is false then, section 3.2); all liveness properties: leads-to under fairness and ENABLED are out of the
prover's reach.

## 5. What is not modelled

* The business row is taken as there; one business is modelled. Signature checks,
  payload parsing, HTTP and the wording of every message are left out.
* In `MessageSystem` a voice note counts as text and an order only empties the cart; what
  is heard of a note, who answers, and what an order holds are in `AgentTurn`, which
  runs one conversation. What the model says is a free choice in both. The payments of
  an order are in `PaymentSystem`; in `FollowUp` an order is one of four states.
* Tools that only read (`search_products`, `get_product`, `get_stock`, `get_order_status`) and
  `update_order_address`, which writes a column no modelled decision reads; the
  attribution of an order to a follow-up; vision calls, whose verdict is
  `CatalogData`'s; which provider an environment configures.
* `applyDeliveryStatus` finds and updates in one step, the touch of a
  conversation's `lastMessageAt` (which no decision of the modelled code depends
  on) is left out, and so are audit rows and the follow-up's outbound rows.
* Delivery of a WhatsApp nudge whose answer is lost is not a separate fault of
  `FollowUp`: the client's retry is modelled for receipts.
* Catalog: what a listing says and how an edit changes it, the login, and the
  audit rows of a publication or a rejected image (`record` never throws). An edit
  counts as an approval; `cleanupExpiredReviews` has no caller. Stock written on
  publication belongs to a new product, so it never meets the payment side's
  deductions.
* The SMTP dialogue: an alert's e-mail is delivered or fails. A count of the monitor is
  one query; its four queries are read in the order of the model's choice.
* `KillSwitch` ends where the handler reads the key; a handler that finds it set is
  `InboundHandler`'s. Where a client's key comes from (`rate-limit.guard.ts`) and other
  API processes, each with buckets of its own, are left out.
* Analytics, health, configuration, prompts, the SMTP dialogue and the Paystack and
  WhatsApp clients: reads, text and I/O. Their outcomes are actions of the modules that
  call them.

## 6. Plan

1. Payments of an order composed into `FollowUp`, so that the link a nudge shares is one
   that can be paid.
2. An abstract inbox (received, worked on, answered) implemented by `MessageSystem`.
3. Proofs: the inbox refinement; the order behind `QueueFollowsUpload`.
