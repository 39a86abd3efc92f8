------------------------------- MODULE FollowUp -------------------------------
(***************************************************************************)
(* The follow-up engine: FollowUpService.runScan, one action for each of   *)
(* its awaits, run by one scan job per worker process.                     *)
(*                                                                         *)
(* A scan nudges OPEN conversations with a cart that went quiet, then      *)
(* those whose order waits for payment.  It reads the candidates, their    *)
(* last inbound message and their past attempts once, and claims a         *)
(* follow_ups row per attempt before it sends.                             *)
(*                                                                         *)
(* Time passes in hours.  The clock is the local hour of the business; a   *)
(* conversation has an age, the hours since its last inbound message,      *)
(* which stops growing where no delay tells more apart.                    *)
(***************************************************************************)
EXTENDS Naturals, FiniteSets

CONSTANTS
  Chats,          \* conversations, each with its customer
  Scans,          \* scan workers (concurrency 1 in each process)
  FirstDelay, SecondDelay, MaxAttempts, QuietStart, QuietEnd,  \* FollowUpConfig
  Day,            \* hours of a day (24)
  MaxLag,         \* bound: hours that pass while a scan runs
  MaxDeeds,       \* bound: things customers and agents do in one behaviour
  Faults,         \* kinds of failure the environment may inject
  MaxFaults,      \* bound: failures injected in one behaviour
  NoChat          \* a scan between conversations

Types == {"CART", "PAYMENT"}
Attempts == 1..(MaxAttempts + 1)
MaxAge == SecondDelay + FirstDelay + MaxLag

ASSUME FollowUpAssumption ==
  /\ {FirstDelay, SecondDelay, MaxAttempts, MaxLag, MaxDeeds, MaxFaults} \subseteq Nat
  /\ Day \in Nat \ {0}
  /\ {QuietStart, QuietEnd} \subseteq 0..(Day - 1)
  /\ Faults \subseteq {"send", "crash"}
  /\ NoChat \notin Chats

VARIABLES
  hour,           \* local hour of the business
  age,            \* hours since the customer's last inbound message
  open,           \* the conversation is OPEN
  cart,           \* its cart is not empty
  order,          \* the customer's PAYMENT_PENDING order: with a PENDING
                  \* payment, with FAILED ones only, paid, or none
  claim,          \* follow_ups.status by conversation, type and attempt
  sends,          \* history: nudges WhatsApp accepted, likewise
  scan,           \* the running scans
  deeds, lapses   \* spent budgets

shopVars == <<hour, age, open, cart, order, deeds>>
vars == <<shopVars, claim, sends, scan, lapses>>

IdleScan ==
  [pc |-> "idle", type |-> "CART", chat |-> NoChat, todo |-> {}, lag |-> 0, hour |-> 0,
   seen |-> [c \in Chats |-> 0], past |-> [c \in Chats |-> 0], attempt |-> 1]

ScanSteps == {"idle", "candidates", "ages", "counts", "next", "claim", "send", "record", "fail"}

TypeOK ==
  /\ hour \in 0..(Day - 1)
  /\ age \in [Chats -> 0..MaxAge]
  /\ open \in [Chats -> BOOLEAN]
  /\ cart \in [Chats -> BOOLEAN]
  /\ order \in [Chats -> {"none", "pending", "failed", "paid"}]
  /\ claim \in [Chats -> [Types -> [Attempts -> {"none", "SENDING", "SENT", "FAILED"}]]]
  /\ sends \in [Chats -> [Types -> [Attempts -> Nat]]]
  /\ scan \in [Scans -> [pc : ScanSteps, type : Types, chat : Chats \cup {NoChat},
                         todo : SUBSET Chats, lag : 0..MaxLag, hour : 0..(Day - 1),
                         seen : [Chats -> Nat], past : [Chats -> Nat], attempt : Attempts]]
  /\ deeds \in 0..MaxDeeds
  /\ lapses \in 0..MaxFaults

Init ==
  /\ hour \in 0..(Day - 1)
  /\ age = [c \in Chats |-> 0]
  /\ open = [c \in Chats |-> TRUE]
  /\ cart = [c \in Chats |-> FALSE]
  /\ order = [c \in Chats |-> "none"]
  /\ claim = [c \in Chats |-> [t \in Types |-> [n \in Attempts |-> "none"]]]
  /\ sends = [c \in Chats |-> [t \in Types |-> [n \in Attempts |-> 0]]]
  /\ scan = [s \in Scans |-> IdleScan]
  /\ deeds = 0
  /\ lapses = 0

Lapse(k) == k \in Faults /\ lapses < MaxFaults /\ lapses' = lapses + 1

-----------------------------------------------------------------------------
(* The rest of the shop, as far as the engine reads it.                    *)

Deed ==
  /\ deeds < MaxDeeds
  /\ deeds' = deeds + 1
  /\ UNCHANGED <<hour, claim, sends, scan, lapses>>

(* An inbound message, and what the agent does in its turn: nothing, put   *)
(* goods in the cart, order and share a link, or hand over to a human.     *)
(* (After that the customer's messages open another conversation.)         *)
Writes(c) ==
  /\ Deed
  /\ open[c]
  /\ age' = [age EXCEPT ![c] = 0]
  /\ \/ UNCHANGED <<open, cart, order>>
     \/ cart' = [cart EXCEPT ![c] = TRUE] /\ UNCHANGED <<open, order>>
     \/ /\ cart[c]
        /\ cart' = [cart EXCEPT ![c] = FALSE]
        /\ order' = [order EXCEPT ![c] = "pending"]
        /\ UNCHANGED open
     \/ open' = [open EXCEPT ![c] = FALSE] /\ UNCHANGED <<cart, order>>

(* The payment worker settles the order, or marks its payment FAILED.      *)
PaymentEvent(c) ==
  /\ Deed
  /\ order[c] = "pending"
  /\ \E o \in {"paid", "failed"} : order' = [order EXCEPT ![c] = o]
  /\ UNCHANGED <<age, open, cart>>

Tick ==
  /\ \A s \in Scans : scan[s].pc = "idle" \/ scan[s].lag < MaxLag
  /\ hour' = (hour + 1) % Day
  /\ age' = [c \in Chats |-> IF age[c] < MaxAge THEN age[c] + 1 ELSE MaxAge]
  /\ scan' = [s \in Scans |->
                IF scan[s].pc = "idle" THEN scan[s] ELSE [scan[s] EXCEPT !.lag = @ + 1]]
  /\ UNCHANGED <<open, cart, order, claim, sends, deeds, lapses>>

-----------------------------------------------------------------------------
(* timing.ts.                                                              *)

(* Equal hours disable the window; it may wrap around midnight.            *)
IsQuietHour_Swapped(h) ==   \* mutant: start and end swapped
  IF QuietEnd < QuietStart THEN h >= QuietEnd \/ h < QuietStart ELSE FALSE
IsQuietHour_NoWrap(h) == h >= QuietStart /\ h < QuietEnd   \* mutant: no wraparound
IsQuietHour(h) ==
  CASE QuietStart = QuietEnd -> FALSE
    [] QuietStart < QuietEnd -> h >= QuietStart /\ h < QuietEnd
    [] QuietStart > QuietEnd -> h >= QuietStart \/ h < QuietEnd

Capped_Late(n) == n > MaxAttempts   \* mutant: one attempt too many
Capped(n) == n >= MaxAttempts

Delay(n) == IF n = 1 THEN FirstDelay ELSE SecondDelay

(* decideFollowUp says due.                                                *)
Due(past, quietFor) == ~Capped(past) /\ quietFor >= Delay(past + 1)

-----------------------------------------------------------------------------
(* A scan takes its `now` when it starts.                                  *)
StartScan(s) ==
  /\ scan[s].pc = "idle"
  /\ scan' = [scan EXCEPT ![s] = [IdleScan EXCEPT !.pc = "candidates", !.hour = hour]]
  /\ UNCHANGED <<shopVars, claim, sends, lapses>>

Candidates(t) ==
  {c \in Chats : open[c] /\ (IF t = "CART" THEN cart[c] ELSE order[c] = "pending")}

(* Without a candidate the scan is over, payment pass included.            *)
FindCandidates(s) ==
  LET found == Candidates(scan[s].type) IN
  /\ scan[s].pc = "candidates"
  /\ scan' = [scan EXCEPT ![s] = IF found = {} THEN IdleScan
                                 ELSE [@ EXCEPT !.pc = "ages", !.todo = found]]
  /\ UNCHANGED <<shopVars, claim, sends, lapses>>

(* Time between the last inbound message and `now`; a message that came    *)
(* after `now` counts as no quiet time at all.                             *)
ReadLastInbound(s) ==
  /\ scan[s].pc = "ages"
  /\ scan' = [scan EXCEPT ![s].pc = "counts",
       ![s].seen = [c \in Chats |-> IF age[c] > scan[s].lag THEN age[c] - scan[s].lag ELSE 0]]
  /\ UNCHANGED <<shopVars, claim, sends, lapses>>

(* Attempts are counted in any status, so a failed one uses up its slot.   *)
Counted(k) == k # "none"

ReadAttempts(s) ==
  /\ scan[s].pc = "counts"
  /\ scan' = [scan EXCEPT ![s].pc = "next",
       ![s].past = [c \in Chats |->
          Cardinality({n \in Attempts : Counted(claim[c][scan[s].type][n])})]]
  /\ UNCHANGED <<shopVars, claim, sends, lapses>>

(* The next candidate is skipped, or its next attempt is to be claimed.    *)
Consider(s, c) ==
  /\ scan[s].pc = "next"
  /\ c \in scan[s].todo
  /\ LET q == [scan[s] EXCEPT !.todo = @ \ {c}] IN
     scan' = [scan EXCEPT ![s] =
       IF Due(q.past[c], q.seen[c]) /\ ~IsQuietHour(q.hour)
       THEN [q EXCEPT !.pc = "claim", !.chat = c, !.attempt = q.past[c] + 1] ELSE q]
  /\ UNCHANGED <<shopVars, claim, sends, lapses>>

(* After the carts come the payments, after the payments the scan is over. *)
AfterPass_Ends(q) == IdleScan   \* mutant: no payment pass
AfterPass(q) ==
  IF q.type = "PAYMENT" THEN IdleScan
  ELSE [q EXCEPT !.pc = "candidates", !.type = "PAYMENT"]

EndPass(s) ==
  /\ scan[s].pc = "next"
  /\ scan[s].todo = {}
  /\ scan' = [scan EXCEPT ![s] = AfterPass(@)]
  /\ UNCHANGED <<shopVars, claim, sends, lapses>>

(* [conversationId, type, attempt] is unique.                              *)
Claimable_Always(k) == TRUE   \* mutant: no unique key
Claimable(k) == k = "none"

ClaimAttempt(s) ==
  LET q == scan[s] IN
  /\ q.pc = "claim"
  /\ IF Claimable(claim[q.chat][q.type][q.attempt])
       THEN /\ claim' = [claim EXCEPT ![q.chat][q.type][q.attempt] = "SENDING"]
            /\ scan' = [scan EXCEPT ![s].pc = "send"]
       ELSE /\ scan' = [scan EXCEPT ![s].pc = "next", ![s].chat = NoChat]
            /\ UNCHANGED claim
  /\ UNCHANGED <<shopVars, sends, lapses>>

SendNudge(s) ==
  LET q == scan[s] IN
  /\ q.pc = "send"
  /\ sends' = [sends EXCEPT ![q.chat][q.type][q.attempt] = @ + 1]
  /\ scan' = [scan EXCEPT ![s].pc = "record"]
  /\ UNCHANGED <<shopVars, claim, lapses>>

RecordNudge(s) ==
  LET q == scan[s] IN
  /\ q.pc = "record"
  /\ claim' = [claim EXCEPT ![q.chat][q.type][q.attempt] = "SENT"]
  /\ scan' = [scan EXCEPT ![s].pc = "next", ![s].chat = NoChat]
  /\ UNCHANGED <<shopVars, sends, lapses>>

(* A failed send fails the scan; BullMQ starts it again, as does the cron. *)
SendFails(s) ==
  /\ scan[s].pc = "send"
  /\ Lapse("send")
  /\ scan' = [scan EXCEPT ![s].pc = "fail"]
  /\ UNCHANGED <<shopVars, claim, sends>>

MarkFailed(s) ==
  LET q == scan[s] IN
  /\ q.pc = "fail"
  /\ claim' = [claim EXCEPT ![q.chat][q.type][q.attempt] = "FAILED"]
  /\ scan' = [scan EXCEPT ![s] = IdleScan]
  /\ UNCHANGED <<shopVars, sends, lapses>>

WorkerDies(s) ==
  /\ scan[s].pc # "idle"
  /\ Lapse("crash")
  /\ scan' = [scan EXCEPT ![s] = IdleScan]
  /\ UNCHANGED <<shopVars, claim, sends>>

Proceed(s) ==
  \/ FindCandidates(s) \/ ReadLastInbound(s) \/ ReadAttempts(s)
  \/ (\E c \in Chats : Consider(s, c)) \/ EndPass(s)
  \/ ClaimAttempt(s) \/ SendNudge(s) \/ RecordNudge(s) \/ MarkFailed(s)

Next ==
  \/ \E c \in Chats : Writes(c) \/ PaymentEvent(c)
  \/ Tick
  \/ \E s \in Scans : StartScan(s) \/ Proceed(s) \/ SendFails(s) \/ WorkerDies(s)

Spec == Init /\ [][Next]_vars

(* Time passes whatever scans do, the cron starts a scan now and then at   *)
(* every hour of the day, and a scan that runs goes on.                    *)
Fairness ==
  /\ SF_vars(Tick)
  /\ \A s \in Scans : WF_vars(Proceed(s))
  /\ \A h \in 0..(Day - 1) : SF_vars(hour = h /\ \E s \in Scans : StartScan(s))
  /\ []<>(\A s \in Scans : scan[s].pc = "idle")

FairSpec == Spec /\ Fairness

-----------------------------------------------------------------------------
(* No attempt is sent twice, however scans race, fail and are retried.     *)
NudgedOnce ==
  \A c \in Chats, t \in Types : \A n \in Attempts : sends[c][t][n] <= 1

(* The cap is never exceeded, and no attempt is made before the one before *)
(* it was: scans that count from stale rows neither skip nor add one.      *)
CapHolds ==
  \A c \in Chats, t \in Types : \A n \in Attempts :
    claim[c][t][n] # "none" =>
      n <= MaxAttempts /\ \A k \in 1..(n - 1) : claim[c][t][k] # "none"

NewNudge(c, t) == \E n \in Attempts : sends'[c][t][n] > sends[c][t][n]

(* The hours of the window, going round the clock from its start.          *)
QuietHours ==
  {(QuietStart + k) % Day : k \in {k \in 0..(Day - 1) : k < (QuietEnd + Day - QuietStart) % Day}}

(* The shop never writes in its quiet hours.                               *)
SilentInQuietHours ==
  [][\A c \in Chats, t \in Types : NewNudge(c, t) => hour \notin QuietHours]_vars

(* A payment nudge reaches only a customer whose order still waits.        *)
NudgesUnpaidOnly ==
  [][\A c \in Chats : NewNudge(c, "PAYMENT") => order[c] # "paid"]_vars

Nudged(c, t) == claim[c][t][1] # "none"

(* A cart that stays quiet gets its first attempt, although another        *)
(* conversation's send fails the scan.                                     *)
CartNudged ==
  \A c \in Chats : open[c] /\ cart[c] ~> Nudged(c, "CART") \/ ~open[c] \/ ~cart[c]

(* An order that stays unpaid is nudged.                                   *)
PaymentNudged ==
  \A c \in Chats :
    open[c] /\ order[c] = "pending"
      ~> Nudged(c, "PAYMENT") \/ ~open[c] \/ order[c] # "pending"

(* It is while some conversation has a cart, however often that one was    *)
(* nudged before.                                                          *)
PaymentNudgedBesideCarts ==
  \A c \in Chats :
    open[c] /\ order[c] = "pending"
      ~> \/ Nudged(c, "PAYMENT") \/ ~open[c] \/ order[c] # "pending"
         \/ Candidates("CART") = {}

(* An order is nudged also when a charge of it failed, while some          *)
(* conversation has a cart.                                                *)
FailedPaymentNudged ==
  \A c \in Chats :
    open[c] /\ order[c] = "failed"
      ~> Nudged(c, "PAYMENT") \/ ~open[c] \/ Candidates("CART") = {}

=============================================================================
