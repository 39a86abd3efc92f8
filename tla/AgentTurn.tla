------------------------------ MODULE AgentTurn ------------------------------
(***************************************************************************)
(* The turns of one conversation: voice note, history, router, the rounds  *)
(* of the model and its tools, the cart that is written back at the end,   *)
(* and the reply.                                                          *)
(*                                                                         *)
(* What the model answers is free.  Texts are sets of words, as the guard  *)
(* against repeated replies takes them; a model marks its replies with the *)
(* sentiment and principle it sees, words that the customer never reads.   *)
(* A cart holds units, each of them added once.                            *)
(***************************************************************************)
EXTENDS LlmClient

CONSTANTS
  Kind,        \* "text" or "voice"
  Hits,        \* keywords of each route in a message's text
  Workers,     \* bound: jobs processed at the same time
  MaxTries,    \* attempts of a job (5 in the code)
  MaxRounds,   \* answers of the model in a turn (6 in the code)
  Batches,     \* bound: the function calls that one answer may hold
  Texts,       \* bound: the replies the model may give, words and marks
  Marks,       \* the words of the marks
  HandOverText, FallbackText, LoopText,   \* the words of the fixed replies
  Units,       \* bound: units of goods a customer asks for
  Available    \* units in stock

Routes == {"sales", "support", "logistics"}

ASSUME AgentTurnAssumption ==
  /\ Kind \in [Msgs -> {"text", "voice"}]
  /\ Hits \in [Msgs -> [Routes -> Nat]]
  /\ {Workers, MaxTries, MaxRounds} \subseteq Nat \ {0}
  /\ IsFiniteSet(Msgs) /\ IsFiniteSet(Units)
  /\ \A t \in Texts : t.marked \in BOOLEAN /\ (t.words = {} => t.marked)
  /\ {} \notin {HandOverText, FallbackText, LoopText}
  /\ \A names \in Batches : names \in Seq(STRING) \ {<<>>}
  /\ Available \in Nat

VARIABLES
  job,         \* the state of a message's job, "none" before it arrives
  tries,       \* attempts of it that failed
  heard,       \* what was transcribed of a voice note
  turn,        \* the turns under way
  rows,        \* the conversation's messages, and our replies to them
  cart,        \* conversations.metadata.cart
  orders,      \* the orders created: their units, by which call of which attempt
  torn,        \* history: units ordered by attempts that then broke off
  overlapped,  \* history: two turns were under way at once
  mute         \* history: jobs whose final text was nothing but marks

turnVars == <<job, tries, heard, turn, rows, cart, orders, torn, overlapped, mute>>
vars == <<call, lapses, turnVars>>

Silence == [words |-> {}, marked |-> FALSE]
NoTurn ==
  [pc |-> "idle", seen |-> <<>>, route |-> "none", round |-> 0, cart |-> {}, dirty |-> FALSE,
   made |-> {}, contents |-> <<>>, todo |-> <<>>, nth |-> 0, escalated |-> FALSE,
   said |-> Silence]

Steps == {"idle", "history", "voice", "router", "load", "think", "tools", "store", "send",
          "record", "close"}

TypeOK ==
  /\ ClientTypeOK
  /\ job \in [Msgs -> {"none", "wait", "active", "done", "failed"}]
  /\ tries \in [Msgs -> 0..MaxTries]
  /\ heard \in [Msgs -> {"text", "clear", "vague", "nothing", "not yet"}]
  /\ \A m \in Msgs :
       /\ turn[m].pc \in Steps
       /\ turn[m].route \in Routes \cup {"none"}
       /\ turn[m].round \in 0..(MaxRounds - 1)
       /\ turn[m].cart \subseteq Units /\ Cardinality(turn[m].cart) <= Available
       /\ job[m] = "active" <=> turn[m].pc # "idle"
  /\ cart \subseteq Units /\ Cardinality(cart) <= Available
  /\ \A o \in orders : o.units \subseteq Units /\ o.by \in Msgs /\ o.try \in 0..(MaxTries - 1)
  /\ torn \subseteq Units

Init ==
  /\ ClientInit
  /\ job = [m \in Msgs |-> "none"]
  /\ tries = [m \in Msgs |-> 0]
  /\ heard = [m \in Msgs |-> IF Kind[m] = "text" THEN "text" ELSE "not yet"]
  /\ turn = [m \in Msgs |-> NoTurn]
  /\ rows = <<>>
  /\ cart = {}
  /\ orders = {}
  /\ torn = {}
  /\ overlapped = FALSE
  /\ mute = [m \in Msgs |-> FALSE]

At(m, step) == turn[m].pc = step
Go(m, step) == turn' = [turn EXCEPT ![m].pc = step]
Active == {m \in Msgs : job[m] = "active"}
Ask(m) == call' = [call EXCEPT ![m] = Asking]
HangUp(m) == call' = [call EXCEPT ![m] = NoCall]

-----------------------------------------------------------------------------
(* The webhook stores a message and enqueues its job; a worker takes it.   *)

FromCustomer(m) == [role |-> "user", msg |-> m]
FromUs(t) == [role |-> "model", words |-> t.said.words, marked |-> t.said.marked,
              escalated |-> t.escalated]

Arrive(m) ==
  /\ job[m] = "none"
  /\ job' = [job EXCEPT ![m] = "wait"]
  /\ rows' = Append(rows, FromCustomer(m))
  /\ UNCHANGED <<call, lapses, tries, heard, turn, cart, orders, torn, overlapped, mute>>

Take(m) ==
  /\ job[m] = "wait"
  /\ Cardinality(Active) < Workers
  /\ job' = [job EXCEPT ![m] = "active"]
  /\ overlapped' = (overlapped \/ Active # {})
  /\ IF Kind[m] = "voice" THEN Go(m, "voice") /\ Ask(m) ELSE Go(m, "history") /\ UNCHANGED call
  /\ UNCHANGED <<lapses, tries, heard, rows, cart, orders, torn, mute>>

(* transcribe: a note may be clear, have a text of too little confidence or *)
(* none; it has none either when the model gave up on it.                  *)
Transcribe(m) ==
  /\ At(m, "voice")
  /\ \/ /\ Calling(m, "asking")
        /\ \E h \in {"clear", "vague", "nothing"} : heard' = [heard EXCEPT ![m] = h]
     \/ /\ Calling(m, "gaveUp")
        /\ heard' = [heard EXCEPT ![m] = "nothing"]
  /\ HangUp(m)
  /\ Go(m, "history")
  /\ UNCHANGED <<lapses, job, tries, rows, cart, orders, torn, overlapped, mute>>

-----------------------------------------------------------------------------
(* The router scores a text by its keywords and asks the model when there  *)
(* are none.                                                               *)

Weight(r) == IF r = "sales" THEN 1 ELSE 2
Score(h, r) == h[r] * Weight(r)

Leads(h, r, best) == Score(h, r) > Score(h, best)

(* In the order support, logistics, sales a later one has to be better.    *)
Better(h, r, best) == IF Leads(h, r, best) THEN r ELSE best
ClassifyHeuristic(h) ==
  LET best == Better(h, "sales", Better(h, "logistics", "support"))
  IN IF Score(h, best) > 0 THEN best ELSE "none"

(* A clear voice note is routed by its own text, anything else by the last *)
(* text of the customer in the history, which need not be the message.     *)
Texted(i) == rows[i].role = "user" /\ heard[rows[i].msg] \in {"text", "clear", "vague"}
RoutingMsgs(m) ==
  IF heard[m] = "clear" THEN {m}
  ELSE {rows[i].msg : i \in {j \in DOMAIN rows :
          Texted(j) /\ \A k \in DOMAIN rows : Texted(k) => k <= j}}

KeywordRoute(m) ==
  IF RoutingMsgs(m) = {} THEN "none"
  ELSE ClassifyHeuristic(Hits[CHOOSE n \in RoutingMsgs(m) : TRUE])

(* loadHistory, and the route that is scored from it at once.              *)
LoadHistory(m) ==
  /\ At(m, "history")
  /\ LET r == KeywordRoute(m)
     IN /\ turn' = [turn EXCEPT ![m].pc = IF r = "none" THEN "router" ELSE "load",
                                ![m].seen = rows, ![m].route = r]
        /\ IF r = "none" THEN Ask(m) ELSE UNCHANGED call
  /\ UNCHANGED <<lapses, job, tries, heard, rows, cart, orders, torn, overlapped, mute>>

(* An answer that names no route means sales.                              *)
RouterAnswers(m) ==
  /\ At(m, "router")
  /\ Calling(m, "asking")
  /\ HangUp(m)
  /\ \E r \in Routes : turn' = [turn EXCEPT ![m].pc = "load", ![m].route = r]
  /\ UNCHANGED <<lapses, job, tries, heard, rows, cart, orders, torn, overlapped, mute>>

-----------------------------------------------------------------------------
(* buildContents: our replies before the customer's first message are left *)
(* out.  An unclear voice note gets a directive to ask for it again.       *)
BuildContents(seen) ==
  LET first == SelectInSeq(seen, LAMBDA t : t.role = "user")
      turns == IF first = 0 THEN <<[role |-> "user"]>> ELSE SubSeq(seen, first, Len(seen))
  IN [i \in DOMAIN turns |-> Text(turns[i].role)]

Directive(m) == IF heard[m] \in {"vague", "nothing"} THEN <<Text("user")>> ELSE <<>>

LoadCart(m) ==
  /\ At(m, "load")
  /\ turn' = [turn EXCEPT ![m].pc = "think", ![m].cart = cart,
                          ![m].contents = BuildContents(turn[m].seen) \o Directive(m)]
  /\ Ask(m)
  /\ UNCHANGED <<lapses, job, tries, heard, rows, cart, orders, torn, overlapped, mute>>

(* An answer with function calls: they are run one after the other.        *)
Numbered(names, n) == [i \in DOMAIN names |-> FunctionCall(names[i], n + i)]

CallTools(m) ==
  /\ At(m, "think")
  /\ Calling(m, "asking")
  /\ HangUp(m)
  /\ \E names \in Batches :
       LET calls == Numbered(names, turn[m].nth)
       IN turn' = [turn EXCEPT ![m].pc = "tools", ![m].todo = calls,
                               ![m].contents = @ \o calls, ![m].nth = @ + Len(calls)]
  /\ UNCHANGED <<lapses, job, tries, heard, rows, cart, orders, torn, overlapped, mute>>

-----------------------------------------------------------------------------
(* The end of a run.  With no final text there is a fixed one.             *)
Fixed(words) == [words |-> words, marked |-> FALSE]

FinalText_None(t, text) == text           \* mutant: no fixed text
FinalText(t, text) ==
  IF text # Silence THEN text ELSE Fixed(IF t.escalated THEN HandOverText ELSE FallbackText)

AllWords(text) == text.words \cup (IF text.marked THEN Marks ELSE {})

(* textSimilarity of at least 0.75.                                        *)
Similar(A, B) == 4 * Cardinality(A \cap B) >= 3 * Cardinality(A \cup B)

(* Where our replies are in a history, and the last four of such places.   *)
Ours(seen) == {i \in DOMAIN seen : seen[i].role = "model"}
LastFour(places) == {i \in places : Cardinality({k \in places : i <= k}) <= 4}
Recent(seen) == {seen[i].words : i \in LastFour(Ours(seen))}

Repeats_Never(t, text) == FALSE           \* mutant: the guard is gone
Repeats(t, text) == \E words \in Recent(t.seen) : Similar(AllWords(FinalText(t, text)), words)

IsDirty_AddsOnly(t) == t.dirty /\ t.cart # {}   \* mutant: create_order does not set cartDirty
IsDirty(t) == t.dirty

(* The guard sees the marks, the customer does not.                        *)
Concluded(t, text) ==
  LET looped == ~t.escalated /\ Repeats(t, text)
  IN [t EXCEPT !.pc = IF IsDirty(t) THEN "store" ELSE "send",
               !.escalated = @ \/ looped,
               !.said = IF looped THEN Fixed(LoopText) ELSE FinalText(t, text),
               !.seen = <<>>, !.contents = <<>>, !.nth = 0, !.round = 0, !.route = "none"]

(* Nothing is left of a reply of marks alone.                              *)
Mutes(t, text) == text.marked /\ Concluded(t, text).said.words = {}

Conclude(m, t, text) ==
  /\ turn' = [turn EXCEPT ![m] = Concluded(t, text)]
  /\ mute' = [mute EXCEPT ![m] = Mutes(t, text)]

Reply(m) ==
  /\ At(m, "think")
  /\ Calling(m, "asking")
  /\ HangUp(m)
  /\ \E text \in Texts \cup {Silence} : Conclude(m, turn[m], text)
  /\ UNCHANGED <<lapses, job, tries, heard, rows, cart, orders, torn, overlapped>>

-----------------------------------------------------------------------------
(* The tools.  A result goes back to the model; after the last one comes   *)
(* the next round, and after the last round the fixed text.                *)
LastRound(t) == t.round + 1 = MaxRounds

Responded(t) ==
  LET c == Head(t.todo)
  IN [t EXCEPT !.contents = Append(@, FunctionResponse(c.name, c.nth)), !.todo = Tail(@)]

Proceeds(m, t) ==
  LET u == Responded(t) IN
  IF u.todo # <<>>
  THEN turn' = [turn EXCEPT ![m] = u] /\ UNCHANGED <<call, mute>>
  ELSE IF LastRound(u) THEN Conclude(m, u, Silence) /\ UNCHANGED call
  ELSE turn' = [turn EXCEPT ![m] = [u EXCEPT !.pc = "think", !.round = @ + 1]]
         /\ Ask(m) /\ UNCHANGED mute

Runs(m, name) == At(m, "tools") /\ Head(turn[m].todo).name = name

Fits(t) == Cardinality(t.cart) < Available

(* A unit that is in no cart and in no order.                              *)
Free ==
  {u \in Units \ cart : /\ \A m \in Msgs : u \notin turn[m].cart
                        /\ \A o \in orders : u \notin o.units}
NextUnit == CHOOSE u \in Free : TRUE

AddToCart(m) ==
  /\ Runs(m, "add_to_cart")
  /\ IF Fits(turn[m]) /\ Free # {}
     THEN Proceeds(m, [turn[m] EXCEPT !.cart = @ \cup {NextUnit}, !.dirty = TRUE])
     ELSE Proceeds(m, turn[m])
  /\ UNCHANGED <<lapses, job, tries, heard, rows, cart, orders, torn, overlapped>>

(* The whole cart, or some of it that the model names; the cart is emptied *)
(* either way.                                                             *)
CreateOrder(m) ==
  /\ Runs(m, "create_order")
  /\ \E units \in SUBSET turn[m].cart \ {{}} :
       /\ orders' = orders \cup {[units |-> units, by |-> m, try |-> tries[m],
                                 nth |-> Head(turn[m].todo).nth]}
       /\ Proceeds(m, [turn[m] EXCEPT !.cart = {}, !.dirty = TRUE, !.made = @ \cup units])
  /\ UNCHANGED <<lapses, job, tries, heard, rows, cart, torn, overlapped>>

(* No items, too few in stock, or any error of the transaction: the model  *)
(* is told.                                                                *)
OrderRefused(m) ==
  /\ Runs(m, "create_order")
  /\ Proceeds(m, turn[m])
  /\ UNCHANGED <<lapses, job, tries, heard, rows, cart, orders, torn, overlapped>>

Escalate(m) ==
  /\ Runs(m, "escalate_to_human")
  /\ Proceeds(m, [turn[m] EXCEPT !.escalated = TRUE])
  /\ UNCHANGED <<lapses, job, tries, heard, rows, cart, orders, torn, overlapped>>

(* A tool that only reads, or a name that is no tool.                      *)
Look(m) ==
  /\ Runs(m, "look")
  /\ Proceeds(m, turn[m])
  /\ UNCHANGED <<lapses, job, tries, heard, rows, cart, orders, torn, overlapped>>

-----------------------------------------------------------------------------
StoreCart(m) ==
  /\ At(m, "store")
  /\ cart' = turn[m].cart
  /\ turn' = [turn EXCEPT ![m].pc = "send", ![m].made = {}]
  /\ UNCHANGED <<call, lapses, job, tries, heard, rows, orders, torn, overlapped, mute>>

Finish(m) ==
  /\ job' = [job EXCEPT ![m] = "done"]
  /\ turn' = [turn EXCEPT ![m] = NoTurn]

(* A reply of marks alone is not sent.                                     *)
Send(m) ==
  /\ At(m, "send")
  /\ IF turn[m].said.words = {} THEN Finish(m) ELSE Go(m, "record") /\ UNCHANGED job
  /\ UNCHANGED <<call, lapses, tries, heard, rows, cart, orders, torn, overlapped, mute>>

Record(m) ==
  /\ At(m, "record")
  /\ rows' = Append(rows, FromUs(turn[m]))
  /\ Go(m, "close")
  /\ UNCHANGED <<call, lapses, job, tries, heard, cart, orders, torn, overlapped, mute>>

(* The time of the last message, the audit row, the message's status.      *)
Close(m) ==
  /\ At(m, "close")
  /\ Finish(m)
  /\ UNCHANGED <<call, lapses, tries, heard, rows, cart, orders, torn, overlapped, mute>>

-----------------------------------------------------------------------------
Drop(m, state) ==
  /\ job' = [job EXCEPT ![m] = state]
  /\ torn' = torn \cup turn[m].made
  /\ turn' = [turn EXCEPT ![m] = NoTurn]
  /\ HangUp(m)
  /\ UNCHANGED <<heard, rows, cart, orders, overlapped, mute>>

(* The model gave up, or a query or the send did: BullMQ tries again.      *)
AttemptFails(m) ==
  /\ \/ /\ turn[m].pc \in {"router", "think"}
        /\ Calling(m, "gaveUp")
        /\ UNCHANGED lapses
     \/ ~At(m, "idle") /\ Lapse("turn")
  /\ tries' = [tries EXCEPT ![m] = @ + 1]
  /\ Drop(m, IF tries[m] + 1 < MaxTries THEN "wait" ELSE "failed")

(* The worker dies; the stalled job is handed out again.                   *)
WorkerDies(m) ==
  /\ ~At(m, "idle")
  /\ Lapse("crash")
  /\ UNCHANGED tries
  /\ Drop(m, "wait")

Wait(m) ==
  /\ RequestFails(m) \/ (BackoffEnds(m) /\ UNCHANGED lapses)
  /\ UNCHANGED turnVars

Proceed(m) ==
  \/ Transcribe(m) \/ LoadHistory(m) \/ RouterAnswers(m) \/ LoadCart(m)
  \/ CallTools(m) \/ Reply(m)
  \/ AddToCart(m) \/ CreateOrder(m) \/ OrderRefused(m) \/ Escalate(m) \/ Look(m)
  \/ StoreCart(m) \/ Send(m) \/ Record(m) \/ Close(m)

Next ==
  \E m \in Msgs :
    Arrive(m) \/ Take(m) \/ Proceed(m) \/ Wait(m) \/ AttemptFails(m) \/ WorkerDies(m)

Spec == Init /\ [][Next]_vars

(* Workers take what waits, a turn goes on, a request is answered or fails *)
(* and a backoff ends.                                                     *)
FairSpec ==
  /\ Spec
  /\ \A m \in Msgs :
       /\ WF_vars(Take(m))
       /\ WF_vars(Proceed(m) \/ Wait(m) \/ AttemptFails(m))

-----------------------------------------------------------------------------
(* What the model is asked pairs every function call with its own result,  *)
(* whatever it called before: buildRequest has but names to pair them by   *)
(* (grok.ts:214-273).                                                      *)
CallsAnswered == \A m \in Msgs : At(m, "think") => WellFormed(BuildRequest(turn[m].contents))

(* With one turn at a time and no attempt that broke off with an order     *)
(* placed, nothing that was put into the cart is ordered twice: neither in *)
(* one turn nor by a later one (tools.ts:263-266, agent.ts:254-262).       *)
OrderedOnce ==
  ~overlapped => \A u \in Units \ torn : Cardinality({o \in orders : u \in o.units}) <= 1

(* A job that is done has left a reply, unless the model had nothing to    *)
(* say but marks (agent.ts:219-225, handler.ts:167).                       *)
Done == {m \in Msgs : job[m] = "done"}
NeverSilent == Cardinality(Ours(rows)) >= Cardinality({m \in Done : ~mute[m]})

(* A reply that is like one of the four before it comes with the hand-over *)
(* to a person (agent.ts:227-229).  It holds of replies without marks, the *)
(* fixed ones among them, while turns follow each other, retries of jobs   *)
(* that had replied included.                                              *)
RepeatAt(j) ==
  \E i \in LastFour({k \in Ours(rows) : k < j}) : Similar(rows[i].words, rows[j].words)
NoLoop ==
  ~overlapped => \A j \in Ours(rows) : RepeatAt(j) => rows[j].escalated \/ rows[j].marked

(* The same of every reply, as the comment in agent.ts has it.  The guard  *)
(* compares a text that has its marks with texts that have lost theirs.    *)
RepeatsEscalate ==
  ~overlapped => \A j \in Ours(rows) : RepeatAt(j) => rows[j].escalated

(* In the end no job waits or is under way: whatever the model answers and *)
(* whichever requests fail, each is done or has used up its attempts       *)
(* (agent.ts:160, grok.ts:304-312, retry.ts:31-58).                        *)
TurnEnds == <>[](\A m \in Msgs : job[m] \notin {"wait", "active"})

=============================================================================
