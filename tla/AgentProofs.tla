---------------------------- MODULE AgentProofs ----------------------------
(***************************************************************************)
(* Theorems about the turns of a conversation for every number of          *)
(* messages, workers, attempts, rounds and units, every set of answers of  *)
(* the model and every failure budget.                                     *)
(***************************************************************************)
EXTENDS AgentTurn, Sums, SequenceTheorems

LEMMA ConfigType ==
  /\ Attempts \in Nat \ {0} /\ MaxTries \in Nat \ {0} /\ MaxRounds \in Nat \ {0}
  /\ MaxFaults \in Nat /\ Available \in Nat
  /\ IsFiniteSet(Units)
  /\ Kind \in [Msgs -> {"text", "voice"}]
BY LlmClientAssumption, AgentTurnAssumption DEF LlmClientAssumption, AgentTurnAssumption

-----------------------------------------------------------------------------
(* The heuristic names a route exactly when some keyword hits, and it then *)
(* names one of the highest weighted score: no complaint or delivery       *)
(* question goes to sales on a tie, and support wins over logistics        *)
(* (router.ts:125-168).                                                    *)
THEOREM BestRouteWins ==
  ASSUME NEW h \in [Routes -> Nat]
  PROVE  LET b == ClassifyHeuristic(h)
         IN /\ b = "none" <=> \A r \in Routes : h[r] = 0
            /\ b # "none" => \A r \in Routes : Score(h, r) <= Score(h, b)
            /\ b = "sales" => \A r \in Routes \ {"sales"} : Score(h, r) < Score(h, "sales")
            /\ b = "logistics" => Score(h, "support") < Score(h, "logistics")
<1>1. /\ Score(h, "sales") = h["sales"]
      /\ Score(h, "support") = h["support"] * 2
      /\ Score(h, "logistics") = h["logistics"] * 2
      /\ h["sales"] \in Nat /\ h["support"] \in Nat /\ h["logistics"] \in Nat
  BY SMT DEF Score, Weight, Routes
<1>2. \A r \in Routes : r \in {"sales", "support", "logistics"}
  BY DEF Routes
<1> QED BY <1>1, <1>2, SMT DEF ClassifyHeuristic, Better, Leads, Routes

-----------------------------------------------------------------------------
Fields == {"pc", "seen", "route", "round", "cart", "dirty", "made", "contents", "todo", "nth",
           "escalated", "said"}

Early == {"idle", "voice", "history", "router", "load"}
Late == {"send", "record", "close"}

(* What is in a turn: nothing before its cart is loaded, and no order that *)
(* is not yet reflected in the stored cart without the turn being dirty.   *)
SoundTurn(t) ==
  /\ DOMAIN t = Fields
  /\ t.pc \in Steps
  /\ t.route \in Routes \cup {"none"}
  /\ t.round \in 0..(MaxRounds - 1)
  /\ t.cart \subseteq Units /\ Cardinality(t.cart) <= Available
  /\ t.dirty \in BOOLEAN
  /\ t.pc \in Early => t.cart = {} /\ t.made = {} /\ ~t.dirty
  /\ t.made # {} => t.dirty
  /\ t.pc \in Late => t.made = {}
  /\ t.made \subseteq Units

LEMMA NoTurnSound == SoundTurn(NoTurn)
<1>1. Cardinality({}) = 0
  BY FS_EmptySet
<1> QED BY <1>1, ConfigType DEF SoundTurn, NoTurn, Fields, Steps, Early, Late, Routes

LEMMA ConcludedKeeps ==
  ASSUME NEW t, DOMAIN t = Fields, NEW text
  PROVE  LET u == Concluded(t, text)
         IN /\ DOMAIN u = Fields /\ u.round = 0 /\ u.route = "none"
            /\ u.cart = t.cart /\ u.dirty = t.dirty /\ u.made = t.made
            /\ u.pc = IF t.dirty THEN "store" ELSE "send"
BY SMT DEF Concluded, Fields, IsDirty

LEMMA RespondedKeeps ==
  ASSUME NEW t, DOMAIN t = Fields
  PROVE  LET u == Responded(t)
         IN /\ DOMAIN u = Fields /\ u.round = t.round /\ u.route = t.route
            /\ u.cart = t.cart /\ u.dirty = t.dirty /\ u.made = t.made /\ u.pc = t.pc
BY SMT DEF Responded, Fields

(* Concluding a sound turn, and going on with one, leave it sound.         *)
LEMMA ConcludedSound ==
  ASSUME NEW t, NEW text, SoundTurn(t)
  PROVE  SoundTurn(Concluded(t, text))
<1> DEFINE u == Concluded(t, text)
<1>1. DOMAIN t = Fields
  BY DEF SoundTurn
<1>2. /\ DOMAIN u = Fields /\ u.round = 0 /\ u.route = "none"
      /\ u.cart = t.cart /\ u.dirty = t.dirty /\ u.made = t.made
      /\ u.pc = IF t.dirty THEN "store" ELSE "send"
  BY <1>1, ConcludedKeeps
<1>3. 0 \in 0..(MaxRounds - 1)
  BY ConfigType, SMT
<1>4. SoundTurn(u)
  <2> HIDE DEF u
  <2> QED BY <1>2, <1>3 DEF SoundTurn, Steps, Early, Late
<1> QED BY <1>4

LEMMA ProceedsKeeps ==
  ASSUME NEW m \in Msgs, NEW t, SoundTurn(t), t.pc = "tools", DOMAIN turn = Msgs, Proceeds(m, t)
  PROVE  \E u : /\ turn' = [turn EXCEPT ![m] = u] /\ SoundTurn(u) /\ u.pc \notin Early
                /\ u.cart = t.cart /\ u.made = t.made
                /\ call' \in {call, [call EXCEPT ![m] = Asking]}
<1> DEFINE r == Responded(t)
<1>1. /\ DOMAIN r = Fields /\ r.round = t.round /\ r.route = t.route
      /\ r.cart = t.cart /\ r.dirty = t.dirty /\ r.made = t.made /\ r.pc = t.pc
  BY RespondedKeeps DEF SoundTurn
<1>2. SoundTurn(r)
  <2> HIDE DEF r
  <2> QED BY <1>1 DEF SoundTurn
<1>3. r.pc \notin Early
  BY <1>1 DEF Early
<1>4. CASE r.todo # <<>>
  <2>1. turn' = [turn EXCEPT ![m] = r] /\ call' = call
    BY <1>4 DEF Proceeds
  <2> QED BY <2>1, <1>1, <1>2, <1>3
<1>5. CASE r.todo = <<>> /\ LastRound(r)
  <2> DEFINE u == Concluded(r, Silence)
  <2>1. turn' = [turn EXCEPT ![m] = u] /\ call' = call
    BY <1>5 DEF Proceeds, Conclude
  <2>2. SoundTurn(u)
    BY <1>2, ConcludedSound
  <2>3. u.cart = t.cart /\ u.made = t.made /\ u.pc \in {"store", "send"}
    BY <1>1, ConcludedKeeps
  <2> HIDE DEF u
  <2> QED BY <2>1, <2>2, <2>3 DEF Early
<1>6. CASE r.todo = <<>> /\ ~LastRound(r)
  <2> DEFINE u == [r EXCEPT !.pc = "think", !.round = @ + 1]
  <2>1. turn' = [turn EXCEPT ![m] = u] /\ call' = [call EXCEPT ![m] = Asking]
    BY <1>6 DEF Proceeds, Ask
  <2>2. /\ DOMAIN u = Fields /\ u.pc = "think" /\ u.round = r.round + 1 /\ u.route = r.route
        /\ u.cart = r.cart /\ u.dirty = r.dirty /\ u.made = r.made
    <3> HIDE DEF r
    <3> QED BY <1>1, SMT DEF Fields
  <2>3. u.round \in 0..(MaxRounds - 1)
    <3>1. r.round \in 0..(MaxRounds - 1) /\ r.round + 1 # MaxRounds
      BY <1>6, <1>2 DEF SoundTurn, LastRound
    <3> QED BY <2>2, <3>1, ConfigType, SMT
  <2>4. SoundTurn(u)
    <3> HIDE DEF u, r
    <3> QED BY <2>2, <2>3, <1>1, <1>2 DEF SoundTurn, Steps, Early, Late
  <2> HIDE DEF u
  <2> QED BY <2>1, <2>2, <2>4, <1>1 DEF Early
<1> QED BY <1>4, <1>5, <1>6

-----------------------------------------------------------------------------
TurnsSound ==
  /\ DOMAIN turn = Msgs
  /\ \A m \in Msgs : SoundTurn(turn[m]) /\ (job[m] = "active" <=> turn[m].pc # "idle")

JobsTyped ==
  /\ job \in [Msgs -> {"none", "wait", "active", "done", "failed"}]
  /\ tries \in [Msgs -> 0..MaxTries]
  /\ heard \in [Msgs -> {"text", "clear", "vague", "nothing", "not yet"}]
  /\ \A m \in Msgs : job[m] # "failed" => tries[m] < MaxTries

CallsTyped ==
  /\ ClientTypeOK
  /\ \A m \in Msgs : call[m].pc = "backoff" => call[m].attempt < Attempts

GoodsTyped ==
  /\ cart \subseteq Units /\ Cardinality(cart) <= Available
  /\ \A o \in orders : o.units \subseteq Units /\ o.by \in Msgs /\ o.try \in 0..(MaxTries - 1)
  /\ torn \subseteq Units

TypeInv == TurnsSound /\ JobsTyped /\ CallsTyped /\ GoodsTyped

LEMMA TypeInvImpliesTypeOK == TypeInv => TypeOK
BY DEF TypeInv, TurnsSound, JobsTyped, CallsTyped, GoodsTyped, SoundTurn, TypeOK

LEMMA TypeInvInit == Init => TypeInv
<1> SUFFICES ASSUME Init PROVE TypeInv
  OBVIOUS
<1>1. TurnsSound
  <2>1. turn = [m \in Msgs |-> NoTurn] /\ NoTurn.pc = "idle" /\ job = [m \in Msgs |-> "none"]
    BY DEF Init, NoTurn
  <2> QED BY <2>1, NoTurnSound DEF TurnsSound
<1>2. JobsTyped
  <2>1. 0 \in 0..MaxTries /\ 0 < MaxTries
    BY ConfigType, SMT
  <2>2. heard \in [Msgs -> {"text", "clear", "vague", "nothing", "not yet"}]
    BY DEF Init
  <2> QED BY <2>1, <2>2 DEF Init, JobsTyped
<1>3. CallsTyped
  <2>1. 0 \in 0..Attempts /\ 0 \in 0..MaxFaults
    BY ConfigType, SMT
  <2>2. NoCall \in [pc : {"none", "asking", "backoff", "gaveUp"}, attempt : 0..Attempts]
    BY <2>1 DEF NoCall
  <2>3. call = [m \in Msgs |-> NoCall] /\ lapses = 0 /\ NoCall.pc # "backoff"
    BY DEF Init, ClientInit, NoCall
  <2> QED BY <2>1, <2>2, <2>3 DEF CallsTyped, ClientTypeOK
<1>4. GoodsTyped
  <2>1. Cardinality({}) = 0 /\ 0 <= Available
    BY FS_EmptySet, ConfigType, SMT
  <2>2. cart = {} /\ orders = {} /\ torn = {}
    BY DEF Init
  <2> QED BY <2>1, <2>2 DEF GoodsTyped
<1> QED BY <1>1, <1>2, <1>3, <1>4 DEF TypeInv

(* What a step of the turn of m does to that turn.                         *)
Becomes(m, u) == turn' = [turn EXCEPT ![m] = u] /\ SoundTurn(u) /\ u.pc # "idle"
Kept(m, u) == u.cart = turn[m].cart /\ u.made = turn[m].made

(* A step from here to there that changes nothing else in a turn.          *)
LEMMA GoKeeps ==
  ASSUME NEW m \in Msgs, TurnsSound, NEW step \in Steps \ {"idle"}, Go(m, step),
         (turn[m].pc \in Early /\ step \in Early) \/ (turn[m].pc \in Late /\ step \in Late)
  PROVE  \E u : Becomes(m, u) /\ Kept(m, u)
<1> DEFINE u == [turn[m] EXCEPT !.pc = step]
<1>1. turn' = [turn EXCEPT ![m] = u]
  BY DEF Go
<1>2. SoundTurn(turn[m])
  BY DEF TurnsSound
<1>3. /\ DOMAIN u = Fields /\ u.pc = step /\ u.round = turn[m].round /\ u.route = turn[m].route
      /\ u.cart = turn[m].cart /\ u.dirty = turn[m].dirty /\ u.made = turn[m].made
  BY <1>2, SMT DEF SoundTurn, Fields
<1>4. SoundTurn(u)
  <2> HIDE DEF u
  <2> QED BY <1>2, <1>3, SMT DEF SoundTurn, Steps, Early, Late
<1> HIDE DEF u
<1> QED BY <1>1, <1>3, <1>4 DEF Becomes, Kept

(* The steps that touch neither cart nor orders.                           *)
PlainStep(m) ==
  \/ Transcribe(m) \/ LoadHistory(m) \/ RouterAnswers(m) \/ CallTools(m) \/ Reply(m)
  \/ OrderRefused(m) \/ Escalate(m) \/ Look(m) \/ Record(m)

LEMMA HistoryKeeps ==
  ASSUME NEW m \in Msgs, TurnsSound, LoadHistory(m)
  PROVE  \E u : Becomes(m, u) /\ Kept(m, u)
<1> DEFINE r == KeywordRoute(m)
           step == IF r = "none" THEN "router" ELSE "load"
           u == [turn[m] EXCEPT !.pc = step, !.seen = rows, !.route = r]
<1>1. turn' = [turn EXCEPT ![m] = u]
  BY DEF LoadHistory
<1>2. SoundTurn(turn[m]) /\ turn[m].pc = "history"
  BY DEF TurnsSound, LoadHistory, At
<1>3. r \in Routes \cup {"none"}
  BY DEF KeywordRoute, ClassifyHeuristic, Better, Routes
<1>4. step \in {"router", "load"}
  OBVIOUS
<1> HIDE DEF step, r
<1>5. /\ DOMAIN u = Fields /\ u.pc = step /\ u.round = turn[m].round /\ u.route = r
      /\ u.cart = turn[m].cart /\ u.dirty = turn[m].dirty /\ u.made = turn[m].made
  BY <1>2, SMT DEF SoundTurn, Fields
<1>6. SoundTurn(u)
  <2> HIDE DEF u
  <2> QED BY <1>2, <1>3, <1>4, <1>5, SMT DEF SoundTurn, Steps, Early, Late
<1> HIDE DEF u
<1> QED BY <1>1, <1>4, <1>5, <1>6 DEF Becomes, Kept

LEMMA CallToolsKeeps ==
  ASSUME NEW m \in Msgs, TurnsSound, CallTools(m)
  PROVE  \E u : Becomes(m, u) /\ Kept(m, u)
<1>1. PICK names \in Batches :
        LET calls == Numbered(names, turn[m].nth)
        IN turn' = [turn EXCEPT ![m].pc = "tools", ![m].todo = calls,
                                ![m].contents = @ \o calls, ![m].nth = @ + Len(calls)]
  BY DEF CallTools
<1> DEFINE calls == Numbered(names, turn[m].nth)
           u == [turn[m] EXCEPT !.pc = "tools", !.todo = calls,
                                !.contents = @ \o calls, !.nth = @ + Len(calls)]
<1>2. SoundTurn(turn[m]) /\ turn[m].pc = "think" /\ DOMAIN turn = Msgs
  BY DEF TurnsSound, CallTools, At
<1>3. turn' = [turn EXCEPT ![m] = u]
  <2> HIDE DEF calls
  <2> QED BY <1>1 DEF calls
<1> HIDE DEF calls
<1>4. /\ DOMAIN u = Fields /\ u.pc = "tools" /\ u.round = turn[m].round /\ u.route = turn[m].route
      /\ u.cart = turn[m].cart /\ u.dirty = turn[m].dirty /\ u.made = turn[m].made
  BY <1>2, SMT DEF SoundTurn, Fields
<1>5. SoundTurn(u)
  <2> HIDE DEF u
  <2> QED BY <1>2, <1>4, SMT DEF SoundTurn, Steps, Early, Late
<1> HIDE DEF u
<1> QED BY <1>3, <1>4, <1>5 DEF Becomes, Kept

LEMMA RouterKeeps ==
  ASSUME NEW m \in Msgs, TurnsSound, RouterAnswers(m)
  PROVE  \E u : Becomes(m, u) /\ Kept(m, u)
<1>1. PICK r \in Routes : turn' = [turn EXCEPT ![m].pc = "load", ![m].route = r]
  BY DEF RouterAnswers
<1> DEFINE u == [turn[m] EXCEPT !.pc = "load", !.route = r]
<1>2. SoundTurn(turn[m]) /\ turn[m].pc = "router" /\ DOMAIN turn = Msgs
  BY DEF TurnsSound, RouterAnswers, At
<1>3. turn' = [turn EXCEPT ![m] = u]
  BY <1>1
<1>4. /\ DOMAIN u = Fields /\ u.pc = "load" /\ u.round = turn[m].round /\ u.route = r
      /\ u.cart = turn[m].cart /\ u.dirty = turn[m].dirty /\ u.made = turn[m].made
  BY <1>2, SMT DEF SoundTurn, Fields
<1>5. SoundTurn(u)
  <2> HIDE DEF u
  <2> QED BY <1>2, <1>4, SMT DEF SoundTurn, Steps, Early, Late
<1> HIDE DEF u
<1> QED BY <1>3, <1>4, <1>5 DEF Becomes, Kept

LEMMA ReplyKeeps ==
  ASSUME NEW m \in Msgs, TurnsSound, Reply(m)
  PROVE  \E u : Becomes(m, u) /\ Kept(m, u)
<1>1. PICK text : turn' = [turn EXCEPT ![m] = Concluded(turn[m], text)]
  BY DEF Reply, Conclude
<1> DEFINE u == Concluded(turn[m], text)
<1>2. SoundTurn(turn[m]) /\ DOMAIN turn[m] = Fields
  BY DEF TurnsSound, SoundTurn
<1>3. SoundTurn(u)
  BY <1>2, ConcludedSound
<1>4. u.cart = turn[m].cart /\ u.made = turn[m].made /\ u.pc \in {"store", "send"}
  BY <1>2, ConcludedKeeps
<1> HIDE DEF u
<1> QED BY <1>1, <1>3, <1>4 DEF Becomes, Kept, u

(* A tool that is run leaves the turn what Proceeds makes of it.           *)
LEMMA ToolKeeps ==
  ASSUME NEW m \in Msgs, NEW t, TurnsSound, SoundTurn(t), t.pc = "tools", Proceeds(m, t)
  PROVE  \E u : Becomes(m, u) /\ u.cart = t.cart /\ u.made = t.made
<1>1. PICK u : /\ turn' = [turn EXCEPT ![m] = u] /\ SoundTurn(u) /\ u.pc \notin Early
               /\ u.cart = t.cart /\ u.made = t.made
  BY ProceedsKeeps DEF TurnsSound
<1> QED BY <1>1 DEF Becomes, Early

LEMMA LookKeeps ==
  ASSUME NEW m \in Msgs, TurnsSound, OrderRefused(m) \/ Look(m)
  PROVE  \E u : Becomes(m, u) /\ Kept(m, u)
<1>1. SoundTurn(turn[m]) /\ turn[m].pc = "tools" /\ Proceeds(m, turn[m])
  BY DEF TurnsSound, OrderRefused, Look, Runs, At
<1> QED BY <1>1, ToolKeeps DEF Kept

LEMMA EscalateKeeps ==
  ASSUME NEW m \in Msgs, TurnsSound, Escalate(m)
  PROVE  \E u : Becomes(m, u) /\ Kept(m, u)
<1> DEFINE t == [turn[m] EXCEPT !.escalated = TRUE]
<1>1. SoundTurn(turn[m]) /\ turn[m].pc = "tools" /\ Proceeds(m, t)
  BY DEF TurnsSound, Escalate, Runs, At
<1>2. /\ DOMAIN t = Fields /\ t.pc = "tools" /\ t.round = turn[m].round /\ t.route = turn[m].route
      /\ t.cart = turn[m].cart /\ t.dirty = turn[m].dirty /\ t.made = turn[m].made
  BY <1>1, SMT DEF SoundTurn, Fields
<1>3. SoundTurn(t)
  <2> HIDE DEF t
  <2> QED BY <1>1, <1>2, SMT DEF SoundTurn
<1> HIDE DEF t
<1> QED BY <1>1, <1>2, <1>3, ToolKeeps DEF Kept

LEMMA PlainKeeps ==
  ASSUME NEW m \in Msgs, TurnsSound, PlainStep(m)
  PROVE  \E u : Becomes(m, u) /\ Kept(m, u)
<1>1. CASE Transcribe(m)
  <2>1. Go(m, "history") /\ turn[m].pc = "voice"
    BY <1>1 DEF Transcribe, At
  <2> QED BY <2>1, GoKeeps DEF Early, Steps
<1>2. CASE Record(m)
  <2>1. Go(m, "close") /\ turn[m].pc = "record"
    BY <1>2 DEF Record, At
  <2> QED BY <2>1, GoKeeps DEF Late, Steps
<1> QED BY <1>1, <1>2, HistoryKeeps, RouterKeeps, CallToolsKeeps, ReplyKeeps, LookKeeps,
           EscalateKeeps DEF PlainStep

-----------------------------------------------------------------------------
(* The steps that move goods.                                              *)

LEMMA LoadCartLoads ==
  ASSUME NEW m \in Msgs, TurnsSound, GoodsTyped, LoadCart(m)
  PROVE  \E u : Becomes(m, u) /\ u.cart = cart /\ u.made = {}
<1> DEFINE c == BuildContents(turn[m].seen) \o Directive(m)
           u == [turn[m] EXCEPT !.pc = "think", !.cart = cart, !.contents = c]
<1>1. turn' = [turn EXCEPT ![m] = u]
  BY DEF LoadCart
<1> HIDE DEF c
<1>2. SoundTurn(turn[m]) /\ turn[m].pc = "load"
  BY DEF TurnsSound, LoadCart, At
<1>3. /\ DOMAIN u = Fields /\ u.pc = "think" /\ u.round = turn[m].round /\ u.route = turn[m].route
      /\ u.cart = cart /\ u.dirty = turn[m].dirty /\ u.made = turn[m].made
  BY <1>2, SMT DEF SoundTurn, Fields
<1>4. turn[m].made = {}
  BY <1>2 DEF SoundTurn, Early
<1>5. SoundTurn(u)
  <2> HIDE DEF u
  <2> QED BY <1>2, <1>3, <1>4 DEF SoundTurn, GoodsTyped, Steps, Early, Late
<1> HIDE DEF u
<1> QED BY <1>1, <1>3, <1>4, <1>5 DEF Becomes

LEMMA AddToCartAdds ==
  ASSUME NEW m \in Msgs, TurnsSound, AddToCart(m)
  PROVE  \E u : /\ Becomes(m, u)
                /\ u.made = turn[m].made
                /\ u.cart = turn[m].cart \/ \E x \in Free : u.cart = turn[m].cart \cup {x}
<1>1. SoundTurn(turn[m]) /\ turn[m].pc = "tools"
  BY DEF TurnsSound, AddToCart, Runs, At
<1>2. CASE Fits(turn[m]) /\ Free # {}
  <2> DEFINE t == [turn[m] EXCEPT !.cart = @ \cup {NextUnit}, !.dirty = TRUE]
  <2>1. Proceeds(m, t)
    BY <1>2 DEF AddToCart
  <2>2. NextUnit \in Free
    BY <1>2 DEF NextUnit
  <2>3. /\ DOMAIN t = Fields /\ t.pc = "tools" /\ t.round = turn[m].round
        /\ t.route = turn[m].route /\ t.cart = turn[m].cart \cup {NextUnit}
        /\ t.dirty = TRUE /\ t.made = turn[m].made
    BY <1>1, SMT DEF SoundTurn, Fields
  <2>4. t.cart \subseteq Units /\ Cardinality(t.cart) <= Available
    <3>1. turn[m].cart \subseteq Units /\ NextUnit \in Units /\ NextUnit \notin turn[m].cart
      BY <1>1, <2>2 DEF SoundTurn, Free
    <3>2. IsFiniteSet(turn[m].cart)
      BY <3>1, ConfigType, FS_Subset
    <3>3. /\ Cardinality(turn[m].cart \cup {NextUnit}) = Cardinality(turn[m].cart) + 1
          /\ Cardinality(turn[m].cart) \in Nat
      BY <3>1, <3>2, FS_AddElement, FS_CardinalityType
    <3>4. Cardinality(turn[m].cart) < Available
      BY <1>2 DEF Fits
    <3>5. Cardinality(t.cart) <= Available
      BY <2>3, <3>3, <3>4, ConfigType, SMT
    <3> QED BY <2>3, <3>1, <3>5
  <2>5. SoundTurn(t)
    <3> HIDE DEF t
    <3> QED BY <1>1, <2>3, <2>4 DEF SoundTurn, Early, Late
  <2> HIDE DEF t
  <2> QED BY <2>1, <2>2, <2>3, <2>5, ToolKeeps
<1>3. CASE ~(Fits(turn[m]) /\ Free # {})
  <2>1. Proceeds(m, turn[m])
    BY <1>3 DEF AddToCart
  <2> QED BY <1>1, <2>1, ToolKeeps
<1> QED BY <1>2, <1>3

(* Some units of the turn's cart are ordered, and the cart is empty then.  *)
Ordered(m, units) ==
  [units |-> units, by |-> m, try |-> tries[m], nth |-> Head(turn[m].todo).nth]

LEMMA CreateOrderOrders ==
  ASSUME NEW m \in Msgs, TurnsSound, CreateOrder(m)
  PROVE  \E units \in SUBSET turn[m].cart : \E u :
           /\ Becomes(m, u) /\ u.cart = {} /\ u.made = turn[m].made \cup units
           /\ orders' = orders \cup {Ordered(m, units)}
<1>1. SoundTurn(turn[m]) /\ turn[m].pc = "tools"
  BY DEF TurnsSound, CreateOrder, Runs, At
<1>2. PICK units \in SUBSET turn[m].cart \ {{}} :
        /\ orders' = orders \cup {Ordered(m, units)}
        /\ Proceeds(m, [turn[m] EXCEPT !.cart = {}, !.dirty = TRUE, !.made = @ \cup units])
  BY DEF CreateOrder, Ordered
<1> DEFINE t == [turn[m] EXCEPT !.cart = {}, !.dirty = TRUE, !.made = @ \cup units]
<1>3. /\ DOMAIN t = Fields /\ t.pc = "tools" /\ t.round = turn[m].round
      /\ t.route = turn[m].route /\ t.cart = {} /\ t.dirty = TRUE
      /\ t.made = turn[m].made \cup units
  BY <1>1, SMT DEF SoundTurn, Fields
<1>4. Cardinality({}) <= Available
  BY FS_EmptySet, ConfigType, SMT
<1>5. SoundTurn(t)
  <2> HIDE DEF t
  <2> QED BY <1>1, <1>2, <1>3, <1>4 DEF SoundTurn, Early, Late
<1>6. Proceeds(m, t)
  BY <1>2
<1> HIDE DEF t
<1>7. PICK u : Becomes(m, u) /\ u.cart = {} /\ u.made = turn[m].made \cup units
  BY <1>1, <1>3, <1>5, <1>6, ToolKeeps
<1> QED BY <1>2, <1>7

LEMMA StoreCartStores ==
  ASSUME NEW m \in Msgs, TurnsSound, StoreCart(m)
  PROVE  \E u : Becomes(m, u) /\ u.cart = turn[m].cart /\ u.made = {}
<1> DEFINE u == [turn[m] EXCEPT !.pc = "send", !.made = {}]
<1>1. turn' = [turn EXCEPT ![m] = u]
  BY DEF StoreCart
<1>2. SoundTurn(turn[m])
  BY DEF TurnsSound
<1>3. /\ DOMAIN u = Fields /\ u.pc = "send" /\ u.round = turn[m].round /\ u.route = turn[m].route
      /\ u.cart = turn[m].cart /\ u.dirty = turn[m].dirty /\ u.made = {}
  BY <1>2, SMT DEF SoundTurn, Fields
<1>4. SoundTurn(u)
  <2> HIDE DEF u
  <2> QED BY <1>2, <1>3 DEF SoundTurn, Steps, Early, Late
<1> HIDE DEF u
<1> QED BY <1>1, <1>3, <1>4 DEF Becomes

-----------------------------------------------------------------------------
(* Type correctness, one part of the state at a time.                      *)

(* The steps inside a turn.                                                *)
Inside(m) ==
  \/ PlainStep(m) \/ LoadCart(m) \/ AddToCart(m) \/ CreateOrder(m) \/ StoreCart(m)
  \/ Send(m) /\ turn[m].said.words # {}

LEMMA InsideBecomes ==
  ASSUME NEW m \in Msgs, TurnsSound, GoodsTyped, Inside(m)
  PROVE  \E u : Becomes(m, u)
<1>1. CASE PlainStep(m)
  BY <1>1, PlainKeeps
<1>2. CASE LoadCart(m)
  BY <1>2, LoadCartLoads
<1>3. CASE AddToCart(m)
  BY <1>3, AddToCartAdds
<1>4. CASE CreateOrder(m)
  BY <1>4, CreateOrderOrders
<1>5. CASE StoreCart(m)
  BY <1>5, StoreCartStores
<1>6. CASE Send(m) /\ turn[m].said.words # {}
  <2>1. Go(m, "record") /\ turn[m].pc = "send"
    BY <1>6 DEF Send, At
  <2> QED BY <2>1, GoKeeps DEF Late, Steps
<1> QED BY <1>1, <1>2, <1>3, <1>4, <1>5, <1>6 DEF Inside

LEMMA InsideJobs ==
  ASSUME NEW m \in Msgs, Inside(m)
  PROVE  /\ job' = job /\ tries' = tries /\ overlapped' = overlapped /\ torn' = torn
         /\ turn[m].pc # "idle"
BY Zenon DEF Inside, PlainStep, Transcribe, LoadHistory, RouterAnswers, CallTools, Reply, OrderRefused,
       Escalate, Look, Record, LoadCart, AddToCart, CreateOrder, StoreCart, Send, At, Runs

(* A turn that ends, and its job.                                          *)
Ends(m, state) ==
  /\ job' = [job EXCEPT ![m] = state]
  /\ turn' = [turn EXCEPT ![m] = NoTurn]

LEMMA StepCases ==
  ASSUME Next
  PROVE  \E m \in Msgs :
           \/ Arrive(m) \/ Take(m) \/ Inside(m)
           \/ (Send(m) /\ turn[m].said.words = {}) \/ Close(m)
           \/ Wait(m) \/ AttemptFails(m) \/ WorkerDies(m)
BY Zenon DEF Next, Proceed, Inside, PlainStep

LEMMA SoundChange ==
  ASSUME TurnsSound, NEW m \in Msgs, NEW u, turn' = [turn EXCEPT ![m] = u], SoundTurn(u),
         job' \in [Msgs -> {"none", "wait", "active", "done", "failed"}],
         \A n \in Msgs \ {m} : job'[n] = job[n],
         job'[m] = "active" <=> u.pc # "idle"
  PROVE  TurnsSound'
BY DEF TurnsSound, SoundTurn

LEMMA TurnsStep ==
  ASSUME TypeInv, Next
  PROVE  TurnsSound'
<1> USE DEF TypeInv
<1>1. PICK m \in Msgs :
        \/ Arrive(m) \/ Take(m) \/ Inside(m)
        \/ (Send(m) /\ turn[m].said.words = {}) \/ Close(m)
        \/ Wait(m) \/ AttemptFails(m) \/ WorkerDies(m)
  BY StepCases
<1>2. CASE Arrive(m)
  <2>1. turn' = turn /\ job' = [job EXCEPT ![m] = "wait"] /\ job[m] = "none"
    BY <1>2 DEF Arrive
  <2> QED BY <2>1 DEF TurnsSound, JobsTyped
<1>3. CASE Take(m)
  <2>1. PICK step \in {"voice", "history"} : Go(m, step)
    BY <1>3 DEF Take
  <2>2. job' = [job EXCEPT ![m] = "active"] /\ turn[m].pc = "idle"
    BY <1>3 DEF Take, TurnsSound
  <2>3. PICK u : Becomes(m, u)
    BY <2>1, <2>2, GoKeeps DEF Early, Steps
  <2> QED BY <2>2, <2>3, SoundChange DEF Becomes, JobsTyped
<1>4. CASE Inside(m)
  <2>1. PICK u : Becomes(m, u)
    BY <1>4, InsideBecomes
  <2>2. job' = job /\ turn[m].pc # "idle"
    BY <1>4, InsideJobs
  <2>3. job[m] = "active"
    BY <2>2 DEF TurnsSound
  <2> QED BY <2>1, <2>2, <2>3, SoundChange DEF Becomes, JobsTyped
<1>5. CASE Wait(m)
  <2>1. turn' = turn /\ job' = job
    BY <1>5 DEF Wait, turnVars
  <2> QED BY <2>1 DEF TurnsSound
<1>6. ASSUME NEW state \in {"wait", "done", "failed"}, Ends(m, state)
      PROVE  TurnsSound'
  <2>1. NoTurn.pc = "idle"
    BY DEF NoTurn
  <2>2. job' = [job EXCEPT ![m] = state] /\ turn' = [turn EXCEPT ![m] = NoTurn]
    BY <1>6 DEF Ends
  <2> QED BY <2>1, <2>2, NoTurnSound, SoundChange DEF JobsTyped
<1>7. CASE (Send(m) /\ turn[m].said.words = {}) \/ Close(m)
  <2>1. Ends(m, "done")
    BY <1>7 DEF Send, Close, Finish, Ends
  <2> QED BY <1>6, <2>1
<1>8. CASE AttemptFails(m) \/ WorkerDies(m)
  <2>1. \E state \in {"wait", "failed"} : Ends(m, state)
    BY <1>8 DEF AttemptFails, WorkerDies, Drop, Ends
  <2> QED BY <1>6, <2>1
<1> QED BY <1>1, <1>2, <1>3, <1>4, <1>5, <1>7, <1>8

LEMMA JobsStep ==
  ASSUME TypeInv, Next
  PROVE  JobsTyped'
<1> USE DEF TypeInv, JobsTyped
<1>1. PICK m \in Msgs :
        \/ Arrive(m) \/ Take(m) \/ Inside(m)
        \/ (Send(m) /\ turn[m].said.words = {}) \/ Close(m)
        \/ Wait(m) \/ AttemptFails(m) \/ WorkerDies(m)
  BY StepCases
<1>2. CASE Arrive(m) \/ Take(m)
  <2>1. /\ tries' = tries /\ heard' = heard /\ job[m] # "failed"
        /\ \E state \in {"wait", "active"} : job' = [job EXCEPT ![m] = state]
    BY <1>2 DEF Arrive, Take
  <2> QED BY <2>1
<1>3. CASE Inside(m)
  <2>1. job' = job /\ tries' = tries
    BY <1>3, InsideJobs
  <2>2. CASE Transcribe(m)
    <3>1. \E h \in {"clear", "vague", "nothing"} : heard' = [heard EXCEPT ![m] = h]
      BY <2>2 DEF Transcribe
    <3> QED BY <2>1, <3>1
  <2>3. CASE ~Transcribe(m)
    <3>1. heard' = heard
      BY <1>3, <2>3, Zenon DEF Inside, PlainStep, LoadHistory, RouterAnswers, CallTools, Reply,
         OrderRefused, Escalate, Look, Record, LoadCart, AddToCart, CreateOrder, StoreCart, Send
    <3> QED BY <2>1, <3>1
  <2> QED BY <2>2, <2>3
<1>4. CASE (Send(m) /\ turn[m].said.words = {}) \/ Close(m)
  <2>1. /\ tries' = tries /\ heard' = heard
        /\ job' = [job EXCEPT ![m] = "done"]
    BY <1>4 DEF Send, Close, Finish
  <2>2. job[m] = "active"
    BY <1>4 DEF Send, Close, At, TurnsSound
  <2> QED BY <2>1, <2>2
<1>5. CASE Wait(m)
  BY <1>5 DEF Wait, turnVars
<1>6. CASE AttemptFails(m)
  <2>1. /\ tries' = [tries EXCEPT ![m] = @ + 1] /\ heard' = heard
        /\ job' = [job EXCEPT ![m] = IF tries[m] + 1 < MaxTries THEN "wait" ELSE "failed"]
    BY <1>6 DEF AttemptFails, Drop
  <2>2. job[m] = "active"
    BY <1>6 DEF AttemptFails, At, TurnsSound
  <2>3. tries[m] \in 0..MaxTries /\ tries[m] < MaxTries
    BY <2>2
  <2>4. tries[m] + 1 \in 0..MaxTries
    <3> HIDE DEF TypeInv, JobsTyped
    <3> QED BY <2>3, ConfigType, SMT
  <2> QED BY <2>1, <2>2, <2>4
<1>7. CASE WorkerDies(m)
  <2>1. tries' = tries /\ heard' = heard /\ job' = [job EXCEPT ![m] = "wait"]
    BY <1>7 DEF WorkerDies, Drop
  <2>2. job[m] = "active"
    BY <1>7 DEF WorkerDies, At, TurnsSound
  <2> QED BY <2>1, <2>2
<1> QED BY <1>1, <1>2, <1>3, <1>4, <1>5, <1>6, <1>7

CallType == [pc : {"none", "asking", "backoff", "gaveUp"}, attempt : 0..Attempts]

LEMMA CallChange ==
  ASSUME CallsTyped, NEW m \in Msgs, NEW c \in CallType, c.pc = "backoff" => c.attempt < Attempts,
         call' = [call EXCEPT ![m] = c], lapses' = lapses \/ \E k \in Faults : Lapse(k)
  PROVE  CallsTyped'
<1>1. lapses' \in 0..MaxFaults
  BY ConfigType, SMT DEF Lapse, CallsTyped, ClientTypeOK
<1> QED BY <1>1 DEF CallsTyped, ClientTypeOK, CallType

LEMMA AskingTyped ==
  /\ Asking \in CallType /\ Asking.pc # "backoff"
  /\ NoCall \in CallType /\ NoCall.pc # "backoff"
<1>1. 0 \in 0..Attempts /\ 1 \in 0..Attempts
  BY ConfigType, SMT
<1> QED BY <1>1 DEF Asking, NoCall, CallType

LEMMA ProceedsCalls ==
  ASSUME NEW m \in Msgs, NEW t, Proceeds(m, t)
  PROVE  call' = call \/ Ask(m)
BY DEF Proceeds

LEMMA CallsStep ==
  ASSUME TypeInv, Next
  PROVE  CallsTyped'
<1> USE DEF TypeInv
<1>1. PICK m \in Msgs :
        \/ Arrive(m) \/ Take(m) \/ Inside(m)
        \/ (Send(m) /\ turn[m].said.words = {}) \/ Close(m)
        \/ Wait(m) \/ AttemptFails(m) \/ WorkerDies(m)
  BY StepCases
<1>2. CASE call' = call /\ lapses' = lapses
  BY <1>2 DEF CallsTyped, ClientTypeOK
<1>3. CASE (Ask(m) \/ HangUp(m)) /\ (lapses' = lapses \/ \E k \in Faults : Lapse(k))
  BY <1>3, AskingTyped, CallChange DEF Ask, HangUp
<1>4. CASE Arrive(m) \/ Take(m) \/ Close(m) \/ (Send(m) /\ turn[m].said.words = {})
  <2>1. lapses' = lapses /\ (call' = call \/ Ask(m))
    BY <1>4, Zenon DEF Arrive, Take, Close, Send
  <2> QED BY <1>2, <1>3, <2>1
<1>5. CASE Inside(m)
  <2>1. lapses' = lapses
    BY <1>5, Zenon DEF Inside, PlainStep, Transcribe, LoadHistory, RouterAnswers, CallTools, Reply,
       OrderRefused, Escalate, Look, Record, LoadCart, AddToCart, CreateOrder, StoreCart, Send
  <2>2. call' = call \/ Ask(m) \/ HangUp(m)
    <3>1. CASE OrderRefused(m) \/ Escalate(m) \/ Look(m) \/ AddToCart(m) \/ CreateOrder(m)
      <4>1. \E t : Proceeds(m, t)
        BY <3>1, Zenon DEF OrderRefused, Escalate, Look, AddToCart, CreateOrder
      <4> QED BY <4>1, ProceedsCalls
    <3>2. CASE LoadHistory(m)
      <4>1. (IF KeywordRoute(m) = "none" THEN Ask(m) ELSE UNCHANGED call)
        BY <3>2, Zenon DEF LoadHistory
      <4> QED BY <4>1
    <3>3. CASE \/ Transcribe(m) \/ RouterAnswers(m) \/ CallTools(m) \/ Reply(m) \/ Record(m)
               \/ LoadCart(m) \/ StoreCart(m) \/ Send(m)
      BY <3>3, Zenon DEF Transcribe, RouterAnswers, CallTools, Reply, Record, LoadCart, StoreCart,
         Send
    <3> QED BY <1>5, <3>1, <3>2, <3>3 DEF Inside, PlainStep
  <2> QED BY <1>2, <1>3, <2>1, <2>2
<1>6. CASE AttemptFails(m) \/ WorkerDies(m)
  <2>1. HangUp(m) /\ (lapses' = lapses \/ Lapse("turn") \/ Lapse("crash"))
    BY <1>6, Zenon DEF AttemptFails, WorkerDies, Drop
  <2>2. \A k : Lapse(k) => k \in Faults
    BY DEF Lapse
  <2> QED BY <1>3, <2>1, <2>2
<1>7. CASE Wait(m)
  <2>1. call[m] \in CallType
    BY DEF CallsTyped, ClientTypeOK, CallType
  <2>2. CASE RequestFails(m)
    <3>1. PICK k \in {"llm", "refused"} :
            Lapse(k) /\ call' = [call EXCEPT ![m].pc = AfterError(call[m], k)]
      BY <2>2 DEF RequestFails
    <3> DEFINE c == [call[m] EXCEPT !.pc = AfterError(call[m], k)]
    <3>2. c \in CallType /\ (c.pc = "backoff" => c.attempt < Attempts)
      BY <2>1 DEF CallType, AfterError
    <3>3. call' = [call EXCEPT ![m] = c] /\ k \in Faults
      BY <3>1 DEF Lapse
    <3> HIDE DEF c
    <3> QED BY <3>1, <3>2, <3>3, CallChange
  <2>3. CASE BackoffEnds(m) /\ UNCHANGED lapses
    <3> DEFINE c == [pc |-> "asking", attempt |-> call[m].attempt + 1]
    <3>1. call' = [call EXCEPT ![m] = c] /\ call[m].pc = "backoff"
      BY <2>3 DEF BackoffEnds, Calling
    <3>2. call[m].attempt \in 0..Attempts /\ call[m].attempt < Attempts
      BY <2>1, <3>1 DEF CallsTyped, CallType
    <3>3. call[m].attempt + 1 \in 0..Attempts
      BY <3>2, ConfigType, SMT
    <3>4. c \in CallType /\ c.pc # "backoff"
      BY <3>3 DEF CallType
    <3> HIDE DEF c
    <3> QED BY <2>3, <3>1, <3>4, CallChange
  <2> QED BY <1>7, <2>2, <2>3 DEF Wait
<1> QED BY <1>1, <1>4, <1>5, <1>6, <1>7

(* Where the stored cart, the orders and the broken off units change.      *)
LEMMA GoodsMove ==
  ASSUME NEW m \in Msgs,
         \/ Arrive(m) \/ Take(m) \/ Inside(m)
         \/ (Send(m) /\ turn[m].said.words = {}) \/ Close(m)
         \/ Wait(m) \/ AttemptFails(m) \/ WorkerDies(m)
  PROVE  /\ StoreCart(m) \/ cart' = cart
         /\ CreateOrder(m) \/ orders' = orders
         /\ (AttemptFails(m) \/ WorkerDies(m)) \/ torn' = torn
         /\ Take(m) \/ overlapped' = overlapped
<1>1. CASE Arrive(m)
  BY <1>1, Zenon DEF Arrive
<1>2. CASE Take(m)
  BY <1>2, Zenon DEF Take
<1>3. CASE Inside(m)
  BY <1>3, Zenon DEF Inside, PlainStep, Transcribe, LoadHistory, RouterAnswers, CallTools, Reply,
       OrderRefused, Escalate, Look, Record, LoadCart, AddToCart, CreateOrder, StoreCart, Send
<1>4. CASE Send(m) \/ Close(m)
  BY <1>4, Zenon DEF Send, Close
<1>5. CASE Wait(m)
  BY <1>5, Zenon DEF Wait, turnVars
<1>6. CASE AttemptFails(m) \/ WorkerDies(m)
  BY <1>6, Zenon DEF AttemptFails, WorkerDies, Drop
<1> QED BY <1>1, <1>2, <1>3, <1>4, <1>5, <1>6

LEMMA GoodsStep ==
  ASSUME TypeInv, Next
  PROVE  GoodsTyped'
<1> USE DEF TypeInv
<1>1. PICK m \in Msgs :
        \/ Arrive(m) \/ Take(m) \/ Inside(m)
        \/ (Send(m) /\ turn[m].said.words = {}) \/ Close(m)
        \/ Wait(m) \/ AttemptFails(m) \/ WorkerDies(m)
  BY StepCases
<1>2. SoundTurn(turn[m])
  BY DEF TurnsSound
<1>3. cart' \subseteq Units /\ Cardinality(cart') <= Available
  <2>1. StoreCart(m) => cart' = turn[m].cart
    BY DEF StoreCart
  <2>2. StoreCart(m) \/ cart' = cart
    BY <1>1, GoodsMove
  <2> QED BY <1>2, <2>1, <2>2 DEF SoundTurn, GoodsTyped
<1>4. torn' \subseteq Units
  <2>1. AttemptFails(m) \/ WorkerDies(m) => torn' = torn \cup turn[m].made
    BY DEF AttemptFails, WorkerDies, Drop
  <2>2. (AttemptFails(m) \/ WorkerDies(m)) \/ torn' = torn
    BY <1>1, GoodsMove
  <2> QED BY <1>2, <2>1, <2>2 DEF SoundTurn, GoodsTyped
<1>5. \A o \in orders' : o.units \subseteq Units /\ o.by \in Msgs /\ o.try \in 0..(MaxTries - 1)
  <2>1. CASE orders' = orders
    BY <2>1 DEF GoodsTyped
  <2>2. CASE CreateOrder(m)
    <3>1. PICK units \in SUBSET turn[m].cart : orders' = orders \cup {Ordered(m, units)}
      BY <2>2, CreateOrderOrders
    <3>2. units \subseteq Units
      BY <1>2 DEF SoundTurn
    <3>3. job[m] = "active"
      BY <2>2 DEF CreateOrder, Runs, At, TurnsSound
    <3>4. tries[m] \in 0..MaxTries /\ tries[m] < MaxTries
      BY <3>3 DEF JobsTyped
    <3>5. tries[m] \in 0..(MaxTries - 1)
      <4> HIDE DEF TypeInv
      <4> QED BY <3>4, ConfigType, SMT
    <3> QED BY <3>1, <3>2, <3>5 DEF GoodsTyped, Ordered
  <2> QED BY <1>1, <2>1, <2>2, GoodsMove
<1> QED BY <1>3, <1>4, <1>5 DEF GoodsTyped

LEMMA TypeInvStutters == TypeInv /\ UNCHANGED vars => TypeInv'
BY DEF vars, turnVars, TypeInv, TurnsSound, JobsTyped, CallsTyped, ClientTypeOK, GoodsTyped

LEMMA TypeInvAlways == Spec => []TypeInv
<1>1. TypeInv /\ [Next]_vars => TypeInv'
  <2> SUFFICES ASSUME TypeInv, [Next]_vars PROVE TypeInv'
    OBVIOUS
  <2>1. CASE Next
    BY <2>1, TurnsStep, JobsStep, CallsStep, GoodsStep DEF TypeInv
  <2>2. CASE UNCHANGED vars
    BY <2>2, TypeInvStutters
  <2> QED BY <2>1, <2>2
<1> QED BY TypeInvInit, <1>1, PTL DEF Spec

(* Rounds, attempts, requests and the cart stay within their bounds: no    *)
(* turn asks the model more than MaxRounds times, no call has more than    *)
(* Attempts requests, no cart is larger than the stock it was filled from  *)
(* (agent.ts:160, retry.ts:31-58, tools.ts:151).                           *)
THEOREM AgentTypeCorrect == Spec => []TypeOK
BY TypeInvAlways, TypeInvImpliesTypeOK, PTL

-----------------------------------------------------------------------------
(* With one turn at a time and no attempt that broke off with an order     *)
(* placed: what is ordered is gone from the carts, but for the stored one  *)
(* until the turn writes it back.                                          *)

AloneInv == ~overlapped => \A m, n \in Active : m = n

GoneInv ==
  ~overlapped =>
    \A o \in orders : \A u \in o.units \ torn :
      /\ \A m \in Msgs : u \notin turn[m].cart
      /\ u \in cart => \E m \in Msgs : u \in turn[m].made

OnceInv ==
  ~overlapped => \A o, p \in orders : \A u \in (o.units \cap p.units) \ torn : o = p

OrderInv == AloneInv /\ GoneInv /\ OnceInv

LEMMA OrderInvInit == Init => OrderInv
BY DEF Init, OrderInv, AloneInv, GoneInv, OnceInv, Active

LEMMA OrderInvImplies == TypeInv /\ OrderInv => OrderedOnce
<1> SUFFICES ASSUME TypeInv, OrderInv, ~overlapped, NEW u \in Units \ torn
             PROVE  Cardinality({o \in orders : u \in o.units}) <= 1
  BY DEF OrderedOnce
<1> DEFINE O == {o \in orders : u \in o.units}
<1>1. \A o, p \in O : o = p
  BY DEF OrderInv, OnceInv
<1>2. CASE O = {}
  BY <1>2, FS_EmptySet, SMT
<1>3. CASE O # {}
  <2>1. PICK o : O = {o}
    BY <1>1, <1>3
  <2>2. Cardinality({o}) = 1
    BY FS_Singleton
  <2>3. Cardinality(O) = 1
    BY <2>1, <2>2
  <2> QED BY <2>3, SMT
<1> QED BY <1>2, <1>3

(* Who has goods in a turn is active, and alone with them.                 *)
LEMMA BusyAlone ==
  ASSUME TurnsSound, AloneInv, ~overlapped, NEW m \in Msgs, NEW n \in Msgs,
         turn[m].pc # "idle", turn[n].cart # {} \/ turn[n].made # {}
  PROVE  m = n
<1>1. turn[n].pc # "idle"
  BY DEF TurnsSound, SoundTurn, Early
<1>2. m \in Active /\ n \in Active
  BY <1>1 DEF TurnsSound, Active
<1> QED BY <1>2 DEF AloneInv

LEMMA AloneStep ==
  ASSUME TypeInv, AloneInv, Next
  PROVE  AloneInv'
<1> USE DEF TypeInv
<1>1. PICK m \in Msgs :
        \/ Arrive(m) \/ Take(m) \/ Inside(m)
        \/ (Send(m) /\ turn[m].said.words = {}) \/ Close(m)
        \/ Wait(m) \/ AttemptFails(m) \/ WorkerDies(m)
  BY StepCases
<1>2. CASE Take(m)
  <2>1. /\ overlapped' = (overlapped \/ Active # {})
        /\ job' = [job EXCEPT ![m] = "active"]
    BY <1>2 DEF Take
  <2>2. ~overlapped' => \A n \in Msgs : job'[n] = "active" => n = m
    BY <2>1 DEF Active, JobsTyped
  <2> QED BY <2>2 DEF AloneInv, Active
<1>3. CASE ~Take(m)
  <2>1. overlapped' = overlapped
    BY <1>1, <1>3, GoodsMove
  <2>2. \A n \in Msgs : job'[n] = "active" => job[n] = "active"
    <3>1. job' = job \/ \E state \in {"wait", "done", "failed"} : job' = [job EXCEPT ![m] = state]
      <4>1. CASE Inside(m)
        BY <4>1, InsideJobs
      <4>2. CASE ~Inside(m)
        BY <1>1, <1>3, <4>2 DEF Arrive, Send, Close, Finish, Wait, turnVars, AttemptFails,
           WorkerDies, Drop
      <4> QED BY <4>1, <4>2
    <3> QED BY <3>1 DEF JobsTyped
  <2> QED BY <2>1, <2>2 DEF AloneInv, Active
<1> QED BY <1>2, <1>3

(* A turn that changes while the orders stay.                              *)
LEMMA GoneKept ==
  ASSUME GoneInv, TurnsSound, NEW m \in Msgs, NEW u,
         orders' = orders, torn \subseteq torn',
         turn' = [turn EXCEPT ![m] = u],
         ~overlapped' => ~overlapped,
         ~overlapped' => \A o \in orders : \A x \in o.units \ torn' :
           /\ x \notin u.cart
           /\ x \in cart' => \/ \E n \in Msgs \ {m} : x \in turn[n].made
                             \/ x \in u.made
  PROVE  GoneInv'
<1> SUFFICES ASSUME ~overlapped', NEW o \in orders, NEW x \in o.units \ torn'
             PROVE  /\ \A n \in Msgs : x \notin turn'[n].cart
                    /\ x \in cart' => \E n \in Msgs : x \in turn'[n].made
  BY DEF GoneInv
<1>1. \A n \in Msgs : turn'[n] = IF n = m THEN u ELSE turn[n]
  BY DEF TurnsSound
<1>2. \A n \in Msgs : x \notin turn[n].cart
  BY DEF GoneInv
<1> QED BY <1>1, <1>2

LEMMA GoneStep ==
  ASSUME TypeInv, AloneInv, GoneInv, Next
  PROVE  GoneInv'
<1> USE DEF TypeInv
<1>1. PICK m \in Msgs :
        \/ Arrive(m) \/ Take(m) \/ Inside(m)
        \/ (Send(m) /\ turn[m].said.words = {}) \/ Close(m)
        \/ Wait(m) \/ AttemptFails(m) \/ WorkerDies(m)
  BY StepCases
<1>2. ~overlapped' => ~overlapped
  <2>1. Take(m) => overlapped' = (overlapped \/ Active # {})
    BY DEF Take
  <2> QED BY <1>1, <2>1, GoodsMove
<1>3. SoundTurn(turn[m]) /\ DOMAIN turn = Msgs
  BY DEF TurnsSound
(* The turn's goods and the stored cart are what they were.                *)
<1>4. ASSUME NEW u, turn' = [turn EXCEPT ![m] = u], u.made = turn[m].made,
             cart' = cart, orders' = orders, torn' = torn,
             u.cart = turn[m].cart \/ \E x \in Free : u.cart = turn[m].cart \cup {x}
      PROVE  GoneInv'
  <2>1. ASSUME ~overlapped, NEW o \in orders, NEW x \in o.units \ torn
        PROVE  /\ x \notin u.cart
               /\ x \in cart => (\E n \in Msgs \ {m} : x \in turn[n].made) \/ x \in u.made
    <3>1. x \notin Free
      BY <2>1 DEF Free
    <3>2. x \notin turn[m].cart /\ (x \in cart => \E n \in Msgs : x \in turn[n].made)
      BY <2>1 DEF GoneInv
    <3>3. x \notin u.cart
      BY <1>4, <3>1, <3>2
    <3>4. CASE x \in cart
      <4>1. PICK n \in Msgs : x \in turn[n].made
        BY <3>2, <3>4
      <4> QED BY <1>4, <3>3, <4>1
    <3> QED BY <3>3, <3>4
  <2>2. torn \subseteq torn' /\ orders' = orders /\ turn' = [turn EXCEPT ![m] = u]
    BY <1>4
  <2>3. ~overlapped' => \A o \in orders : \A x \in o.units \ torn' :
          /\ x \notin u.cart
          /\ x \in cart' => (\E n \in Msgs \ {m} : x \in turn[n].made) \/ x \in u.made
    BY <1>2, <1>4, <2>1
  <2> QED BY <1>2, <2>2, <2>3, GoneKept DEF TypeInv
<1>5. ASSUME orders' = orders, turn' = turn, cart' = cart, torn' = torn
      PROVE  GoneInv'
  BY <1>2, <1>5 DEF GoneInv
<1>6. CASE Arrive(m) \/ Wait(m)
  BY <1>5, <1>6 DEF Arrive, Wait, turnVars
<1>7. CASE Take(m)
  <2>1. PICK step \in {"voice", "history"} : Go(m, step)
    BY <1>7 DEF Take
  <2>2. turn[m].pc = "idle"
    BY <1>7 DEF Take, TurnsSound
  <2>3. PICK u : Becomes(m, u) /\ Kept(m, u)
    BY <2>1, <2>2, GoKeeps DEF Early, Steps
  <2>4. cart' = cart /\ orders' = orders /\ torn' = torn
    BY <1>7 DEF Take
  <2> QED BY <1>4, <2>3, <2>4 DEF Becomes, Kept
<1>8. CASE PlainStep(m) \/ (Send(m) /\ turn[m].said.words # {})
  <2>1. PICK u : Becomes(m, u) /\ Kept(m, u)
    <3>1. CASE PlainStep(m)
      BY <3>1, PlainKeeps
    <3>2. CASE Send(m) /\ turn[m].said.words # {}
      <4>1. Go(m, "record") /\ turn[m].pc = "send"
        BY <3>2 DEF Send, At
      <4> QED BY <4>1, GoKeeps DEF Late, Steps
    <3> QED BY <1>8, <3>1, <3>2
  <2>2. cart' = cart /\ orders' = orders /\ torn' = torn
    BY <1>8, Zenon DEF PlainStep, Transcribe, LoadHistory, RouterAnswers, CallTools, Reply,
       OrderRefused, Escalate, Look, Record, Send
  <2> QED BY <1>4, <2>1, <2>2 DEF Becomes, Kept
<1>9. CASE AddToCart(m)
  <2>1. PICK u : /\ Becomes(m, u) /\ u.made = turn[m].made
                 /\ u.cart = turn[m].cart \/ \E x \in Free : u.cart = turn[m].cart \cup {x}
    BY <1>9, AddToCartAdds
  <2>2. cart' = cart /\ orders' = orders /\ torn' = torn
    BY <1>9 DEF AddToCart
  <2> QED BY <1>4, <2>1, <2>2 DEF Becomes
<1>10. CASE LoadCart(m)
  <2>1. PICK u : Becomes(m, u) /\ u.cart = cart /\ u.made = {}
    BY <1>10, LoadCartLoads
  <2>2. cart' = cart /\ orders' = orders /\ torn' = torn /\ turn[m].pc = "load"
    BY <1>10 DEF LoadCart, At
  <2>3. ASSUME ~overlapped, NEW o \in orders, NEW x \in o.units \ torn
        PROVE  x \notin cart
    <3>1. SUFFICES ASSUME x \in cart PROVE FALSE
      OBVIOUS
    <3>2. PICK n \in Msgs : x \in turn[n].made
      BY <2>3, <3>1 DEF GoneInv
    <3>3. m = n
      BY <2>2, <2>3, <3>2, BusyAlone
    <3>4. turn[m].made = {}
      BY <1>3, <2>2 DEF SoundTurn, Early
    <3> QED BY <3>2, <3>3, <3>4
  <2>4. turn' = [turn EXCEPT ![m] = u] /\ torn \subseteq torn'
    BY <2>1, <2>2 DEF Becomes
  <2>5. ~overlapped' => \A o \in orders : \A x \in o.units \ torn' :
          /\ x \notin u.cart
          /\ x \in cart' => (\E n \in Msgs \ {m} : x \in turn[n].made) \/ x \in u.made
    BY <1>2, <2>1, <2>2, <2>3
  <2> QED BY <1>2, <2>2, <2>4, <2>5, GoneKept DEF TypeInv
<1>11. CASE StoreCart(m)
  <2>1. PICK u : Becomes(m, u) /\ u.cart = turn[m].cart /\ u.made = {}
    BY <1>11, StoreCartStores
  <2>2. cart' = turn[m].cart /\ orders' = orders /\ torn' = torn
    BY <1>11 DEF StoreCart
  <2>3. turn' = [turn EXCEPT ![m] = u] /\ torn \subseteq torn'
    BY <2>1, <2>2 DEF Becomes
  <2>4. ~overlapped' => \A o \in orders : \A x \in o.units \ torn' :
          x \notin u.cart /\ x \notin cart'
    BY <1>2, <2>1, <2>2 DEF GoneInv
  <2> QED BY <1>2, <2>2, <2>3, <2>4, GoneKept DEF TypeInv
(* A turn ends: what it ordered is in the stored cart no more, or torn.    *)
<1>12. ASSUME turn' = [turn EXCEPT ![m] = NoTurn], cart' = cart, orders' = orders,
              torn \subseteq torn', turn[m].made \subseteq torn'
       PROVE  GoneInv'
  <2>1. NoTurn.cart = {} /\ NoTurn.made = {}
    BY DEF NoTurn
  <2>2. ASSUME ~overlapped, NEW o \in orders, NEW x \in o.units \ torn', x \in cart
        PROVE  \E n \in Msgs \ {m} : x \in turn[n].made
    <3>1. PICK n \in Msgs : x \in turn[n].made
      BY <1>12, <2>2 DEF GoneInv
    <3> QED BY <1>12, <2>2, <3>1
  <2>3. ~overlapped' => \A o \in orders : \A x \in o.units \ torn' :
          /\ x \notin NoTurn.cart
          /\ x \in cart' => (\E n \in Msgs \ {m} : x \in turn[n].made) \/ x \in NoTurn.made
    BY <1>2, <1>12, <2>1, <2>2
  <2> QED BY <1>2, <1>12, <2>3, GoneKept DEF TypeInv
<1>13. CASE (Send(m) /\ turn[m].said.words = {}) \/ Close(m)
  <2>1. /\ turn' = [turn EXCEPT ![m] = NoTurn] /\ cart' = cart /\ orders' = orders
        /\ torn' = torn /\ turn[m].pc \in Late
    BY <1>13 DEF Send, Close, Finish, At, Late
  <2>2. turn[m].made = {}
    BY <1>3, <2>1 DEF SoundTurn
  <2> QED BY <1>12, <2>1, <2>2
<1>14. CASE AttemptFails(m) \/ WorkerDies(m)
  <2>1. /\ turn' = [turn EXCEPT ![m] = NoTurn] /\ cart' = cart /\ orders' = orders
        /\ torn' = torn \cup turn[m].made
    BY <1>14 DEF AttemptFails, WorkerDies, Drop
  <2> QED BY <1>12, <2>1
<1>15. CASE CreateOrder(m)
  <2>0. PICK units \in SUBSET turn[m].cart : \E u :
          /\ Becomes(m, u) /\ u.cart = {} /\ u.made = turn[m].made \cup units
          /\ orders' = orders \cup {Ordered(m, units)}
    BY <1>15, CreateOrderOrders
  <2>1. PICK u :
          /\ Becomes(m, u) /\ u.cart = {} /\ u.made = turn[m].made \cup units
          /\ orders' = orders \cup {Ordered(m, units)}
    BY <2>0
  <2>2. cart' = cart /\ torn' = torn /\ overlapped' = overlapped /\ turn[m].pc = "tools"
    BY <1>15 DEF CreateOrder, Runs, At
  <2>3. \A n \in Msgs : turn'[n] = IF n = m THEN u ELSE turn[n]
    BY <1>3, <2>1 DEF Becomes
  <2>4. SUFFICES ASSUME ~overlapped, NEW o \in orders', NEW x \in o.units \ torn
                 PROVE  /\ \A n \in Msgs : x \notin turn'[n].cart
                        /\ x \in cart => \E n \in Msgs : x \in turn'[n].made
    BY <2>2 DEF GoneInv
  <2>5. CASE o = Ordered(m, units)
    <3>1. x \in units
      BY <2>4, <2>5 DEF Ordered
    <3>2. \A n \in Msgs \ {m} : x \notin turn[n].cart
      <4>1. SUFFICES ASSUME NEW n \in Msgs \ {m}, x \in turn[n].cart PROVE FALSE
        OBVIOUS
      <4> QED BY <2>2, <2>4, <4>1, BusyAlone
    <3> QED BY <2>1, <2>3, <3>1, <3>2
  <2>6. CASE o \in orders
    <3>1. /\ \A n \in Msgs : x \notin turn[n].cart
          /\ x \in cart => \E n \in Msgs : x \in turn[n].made
      BY <2>4, <2>6 DEF GoneInv
    <3> QED BY <2>1, <2>3, <3>1
  <2> QED BY <2>1, <2>4, <2>5, <2>6
<1> QED BY <1>1, <1>6, <1>7, <1>8, <1>9, <1>10, <1>11, <1>13, <1>14, <1>15 DEF Inside

LEMMA OnceStep ==
  ASSUME TypeInv, GoneInv, OnceInv, Next
  PROVE  OnceInv'
<1> USE DEF TypeInv
<1>1. PICK m \in Msgs :
        \/ Arrive(m) \/ Take(m) \/ Inside(m)
        \/ (Send(m) /\ turn[m].said.words = {}) \/ Close(m)
        \/ Wait(m) \/ AttemptFails(m) \/ WorkerDies(m)
  BY StepCases
<1>2. ~overlapped' => ~overlapped
  <2>1. Take(m) => overlapped' = (overlapped \/ Active # {})
    BY DEF Take
  <2> QED BY <1>1, <2>1, GoodsMove
<1>3. torn \subseteq torn'
  <2>1. AttemptFails(m) \/ WorkerDies(m) => torn' = torn \cup turn[m].made
    BY DEF AttemptFails, WorkerDies, Drop
  <2> QED BY <1>1, <2>1, GoodsMove
<1>4. CASE orders' = orders
  BY <1>2, <1>3, <1>4 DEF OnceInv
<1>5. CASE CreateOrder(m)
  <2>1. PICK units \in SUBSET turn[m].cart : orders' = orders \cup {Ordered(m, units)}
    BY <1>5, CreateOrderOrders
  <2>2. Ordered(m, units).units = units
    BY DEF Ordered
  <2>3. ~overlapped => \A p \in orders : \A x \in p.units \ torn : x \notin units
    BY <2>1 DEF GoneInv
  <2> QED BY <1>2, <1>3, <2>1, <2>2, <2>3 DEF OnceInv
<1> QED BY <1>1, <1>4, <1>5, GoodsMove

LEMMA OrderInvAlways == Spec => []OrderInv
<1>1. TypeInv /\ OrderInv /\ [Next]_vars => OrderInv'
  <2> SUFFICES ASSUME TypeInv, OrderInv, [Next]_vars PROVE OrderInv'
    OBVIOUS
  <2>1. CASE Next
    BY <2>1, AloneStep, GoneStep, OnceStep DEF OrderInv
  <2>2. CASE UNCHANGED vars
    BY <2>2 DEF vars, turnVars, OrderInv, AloneInv, GoneInv, OnceInv, Active
  <2> QED BY <2>1, <2>2
<1> QED BY OrderInvInit, TypeInvAlways, <1>1, PTL DEF Spec

(* What a customer put into the cart is ordered once, in however many      *)
(* turns, rounds and calls, unless turns overlapped or an attempt broke    *)
(* off between the order and the stored cart (tools.ts:263-266,            *)
(* agent.ts:254-262).                                                      *)
THEOREM NothingOrderedTwice == Spec => []OrderedOnce
BY TypeInvAlways, OrderInvAlways, OrderInvImplies, PTL

-----------------------------------------------------------------------------
(* The replies.  Where the history of a turn stands when its text is       *)
(* judged, and what is known of the text from then on.                     *)

Asks == {"router", "load", "think", "tools"}
Says == {"store", "send"}

Fresh(t, r) ==
  t.pc \in Asks => Ours(t.seen) = Ours(r) /\ \A i \in Ours(r) : t.seen[i] = r[i]

Told(t, r) ==
  t.pc \in Says \cup {"record"} /\ ~t.said.marked /\ ~t.escalated =>
    \A words \in Recent(r) : ~Similar(words, t.said.words)

Mentioned(t, silent) == t.pc \in Says /\ t.said.words = {} => silent

IsSeq(s) == \E S : s \in Seq(S)

Replied == {m \in Done : ~mute[m]} \cup {m \in Msgs : turn[m].pc = "close"}

TalkInv ==
  /\ IsSeq(rows)
  /\ mute \in [Msgs -> BOOLEAN]
  /\ \A m \in Msgs : Mentioned(turn[m], mute[m])
  /\ Cardinality(Ours(rows)) >= Cardinality(Replied)
  /\ ~overlapped => \A m \in Msgs : Fresh(turn[m], rows) /\ Told(turn[m], rows)
  /\ NoLoop

LEMMA SameRecent ==
  ASSUME NEW s, NEW r, Ours(s) = Ours(r), \A i \in Ours(r) : s[i] = r[i]
  PROVE  Recent(s) = Recent(r)
<1>1. LastFour(Ours(s)) = LastFour(Ours(r)) /\ LastFour(Ours(r)) \subseteq Ours(r)
  BY DEF LastFour
<1> QED BY <1>1 DEF Recent

LEMMA TextAssumption ==
  /\ IsFiniteSet(Msgs)
  /\ \A t \in Texts : t.marked \in BOOLEAN /\ (t.words = {} => t.marked)
  /\ HandOverText # {} /\ FallbackText # {} /\ LoopText # {}
BY AgentTurnAssumption DEF AgentTurnAssumption

(* A text that is concluded says something unless it is but marks; without *)
(* marks and a hand-over it is like none of the recent replies.            *)
LEMMA ConcludedTalks ==
  ASSUME NEW t, DOMAIN t = Fields, NEW text \in Texts \cup {Silence}
  PROVE  LET u == Concluded(t, text)
         IN /\ u.pc \in Says
            /\ u.said.words = {} => Mutes(t, text)
            /\ ~u.said.marked /\ ~u.escalated =>
                 \A words \in Recent(t.seen) : ~Similar(words, u.said.words)
<1> DEFINE u == Concluded(t, text)
           looped == ~t.escalated /\ Repeats(t, text)
           f == FinalText(t, text)
<1>1. /\ u.pc \in Says
      /\ u.escalated = (t.escalated \/ looped)
      /\ u.said = IF looped THEN Fixed(LoopText) ELSE f
  <2> HIDE DEF f
  <2> QED BY SMT DEF Concluded, Fields, Says, IsDirty, f
<1>2. f.words = {} => text.marked
  BY TextAssumption, SMT DEF FinalText, Fixed, Silence
<1>3. Fixed(LoopText).words # {}
  BY TextAssumption DEF Fixed
<1>4. u.said.words = {} => Mutes(t, text)
  <2> HIDE DEF f
  <2> QED BY <1>1, <1>2, <1>3 DEF Mutes
<1>5. ASSUME ~u.said.marked, ~u.escalated, NEW words \in Recent(t.seen)
      PROVE  ~Similar(words, u.said.words)
  <2> HIDE DEF u, f
  <2>1. ~looped /\ ~t.escalated /\ u.said = f /\ ~Repeats(t, text)
    BY <1>1, <1>5
  <2>2. AllWords(f) = f.words
    BY <1>5, <2>1 DEF AllWords
  <2>3. ~Similar(f.words, words)
    BY <1>5, <2>1, <2>2 DEF Repeats, f
  <2>4. f.words \cap words = words \cap f.words /\ f.words \cup words = words \cup f.words
    OBVIOUS
  <2> QED BY <2>1, <2>3, <2>4 DEF Similar
<1> QED BY <1>1, <1>4, <1>5

(* What a step that leaves the conversation alone makes of the turn of m.  *)
Talks(m, u) ==
  /\ turn' = [turn EXCEPT ![m] = u]
  /\ u.pc \notin {"idle", "close"}
  /\ mute' \in [Msgs -> BOOLEAN] /\ \A n \in Msgs \ {m} : mute'[n] = mute[n]
  /\ Mentioned(u, mute'[m])
  /\ Fresh(turn[m], rows) /\ Told(turn[m], rows) => Fresh(u, rows) /\ Told(u, rows)

LEMMA ConcludeTalks ==
  ASSUME NEW m \in Msgs, NEW t, NEW text \in Texts \cup {Silence}, TalkInv,
         DOMAIN turn = Msgs, DOMAIN t = Fields,
         turn[m].pc \in Asks, t.seen = turn[m].seen, Conclude(m, t, text)
  PROVE  \E u : Talks(m, u)
<1> DEFINE u == Concluded(t, text)
<1>1. /\ turn' = [turn EXCEPT ![m] = u]
      /\ mute' = [mute EXCEPT ![m] = Mutes(t, text)]
  BY DEF Conclude
<1>2. /\ u.pc \in Says
      /\ u.said.words = {} => Mutes(t, text)
      /\ ~u.said.marked /\ ~u.escalated =>
           \A words \in Recent(t.seen) : ~Similar(words, u.said.words)
  BY ConcludedTalks
<1>3. Mutes(t, text) \in BOOLEAN
  BY TextAssumption, SMT DEF Mutes, Silence
<1> HIDE DEF u
<1>4. /\ mute' \in [Msgs -> BOOLEAN] /\ \A n \in Msgs \ {m} : mute'[n] = mute[n]
      /\ mute'[m] = Mutes(t, text)
  BY <1>1, <1>3 DEF TalkInv
<1>5. Mentioned(u, mute'[m])
  BY <1>2, <1>4 DEF Mentioned
<1>6. ASSUME Fresh(turn[m], rows)
      PROVE  Fresh(u, rows) /\ Told(u, rows)
  <2>1. Recent(t.seen) = Recent(rows)
    BY <1>6, SameRecent DEF Fresh
  <2> QED BY <1>2, <2>1 DEF Fresh, Told, Says, Asks
<1> QED BY <1>1, <1>2, <1>4, <1>5, <1>6 DEF Talks, Says

(* A turn that goes on, its history and what it says untouched.            *)
LEMMA MoveTalks ==
  ASSUME NEW m \in Msgs, NEW u, TalkInv, mute' = mute, turn' = [turn EXCEPT ![m] = u],
         u.pc \notin {"idle", "close"},
         \/ u.pc \in {"voice", "history"}
         \/ u.pc \in Asks /\ turn[m].pc \in Asks /\ u.seen = turn[m].seen
         \/ /\ u.pc \in Says \cup {"record"} /\ turn[m].pc \in Says
            /\ u.said = turn[m].said /\ u.escalated = turn[m].escalated
  PROVE  Talks(m, u)
<1>1. mute' \in [Msgs -> BOOLEAN] /\ \A n \in Msgs \ {m} : mute'[n] = mute[n]
  BY DEF TalkInv
<1>2. Mentioned(turn[m], mute[m])
  BY DEF TalkInv
<1>3. Mentioned(u, mute'[m])
  BY <1>2 DEF Mentioned, Says, Asks
<1>4. Fresh(turn[m], rows) /\ Told(turn[m], rows) => Fresh(u, rows) /\ Told(u, rows)
  BY DEF Fresh, Told, Says, Asks
<1> QED BY <1>1, <1>3, <1>4 DEF Talks

LEMMA ProceedsTalks ==
  ASSUME NEW m \in Msgs, NEW t, TalkInv, DOMAIN turn = Msgs, DOMAIN t = Fields,
         turn[m].pc = "tools", t.pc = "tools", t.seen = turn[m].seen, Proceeds(m, t)
  PROVE  \E u : Talks(m, u)
<1> DEFINE r == Responded(t)
<1>1. DOMAIN r = Fields /\ r.pc = "tools" /\ r.seen = turn[m].seen
  BY SMT DEF Responded, Fields
<1> HIDE DEF r
<1>2. CASE r.todo # <<>>
  <2>1. turn' = [turn EXCEPT ![m] = r] /\ mute' = mute
    BY <1>2 DEF Proceeds, r
  <2> QED BY <1>1, <2>1, MoveTalks DEF Asks
<1>3. CASE r.todo = <<>> /\ LastRound(r)
  <2>1. Conclude(m, r, Silence)
    BY <1>3 DEF Proceeds, r
  <2> QED BY <1>1, <2>1, ConcludeTalks DEF Asks
<1>4. CASE r.todo = <<>> /\ ~LastRound(r)
  <2> DEFINE u == [r EXCEPT !.pc = "think", !.round = @ + 1]
  <2>1. turn' = [turn EXCEPT ![m] = u] /\ mute' = mute
    BY <1>4 DEF Proceeds, r
  <2>2. u.pc = "think" /\ u.seen = turn[m].seen
    BY <1>1, SMT DEF Fields
  <2> HIDE DEF u
  <2> QED BY <2>1, <2>2, MoveTalks DEF Asks
<1> QED BY <1>2, <1>3, <1>4

(* The steps inside a turn that leave the conversation alone.              *)
LEMMA InsideTalks ==
  ASSUME NEW m \in Msgs, TypeInv, TalkInv, Inside(m), ~Record(m)
  PROVE  \E u : Talks(m, u)
<1>1. /\ DOMAIN turn = Msgs /\ DOMAIN turn[m] = Fields /\ turn[m].pc \in Steps
      /\ SoundTurn(turn[m])
  BY DEF TypeInv, TurnsSound, SoundTurn
<1>2. CASE Transcribe(m)
  <2> DEFINE u == [turn[m] EXCEPT !.pc = "history"]
  <2>1. turn' = [turn EXCEPT ![m] = u] /\ mute' = mute
    BY <1>2 DEF Transcribe, Go
  <2>2. u.pc = "history"
    BY <1>1 DEF Fields
  <2> HIDE DEF u
  <2> QED BY <2>1, <2>2, MoveTalks
<1>3. CASE LoadHistory(m)
  <2> DEFINE r == KeywordRoute(m)
             step == IF r = "none" THEN "router" ELSE "load"
             u == [turn[m] EXCEPT !.pc = step, !.seen = rows, !.route = r]
  <2>1. turn' = [turn EXCEPT ![m] = u] /\ mute' = mute
    BY <1>3 DEF LoadHistory
  <2>2. u.pc \in {"router", "load"} /\ u.seen = rows
    <3> HIDE DEF r
    <3> QED BY <1>1, SMT DEF Fields
  <2> HIDE DEF u
  <2>3. Fresh(u, rows) /\ Told(u, rows) /\ Mentioned(u, mute'[m])
    BY <2>2, SMT DEF Fresh, Told, Mentioned, Says
  <2>4. u.pc \notin {"idle", "close"} /\ mute' \in [Msgs -> BOOLEAN]
    BY <2>1, <2>2 DEF TalkInv
  <2> QED BY <2>1, <2>3, <2>4 DEF Talks
<1>4. CASE RouterAnswers(m)
  <2>1. PICK r \in Routes : turn' = [turn EXCEPT ![m].pc = "load", ![m].route = r]
    BY <1>4 DEF RouterAnswers
  <2> DEFINE u == [turn[m] EXCEPT !.pc = "load", !.route = r]
  <2>2. turn' = [turn EXCEPT ![m] = u] /\ mute' = mute /\ turn[m].pc = "router"
    BY <1>4, <2>1 DEF RouterAnswers, At
  <2>3. u.pc = "load" /\ u.seen = turn[m].seen
    BY <1>1, SMT DEF Fields
  <2> HIDE DEF u
  <2> QED BY <2>2, <2>3, MoveTalks DEF Asks
<1>5. CASE LoadCart(m)
  <2> DEFINE c == BuildContents(turn[m].seen) \o Directive(m)
             u == [turn[m] EXCEPT !.pc = "think", !.cart = cart, !.contents = c]
  <2>1. turn' = [turn EXCEPT ![m] = u] /\ mute' = mute /\ turn[m].pc = "load"
    BY <1>5 DEF LoadCart, At
  <2> HIDE DEF c
  <2>2. u.pc = "think" /\ u.seen = turn[m].seen
    BY <1>1, SMT DEF Fields
  <2> HIDE DEF u
  <2> QED BY <2>1, <2>2, MoveTalks DEF Asks
<1>6. CASE CallTools(m)
  <2>1. PICK names \in Batches :
          LET calls == Numbered(names, turn[m].nth)
          IN turn' = [turn EXCEPT ![m].pc = "tools", ![m].todo = calls,
                                  ![m].contents = @ \o calls, ![m].nth = @ + Len(calls)]
    BY <1>6 DEF CallTools
  <2> DEFINE calls == Numbered(names, turn[m].nth)
             u == [turn[m] EXCEPT !.pc = "tools", !.todo = calls,
                                  !.contents = @ \o calls, !.nth = @ + Len(calls)]
  <2>2. turn' = [turn EXCEPT ![m] = u]
    <3> HIDE DEF calls
    <3> QED BY <2>1 DEF calls
  <2>3. mute' = mute /\ turn[m].pc = "think"
    BY <1>6 DEF CallTools, At
  <2> HIDE DEF calls
  <2>4. u.pc = "tools" /\ u.seen = turn[m].seen
    BY <1>1, SMT DEF Fields
  <2> HIDE DEF u
  <2> QED BY <2>2, <2>3, <2>4, MoveTalks DEF Asks
<1>7. CASE Reply(m)
  <2>1. PICK text \in Texts \cup {Silence} : Conclude(m, turn[m], text)
    BY <1>7 DEF Reply
  <2>2. turn[m].pc = "think"
    BY <1>7 DEF Reply, At
  <2> QED BY <1>1, <2>1, <2>2, ConcludeTalks DEF Asks
<1>8. CASE OrderRefused(m) \/ Look(m)
  <2>1. turn[m].pc = "tools" /\ Proceeds(m, turn[m])
    BY <1>8 DEF OrderRefused, Look, Runs, At
  <2> QED BY <1>1, <2>1, ProceedsTalks
<1>9. CASE Escalate(m)
  <2> DEFINE t == [turn[m] EXCEPT !.escalated = TRUE]
  <2>1. turn[m].pc = "tools" /\ Proceeds(m, t)
    BY <1>9 DEF Escalate, Runs, At
  <2>2. DOMAIN t = Fields /\ t.pc = turn[m].pc /\ t.seen = turn[m].seen
    BY <1>1, SMT DEF Fields
  <2> HIDE DEF t
  <2> QED BY <1>1, <2>1, <2>2, ProceedsTalks
<1>10. CASE AddToCart(m)
  <2>1. turn[m].pc = "tools"
    BY <1>10 DEF AddToCart, Runs, At
  <2> DEFINE t == [turn[m] EXCEPT !.cart = @ \cup {NextUnit}, !.dirty = TRUE]
  <2>2. Proceeds(m, t) \/ Proceeds(m, turn[m])
    BY <1>10 DEF AddToCart
  <2>3. DOMAIN t = Fields /\ t.pc = turn[m].pc /\ t.seen = turn[m].seen
    BY <1>1, SMT DEF Fields
  <2> HIDE DEF t
  <2> QED BY <1>1, <2>1, <2>2, <2>3, ProceedsTalks
<1>11. CASE CreateOrder(m)
  <2>1. turn[m].pc = "tools"
    BY <1>11 DEF CreateOrder, Runs, At
  <2>2. PICK units \in SUBSET turn[m].cart \ {{}} :
          Proceeds(m, [turn[m] EXCEPT !.cart = {}, !.dirty = TRUE, !.made = @ \cup units])
    BY <1>11 DEF CreateOrder
  <2> DEFINE t == [turn[m] EXCEPT !.cart = {}, !.dirty = TRUE, !.made = @ \cup units]
  <2>3. DOMAIN t = Fields /\ t.pc = turn[m].pc /\ t.seen = turn[m].seen
    BY <1>1, SMT DEF Fields
  <2>4. Proceeds(m, t)
    BY <2>2
  <2> HIDE DEF t
  <2> QED BY <1>1, <2>1, <2>3, <2>4, ProceedsTalks
<1>12. CASE StoreCart(m)
  <2> DEFINE u == [turn[m] EXCEPT !.pc = "send", !.made = {}]
  <2>1. turn' = [turn EXCEPT ![m] = u] /\ mute' = mute /\ turn[m].pc = "store"
    BY <1>12 DEF StoreCart, At
  <2>2. u.pc = "send" /\ u.said = turn[m].said /\ u.escalated = turn[m].escalated
    BY <1>1, SMT DEF Fields
  <2> HIDE DEF u
  <2> QED BY <2>1, <2>2, MoveTalks DEF Says
<1>13. CASE Send(m) /\ turn[m].said.words # {}
  <2> DEFINE u == [turn[m] EXCEPT !.pc = "record"]
  <2>1. turn' = [turn EXCEPT ![m] = u] /\ mute' = mute /\ turn[m].pc = "send"
    BY <1>13 DEF Send, Go, At
  <2>2. u.pc = "record" /\ u.said = turn[m].said /\ u.escalated = turn[m].escalated
    BY <1>1, SMT DEF Fields
  <2> HIDE DEF u
  <2> QED BY <2>1, <2>2, MoveTalks DEF Says
<1> QED BY <1>2, <1>3, <1>4, <1>5, <1>6, <1>7, <1>8, <1>9, <1>10, <1>11, <1>12, <1>13
        DEF Inside, PlainStep

LEMMA InsideRows ==
  ASSUME NEW m \in Msgs, Inside(m), ~Record(m)
  PROVE  rows' = rows
BY Zenon DEF Inside, PlainStep, Transcribe, LoadHistory, RouterAnswers, CallTools, Reply,
   OrderRefused, Escalate, Look, LoadCart, AddToCart, CreateOrder, StoreCart, Send

LEMMA OursFinite ==
  ASSUME NEW r, IsSeq(r)
  PROVE  IsFiniteSet(Ours(r)) /\ Cardinality(Ours(r)) \in Nat
<1>1. PICK S : r \in Seq(S)
  BY DEF IsSeq
<1>2. DOMAIN r = 1..Len(r) /\ Len(r) \in Nat
  BY <1>1
<1>3. IsFiniteSet(1..Len(r))
  BY <1>2, FS_Interval, SMT
<1>4. Ours(r) \subseteq 1..Len(r)
  BY <1>2 DEF Ours
<1> QED BY <1>3, <1>4, FS_Subset, FS_CardinalityType

(* s is r with e at its end, which is n.                                   *)
Grown(s, r, e, n) == s = Append(r, e) /\ n = Len(r) + 1

LEMMA AppendSpeaks ==
  ASSUME NEW r, NEW e, NEW s, NEW n, IsSeq(r), Grown(s, r, e, n)
  PROVE  /\ IsSeq(s) /\ s[n] = e
         /\ Ours(s) = Ours(r) \cup (IF e.role = "model" THEN {n} ELSE {})
         /\ \A i \in Ours(r) : s[i] = r[i] /\ i < n
         /\ n \notin Ours(r) /\ n \in Nat /\ Ours(r) \subseteq Nat
<1>1. PICK S : r \in Seq(S)
  BY DEF IsSeq
<1>0. s = Append(r, e) /\ n = Len(r) + 1
  BY DEF Grown
<1>2. r \in Seq(S \cup {e}) /\ Len(r) \in Nat
  BY <1>1
<1>3. s \in Seq(S \cup {e}) /\ Len(s) = n /\ s[n] = e /\ \A i \in 1..Len(r) : s[i] = r[i]
  BY <1>0, <1>2
<1>4. DOMAIN r = 1..Len(r) /\ DOMAIN s = 1..n
  BY <1>2, <1>3
<1>5. 1..n = 1..Len(r) \cup {n} /\ n \notin 1..Len(r) /\ n \in Nat
  BY <1>0, <1>2, SMT
<1>6. Ours(s) = Ours(r) \cup (IF e.role = "model" THEN {n} ELSE {})
  BY <1>3, <1>4, <1>5 DEF Ours
<1>8. \A i \in 1..Len(r) : i < n /\ i \in Nat
  BY <1>0, <1>2, SMT
<1>9. Ours(r) \subseteq 1..Len(r)
  BY <1>4 DEF Ours
<1>10. IsSeq(s)
  BY <1>3 DEF IsSeq
<1>11. \A i \in Ours(r) : s[i] = r[i] /\ i < n
  BY <1>3, <1>8, <1>9
<1>12. n \notin Ours(r) /\ n \in Nat /\ Ours(r) \subseteq Nat
  BY <1>5, <1>8, <1>9
<1>13. s[n] = e
  BY <1>3
<1> QED BY <1>6, <1>10, <1>11, <1>12, <1>13

(* Fewer jobs have been replied to, and no reply is gone.                  *)
LEMMA CountKept ==
  ASSUME TalkInv, Replied' \subseteq Replied, Ours(rows') = Ours(rows)
  PROVE  Cardinality(Ours(rows')) >= Cardinality(Replied')
<1>1. PICK k : k = Cardinality(Ours(rows)) /\ k \in Nat
  BY OursFinite DEF TalkInv
<1>2. IsFiniteSet(Replied)
  <2>1. Replied \subseteq Msgs
    BY DEF Replied, Done
  <2> QED BY <2>1, TextAssumption, FS_Subset
<1>3. /\ Cardinality(Replied') <= Cardinality(Replied)
      /\ Cardinality(Replied') \in Nat /\ Cardinality(Replied) \in Nat
  BY <1>2, FS_Subset, FS_CardinalityType
<1>4. k >= Cardinality(Replied)
  BY <1>1 DEF TalkInv
<1>5. k >= Cardinality(Replied')
  BY <1>1, <1>3, <1>4, SMT
<1> QED BY <1>1, <1>5

LEMMA NoLoopKept ==
  ASSUME NoLoop, ~overlapped' => ~overlapped, Ours(rows') = Ours(rows),
         \A i \in Ours(rows) : rows'[i] = rows[i]
  PROVE  NoLoop'
<1> SUFFICES ASSUME ~overlapped', NEW j \in Ours(rows'), RepeatAt(j)'
             PROVE  rows'[j].escalated \/ rows'[j].marked
  BY DEF NoLoop
<1>1. j \in Ours(rows) /\ rows'[j] = rows[j]
  OBVIOUS
<1>2. PICK i \in LastFour({k \in Ours(rows') : k < j}) : Similar(rows'[i].words, rows'[j].words)
  BY DEF RepeatAt
<1>3. i \in LastFour({k \in Ours(rows) : k < j})
  BY <1>2
<1>4. i \in Ours(rows)
  BY <1>3 DEF LastFour
<1>5. RepeatAt(j)
  BY <1>1, <1>2, <1>3, <1>4 DEF RepeatAt
<1> QED BY <1>1, <1>5 DEF NoLoop

(* The turn of m changes, the conversation does not.                       *)
LEMMA QuietStep ==
  ASSUME TalkInv, DOMAIN turn = Msgs, ~overlapped' => ~overlapped,
         NEW m \in Msgs, NEW u, turn' = [turn EXCEPT ![m] = u], rows' = rows,
         mute' \in [Msgs -> BOOLEAN], \A n \in Msgs \ {m} : mute'[n] = mute[n],
         Mentioned(u, mute'[m]),
         ~overlapped => Fresh(u, rows) /\ Told(u, rows),
         Replied' \subseteq Replied
  PROVE  TalkInv'
<1>1. \A n \in Msgs : turn'[n] = IF n = m THEN u ELSE turn[n]
  OBVIOUS
<1>2. IsSeq(rows')
  BY DEF TalkInv
<1>3. Cardinality(Ours(rows')) >= Cardinality(Replied')
  BY CountKept
<1>4. NoLoop'
  BY NoLoopKept DEF TalkInv
<1>5. \A n \in Msgs : Mentioned(turn'[n], mute'[n])
  BY <1>1 DEF TalkInv
<1>6. ~overlapped' => \A n \in Msgs : Fresh(turn'[n], rows') /\ Told(turn'[n], rows')
  BY <1>1 DEF TalkInv
<1> HIDE DEF TalkInv
<1> QED BY <1>2, <1>3, <1>4, <1>5, <1>6 DEF TalkInv

LEMMA ArriveTalks ==
  ASSUME NEW m \in Msgs, TypeInv, TalkInv, Arrive(m)
  PROVE  TalkInv'
<1>1. /\ rows' = Append(rows, FromCustomer(m)) /\ turn' = turn /\ mute' = mute
      /\ overlapped' = overlapped /\ job' = [job EXCEPT ![m] = "wait"]
  BY DEF Arrive
<1>2. FromCustomer(m).role # "model" /\ IsSeq(rows)
  BY DEF FromCustomer, TalkInv
<1>3. /\ IsSeq(rows') /\ Ours(rows') = Ours(rows)
      /\ \A i \in Ours(rows) : rows'[i] = rows[i]
  <2>1. PICK e : e = FromCustomer(m)
    OBVIOUS
  <2>2. PICK n : Grown(rows', rows, e, n)
    BY <1>1, <2>1 DEF Grown
  <2> QED BY <1>2, <2>1, <2>2, AppendSpeaks
<1>4. Replied' \subseteq Replied
  BY <1>1 DEF Replied, Done, TypeInv, JobsTyped
<1>5. Cardinality(Ours(rows')) >= Cardinality(Replied')
  BY <1>3, <1>4, CountKept
<1>6. NoLoop'
  BY <1>1, <1>3, NoLoopKept DEF TalkInv
<1>7. Recent(rows') = Recent(rows)
  BY <1>3, SameRecent
<1>8. ~overlapped' => \A n \in Msgs : Fresh(turn'[n], rows') /\ Told(turn'[n], rows')
  <2> SUFFICES ASSUME ~overlapped', NEW n \in Msgs
               PROVE  Fresh(turn[n], rows') /\ Told(turn[n], rows')
    BY <1>1
  <2>1. Fresh(turn[n], rows) /\ Told(turn[n], rows)
    BY <1>1 DEF TalkInv
  <2>2. Told(turn[n], rows')
    BY <1>7, <2>1 DEF Told
  <2>3. Fresh(turn[n], rows')
    BY <1>3, <2>1 DEF Fresh
  <2> QED BY <2>2, <2>3
<1>9. mute' \in [Msgs -> BOOLEAN] /\ \A n \in Msgs : Mentioned(turn'[n], mute'[n])
  BY <1>1 DEF TalkInv
<1> QED BY <1>3, <1>5, <1>6, <1>8, <1>9 DEF TalkInv

(* Our reply goes into the conversation: one more, and like none of the    *)
(* four before it unless it is marked or hands over.                       *)
LEMMA RecordTalks ==
  ASSUME NEW m \in Msgs, TypeInv, AloneInv, TalkInv, Record(m)
  PROVE  TalkInv'
<1> DEFINE u == [turn[m] EXCEPT !.pc = "close"]
           e == FromUs(turn[m])
<1>1. /\ turn[m].pc = "record" /\ rows' = Append(rows, e)
      /\ turn' = [turn EXCEPT ![m] = u]
      /\ mute' = mute /\ overlapped' = overlapped /\ job' = job
  BY DEF Record, At, Go
<1>2. /\ e.role = "model" /\ e.words = turn[m].said.words
      /\ e.marked = turn[m].said.marked /\ e.escalated = turn[m].escalated
  BY DEF FromUs
<1>3. /\ DOMAIN turn = Msgs /\ u.pc = "close"
      /\ \A q \in Msgs : turn[q].pc # "idle" <=> job[q] = "active"
  BY Zenon DEF TypeInv, TurnsSound, SoundTurn, Fields
<1> HIDE DEF e, u
<1>0. PICK n : Grown(rows', rows, e, n)
  BY <1>1 DEF Grown
<1>4. /\ IsSeq(rows') /\ rows'[n] = e /\ Ours(rows') = Ours(rows) \cup {n}
      /\ \A i \in Ours(rows) : rows'[i] = rows[i] /\ i < n
      /\ n \notin Ours(rows) /\ n \in Nat /\ Ours(rows) \subseteq Nat /\ IsFiniteSet(Ours(rows))
  <2>1. IsSeq(rows)
    BY DEF TalkInv
  <2> QED BY <1>0, <1>2, <2>1, AppendSpeaks, OursFinite
<1>5. \A q \in Msgs : turn'[q] = IF q = m THEN u ELSE turn[q]
  BY <1>1, <1>3
<1>6. Cardinality(Ours(rows')) >= Cardinality(Replied')
  <2>1. Replied' \subseteq Replied \cup {m}
    BY <1>1, <1>5 DEF Replied, Done
  <2>2. IsFiniteSet(Replied)
    <3>1. Replied \subseteq Msgs
      BY DEF Replied, Done
    <3> QED BY <3>1, TextAssumption, FS_Subset
  <2>3. m \notin Replied
    BY <1>1, <1>3 DEF Replied, Done
  <2>4. /\ Cardinality(Replied \cup {m}) = Cardinality(Replied) + 1
        /\ IsFiniteSet(Replied \cup {m}) /\ Cardinality(Replied) \in Nat
    BY <2>2, <2>3, FS_AddElement, FS_CardinalityType
  <2>5. Cardinality(Replied') <= Cardinality(Replied \cup {m}) /\ Cardinality(Replied') \in Nat
    BY <2>1, <2>4, FS_Subset, FS_CardinalityType
  <2>6. /\ Cardinality(Ours(rows')) = Cardinality(Ours(rows)) + 1
        /\ Cardinality(Ours(rows)) \in Nat
    BY <1>4, FS_AddElement, FS_CardinalityType
  <2>7. Cardinality(Ours(rows)) >= Cardinality(Replied)
    BY DEF TalkInv
  <2> QED BY <2>4, <2>5, <2>6, <2>7, SMT
<1>7. ~overlapped' => \A q \in Msgs : Fresh(turn'[q], rows') /\ Told(turn'[q], rows')
  <2> SUFFICES ASSUME ~overlapped, NEW q \in Msgs
               PROVE  Fresh(turn'[q], rows') /\ Told(turn'[q], rows')
    BY <1>1
  <2>1. CASE q = m
    BY <1>3, <1>5, <2>1 DEF Fresh, Told, Asks, Says
  <2>2. CASE q # m
    <3>1. turn[q].pc = "idle"
      BY <1>1, <1>3, <2>2 DEF AloneInv, Active
    <3> QED BY <1>5, <2>2, <3>1 DEF Fresh, Told, Asks, Says
  <2> QED BY <2>1, <2>2
<1>8. NoLoop'
  <2> SUFFICES ASSUME ~overlapped, NEW j \in Ours(rows'), RepeatAt(j)'
               PROVE  rows'[j].escalated \/ rows'[j].marked
    BY <1>1 DEF NoLoop
  <2>1. PICK i \in LastFour({k \in Ours(rows') : k < j}) :
          Similar(rows'[i].words, rows'[j].words)
    BY DEF RepeatAt
  <2>2. {k \in Ours(rows') : k < j} = {k \in Ours(rows) : k < j}
    <3>1. ~(n < j)
      BY <1>4, SMT
    <3> QED BY <1>4, <3>1
  <2>3. i \in LastFour({k \in Ours(rows) : k < j})
    BY <2>1, <2>2
  <2>4. i \in Ours(rows) /\ rows'[i] = rows[i]
    BY <1>4, <2>3 DEF LastFour
  <2>5. CASE j \in Ours(rows)
    <3>1. RepeatAt(j) /\ rows'[j] = rows[j]
      BY <1>4, <2>1, <2>3, <2>4, <2>5 DEF RepeatAt
    <3> QED BY <2>5, <3>1 DEF NoLoop, TalkInv
  <2>6. CASE j = n
    <3>1. {k \in Ours(rows) : k < j} = Ours(rows)
      BY <1>4, <2>6
    <3>2. rows[i].words \in Recent(rows)
      BY <2>3, <3>1 DEF Recent
    <3>3. Similar(rows[i].words, turn[m].said.words)
      BY <1>2, <1>4, <2>1, <2>4, <2>6
    <3>4. Told(turn[m], rows)
      BY DEF TalkInv
    <3>5. turn[m].said.marked \/ turn[m].escalated
      BY <1>1, <3>2, <3>3, <3>4 DEF Told
    <3> QED BY <1>2, <1>4, <2>6, <3>5
  <2> QED BY <1>4, <2>5, <2>6
<1>9. mute' \in [Msgs -> BOOLEAN] /\ \A q \in Msgs : Mentioned(turn'[q], mute'[q])
  BY <1>1, <1>3, <1>5 DEF TalkInv, Mentioned, Says
<1> QED BY <1>4, <1>6, <1>7, <1>8, <1>9 DEF TalkInv

(* A turn that ends has replied already, or had nothing to say.            *)
LEMMA EndTalks ==
  ASSUME NEW m \in Msgs, TypeInv, TalkInv, turn[m].pc # "idle",
         turn' = [turn EXCEPT ![m] = NoTurn], rows' = rows, mute' = mute,
         overlapped' = overlapped, NEW state \in {"wait", "done", "failed"},
         job' = [job EXCEPT ![m] = state],
         state = "done" => mute[m] \/ turn[m].pc = "close"
  PROVE  TalkInv'
<1>1. NoTurn.pc = "idle"
  BY DEF NoTurn
<1>2. Mentioned(NoTurn, mute'[m]) /\ Fresh(NoTurn, rows) /\ Told(NoTurn, rows)
  BY <1>1 DEF Mentioned, Fresh, Told, Asks, Says
<1>3. DOMAIN turn = Msgs /\ job \in [Msgs -> {"none", "wait", "active", "done", "failed"}]
  BY DEF TypeInv, TurnsSound, JobsTyped
<1>4. Replied' \subseteq Replied
  BY <1>1, <1>3 DEF Replied, Done
<1>5. mute' \in [Msgs -> BOOLEAN]
  BY DEF TalkInv
<1> QED BY <1>2, <1>3, <1>4, <1>5, QuietStep

LEMMA TalkStep ==
  ASSUME TypeInv, AloneInv, TalkInv, Next
  PROVE  TalkInv'
<1>1. PICK m \in Msgs :
        \/ Arrive(m) \/ Take(m) \/ Inside(m)
        \/ (Send(m) /\ turn[m].said.words = {}) \/ Close(m)
        \/ Wait(m) \/ AttemptFails(m) \/ WorkerDies(m)
  BY StepCases
<1>2. DOMAIN turn = Msgs /\ job \in [Msgs -> {"none", "wait", "active", "done", "failed"}]
  BY DEF TypeInv, TurnsSound, JobsTyped
<1>3. ~overlapped' => ~overlapped
  <2>1. Take(m) => overlapped' = (overlapped \/ Active # {})
    BY DEF Take
  <2> QED BY <1>1, <2>1, GoodsMove
<1>4. ASSUME NEW u, Talks(m, u), rows' = rows, \A n \in Msgs : job'[n] = "done" => job[n] = "done",
             job[m] # "done"
      PROVE  TalkInv'
  <2>1. /\ turn' = [turn EXCEPT ![m] = u] /\ u.pc # "close"
        /\ mute' \in [Msgs -> BOOLEAN] /\ \A n \in Msgs \ {m} : mute'[n] = mute[n]
        /\ Mentioned(u, mute'[m])
        /\ Fresh(turn[m], rows) /\ Told(turn[m], rows) => Fresh(u, rows) /\ Told(u, rows)
    BY <1>4 DEF Talks
  <2>2. ~overlapped => Fresh(u, rows) /\ Told(u, rows)
    BY <2>1 DEF TalkInv
  <2>3. Replied' \subseteq Replied
    <3>1. \A n \in Msgs : turn'[n] = IF n = m THEN u ELSE turn[n]
      BY <1>2, <2>1
    <3> QED BY <1>4, <2>1, <3>1 DEF Replied, Done
  <2> QED BY <1>2, <1>3, <1>4, <2>1, <2>2, <2>3, QuietStep
<1>5. CASE Arrive(m)
  BY <1>5, ArriveTalks
<1>6. CASE Take(m)
  <2>1. PICK step \in {"voice", "history"} : Go(m, step)
    BY <1>6 DEF Take
  <2> DEFINE u == [turn[m] EXCEPT !.pc = step]
  <2>2. turn' = [turn EXCEPT ![m] = u] /\ u.pc = step
    BY <2>1 DEF Go, TypeInv, TurnsSound, SoundTurn, Fields
  <2>3. /\ mute' = mute /\ rows' = rows /\ job' = [job EXCEPT ![m] = "active"]
        /\ job[m] = "wait"
    BY <1>6 DEF Take
  <2> HIDE DEF u
  <2>4. Talks(m, u)
    BY <2>2, <2>3, MoveTalks
  <2> QED BY <1>2, <1>4, <2>3, <2>4
<1>7. CASE Inside(m) /\ ~Record(m)
  <2>1. PICK u : Talks(m, u)
    BY <1>7, InsideTalks
  <2>2. job' = job /\ turn[m].pc # "idle" /\ rows' = rows
    BY <1>7, InsideJobs, InsideRows
  <2>3. job[m] = "active"
    BY <2>2 DEF TypeInv, TurnsSound
  <2> QED BY <1>4, <2>1, <2>2, <2>3
<1>8. CASE Record(m)
  BY <1>8, RecordTalks
<1>9. CASE Send(m) /\ turn[m].said.words = {}
  <2>1. /\ job' = [job EXCEPT ![m] = "done"] /\ turn' = [turn EXCEPT ![m] = NoTurn]
        /\ rows' = rows /\ mute' = mute /\ overlapped' = overlapped /\ turn[m].pc = "send"
    BY <1>9 DEF Send, Finish, At
  <2>2. mute[m]
    BY <1>9, <2>1 DEF TalkInv, Mentioned, Says
  <2> QED BY <2>1, <2>2, EndTalks
<1>10. CASE Close(m)
  <2>1. /\ job' = [job EXCEPT ![m] = "done"] /\ turn' = [turn EXCEPT ![m] = NoTurn]
        /\ rows' = rows /\ mute' = mute /\ overlapped' = overlapped /\ turn[m].pc = "close"
    BY <1>10 DEF Close, Finish, At
  <2> QED BY <2>1, EndTalks
<1>11. CASE AttemptFails(m) \/ WorkerDies(m)
  <2>1. PICK state \in {"wait", "failed"} :
           /\ job' = [job EXCEPT ![m] = state] /\ turn' = [turn EXCEPT ![m] = NoTurn]
           /\ rows' = rows /\ mute' = mute /\ overlapped' = overlapped /\ turn[m].pc # "idle"
    BY <1>11 DEF AttemptFails, WorkerDies, Drop, At
  <2> QED BY <2>1, EndTalks
<1>12. CASE Wait(m)
  <2>1. UNCHANGED turnVars
    BY <1>12 DEF Wait
  <2> QED BY <2>1 DEF turnVars, TalkInv, Replied, Done, NoLoop, RepeatAt
<1> QED BY <1>1, <1>5, <1>6, <1>7, <1>8, <1>9, <1>10, <1>11, <1>12

LEMMA TalkInvInit == Init => TalkInv
<1> SUFFICES ASSUME Init PROVE TalkInv
  OBVIOUS
<1>1. /\ rows = <<>> /\ mute = [m \in Msgs |-> FALSE] /\ ~overlapped
      /\ \A m \in Msgs : turn[m].pc = "idle" /\ job[m] = "none"
  BY DEF Init, NoTurn
<1>2. Ours(rows) = {} /\ IsSeq(rows)
  <2>1. rows \in Seq({}) /\ DOMAIN rows = {}
    BY <1>1
  <2> QED BY <2>1 DEF Ours, IsSeq
<1>3. Replied = {}
  BY <1>1 DEF Replied, Done
<1>4. Cardinality(Ours(rows)) >= Cardinality(Replied)
  BY <1>2, <1>3, FS_EmptySet, SMT
<1>5. NoLoop
  BY <1>2 DEF NoLoop
<1>6. \A m \in Msgs : Mentioned(turn[m], mute[m]) /\ Fresh(turn[m], rows) /\ Told(turn[m], rows)
  BY <1>1 DEF Mentioned, Fresh, Told, Asks, Says
<1> QED BY <1>1, <1>2, <1>4, <1>5, <1>6 DEF TalkInv

LEMMA TalkInvAlways == Spec => []TalkInv
<1>1. TypeInv /\ OrderInv /\ TalkInv /\ [Next]_vars => TalkInv'
  <2> SUFFICES ASSUME TypeInv, OrderInv, TalkInv, [Next]_vars PROVE TalkInv'
    OBVIOUS
  <2>1. CASE Next
    BY <2>1, TalkStep DEF OrderInv
  <2>2. CASE UNCHANGED vars
    BY <2>2 DEF vars, turnVars, TalkInv, Replied, Done, NoLoop, RepeatAt
  <2> QED BY <2>1, <2>2
<1> QED BY TalkInvInit, TypeInvAlways, OrderInvAlways, <1>1, PTL DEF Spec

(* However often its job is repeated and whatever fails on the way, a      *)
(* message that is done was replied to, unless the model had but marks to  *)
(* say (agent.ts:219-225, handler.ts:167).                                 *)
THEOREM EveryoneAnswered == Spec => []NeverSilent
<1>1. TalkInv => NeverSilent
  <2> SUFFICES ASSUME TalkInv PROVE NeverSilent
    OBVIOUS
  <2> DEFINE D == {m \in Done : ~mute[m]}
  <2>1. PICK R : R = Replied
    OBVIOUS
  <2>2. D \subseteq R /\ R \subseteq Msgs
    BY <2>1 DEF Replied, Done
  <2>3. IsFiniteSet(R)
    BY <2>2, TextAssumption, FS_Subset
  <2>4. Cardinality(D) <= Cardinality(R) /\ Cardinality(D) \in Nat /\ Cardinality(R) \in Nat
    BY <2>2, <2>3, FS_Subset, FS_CardinalityType
  <2>5. Cardinality(Ours(rows)) >= Cardinality(R) /\ Cardinality(Ours(rows)) \in Nat
    BY <2>1, OursFinite DEF TalkInv
  <2> HIDE DEF D
  <2>6. Cardinality(Ours(rows)) >= Cardinality(D)
    BY <2>4, <2>5, SMT
  <2> QED BY <2>6 DEF NeverSilent, D
<1> QED BY <1>1, TalkInvAlways, PTL

(* While turns follow each other, a reply without marks that is like one   *)
(* of the four before it hands over to a person, in retries and rounds of  *)
(* any number (agent.ts:227-229).                                          *)
THEOREM LoopsHandOver == Spec => []NoLoop
<1>1. TalkInv => NoLoop
  BY DEF TalkInv
<1> QED BY <1>1, TalkInvAlways, PTL

-----------------------------------------------------------------------------
(* What the contents of a turn become on the wire, part by part.           *)

After(c, it, n) == IF n = 0 THEN NoMessages ELSE AddPart(it[n - 1], c[n])
Builds(c, it) == it = [n \in 0..Len(c) |-> After(c, it, n)]

(* A function that obeys the recursion up to the k-th part.                *)
BuildsUpto(c, k, it) ==
  DOMAIN it = 0..Len(c) /\ \A n \in 0..Len(c) : n <= k => it[n] = After(c, it, n)

LEMMA UptoEach ==
  ASSUME NEW c, Len(c) \in Nat, NEW n \in Nat
  PROVE  \E it : BuildsUpto(c, n, it)
<1> DEFINE Bad == {k \in Nat : ~ \E it : BuildsUpto(c, k, it)}
<1>1. SUFFICES ASSUME Bad # {} PROVE FALSE
  OBVIOUS
<1>2. PICK k \in Bad : \A m \in Bad : k <= m
  BY <1>1, LeastNat
<1>3. CASE k = 0
  <2> DEFINE it == [n_1 \in 0..Len(c) |-> NoMessages]
  <2>1. BuildsUpto(c, 0, it)
    BY DEF BuildsUpto, After
  <2> QED BY <1>2, <1>3, <2>1
<1>4. CASE k # 0
  <2>1. k - 1 \in Nat /\ k - 1 \notin Bad
    BY <1>2, <1>4
  <2>2. PICK it : BuildsUpto(c, k - 1, it)
    BY <2>1
  <2> DEFINE new == [i \in 0..Len(c) |-> After(c, it, i)]
  <2>3. ASSUME NEW i \in 0..Len(c), i <= k PROVE new[i] = After(c, new, i)
    <3>1. CASE i = 0
      BY <3>1 DEF After
    <3>2. CASE i # 0
      <4>1. i - 1 \in 0..Len(c) /\ i - 1 <= k - 1
        BY <2>3, <3>2
      <4>2. it[i - 1] = new[i - 1]
        BY <2>2, <4>1 DEF BuildsUpto
      <4> QED BY <3>2, <4>2 DEF After
    <3> QED BY <3>1, <3>2
  <2>4. BuildsUpto(c, k, new)
    BY <2>3 DEF BuildsUpto
  <2> QED BY <1>2, <2>4
<1> QED BY <1>3, <1>4

LEMMA BuildsExists ==
  ASSUME NEW c, Len(c) \in Nat
  PROVE  Builds(c, CHOOSE it : Builds(c, it))
<1>1. PICK it : BuildsUpto(c, Len(c), it)
  BY UptoEach
<1>2. \A n \in 0..Len(c) : it[n] = After(c, it, n)
  BY <1>1 DEF BuildsUpto
<1>3. it = [n \in 0..Len(c) |-> it[n]]
  BY <1>1 DEF BuildsUpto
<1>4. it = [n \in 0..Len(c) |-> After(c, it, n)]
  BY <1>2, <1>3
<1> QED BY <1>4 DEF Builds

LEMMA BuildsStep ==
  ASSUME NEW c, NEW it, Builds(c, it), NEW n \in 0..Len(c)
  PROVE  it[n] = After(c, it, n)
<1> DEFINE F == [i \in 0..Len(c) |-> After(c, it, i)]
<1>1. it = F
  BY DEF Builds
<1>2. F[n] = After(c, it, n)
  OBVIOUS
<1> QED BY <1>1, <1>2

LEMMA WireUnfolds ==
  ASSUME NEW c
  PROVE  Wire(c) = (CHOOSE it : Builds(c, it))[Len(c)]
BY DEF Wire, Builds, After

(* Contents that agree on the first k parts are the same wire up to there. *)
LEMMA BuildsAgree ==
  ASSUME NEW c, NEW d, NEW k \in Nat, Len(c) \in Nat, Len(d) \in Nat,
         k <= Len(c), k <= Len(d), \A i \in 1..k : c[i] = d[i],
         NEW it, Builds(c, it), NEW jt, Builds(d, jt)
  PROVE  it[k] = jt[k]
<1> DEFINE Bad == {n \in 0..k : it[n] # jt[n]}
<1>1. SUFFICES ASSUME Bad # {} PROVE FALSE
  OBVIOUS
<1> Bad \subseteq Nat
  OBVIOUS
<1>2. PICK n \in Bad : \A m \in Bad : n <= m
  <2> HIDE DEF Bad
  <2> QED BY <1>1, LeastNat
<1>3. n \in 0..Len(c) /\ n \in 0..Len(d)
  OBVIOUS
<1>4. it[n] = After(c, it, n) /\ jt[n] = After(d, jt, n)
  BY <1>3, BuildsStep
<1>5. CASE n = 0
  BY <1>4, <1>5 DEF After
<1>6. CASE n # 0
  <2>1. n - 1 \in 0..k /\ ~(n <= n - 1)
    BY <1>6
  <2>2. it[n - 1] = jt[n - 1]
    BY <1>2, <2>1
  <2>3. c[n] = d[n]
    BY <1>6
  <2> QED BY <1>4, <1>6, <2>2, <2>3 DEF After
<1> QED BY <1>5, <1>6

LEMMA WireEmpty == Wire(<<>>) = NoMessages
<1>1. PICK c : c = <<>>
  OBVIOUS
<1>2. Len(c) = 0
  BY <1>1
<1>3. Builds(c, CHOOSE it : Builds(c, it))
  BY <1>2, BuildsExists
<1>4. (CHOOSE it : Builds(c, it))[0] = After(c, CHOOSE it : Builds(c, it), 0)
  BY <1>2, <1>3, BuildsStep
<1> QED BY <1>1, <1>2, <1>4, WireUnfolds DEF After

LEMMA WireAppends ==
  ASSUME NEW c, IsSeq(c), NEW p
  PROVE  Wire(Append(c, p)) = AddPart(Wire(c), p)
<1>1. PICK n : n = Len(c)
  OBVIOUS
<1>2. PICK d : d = Append(c, p)
  OBVIOUS
<1>3. /\ n \in Nat /\ Len(d) = n + 1 /\ d[n + 1] = p
      /\ \A i \in 1..n : c[i] = d[i]
  <2>1. PICK S : c \in Seq(S)
    BY DEF IsSeq
  <2>2. c \in Seq(S \cup {p}) /\ p \in S \cup {p}
    BY <2>1
  <2> QED BY <1>1, <1>2, <2>2
<1>4. PICK it : it = CHOOSE i : Builds(c, i)
  OBVIOUS
<1>5. PICK jt : jt = CHOOSE i : Builds(d, i)
  OBVIOUS
<1>6. Builds(c, it) /\ Builds(d, jt)
  BY <1>1, <1>3, <1>4, <1>5, BuildsExists
<1>7. Wire(c) = it[n] /\ Wire(d) = jt[n + 1]
  BY <1>1, <1>3, <1>4, <1>5, WireUnfolds
<1>8. jt[n + 1] = After(d, jt, n + 1)
  BY <1>3, <1>6, BuildsStep
<1>9. it[n] = jt[n]
  BY <1>1, <1>3, <1>6, BuildsAgree
<1>10. n + 1 # 0 /\ n + 1 - 1 = n
  BY <1>3
<1> QED BY <1>2, <1>3, <1>7, <1>8, <1>9, <1>10 DEF After

-----------------------------------------------------------------------------
(* The messages after n calls of which the first a have their results.     *)

Calls(ms) == {i \in DOMAIN ms : ms[i].role = "call"}
Results(ms) == {i \in DOMAIN ms : ms[i].role = "tool"}

Alternate(ms) ==
  \A i \in DOMAIN ms \ {1} : ms[i].role \in {"user", "model"} => ms[i].role # ms[i - 1].role

Paired(ms, a, n) ==
  /\ \A j \in Calls(ms) : ms[j].id \in 1..n /\ ms[j].nth = ms[j].id
  /\ \A i \in Results(ms) :
       /\ ms[i].id \in 1..a /\ ms[i].nth = ms[i].id
       /\ \E j \in Calls(ms) : j < i /\ ms[j].id = ms[i].id
  /\ \A k \in 1..n : \E j \in Calls(ms) : ms[j].id = k
  /\ \A k \in 1..a : \E i \in Results(ms) : ms[i].id = k
  /\ \A i, k \in Results(ms) : ms[i].id = ms[k].id => i = k
  /\ Alternate(ms)

LEMMA PairedWellFormed ==
  ASSUME NEW ms, NEW n \in Nat, Paired(ms, n, n)
  PROVE  WellFormed(ms)
<1>1. \A i \in Results(ms) : \E j \in Calls(ms) :
        j < i /\ ms[j].id = ms[i].id /\ ms[j].nth = ms[i].nth
  BY DEF Paired
<1>2. ASSUME NEW j \in Calls(ms)
      PROVE  Cardinality({i \in Results(ms) : ms[i].id = ms[j].id}) = 1
  <2>1. ms[j].id \in 1..n
    BY DEF Paired
  <2>2. PICK i \in Results(ms) : ms[i].id = ms[j].id
    BY <2>1 DEF Paired
  <2>3. {k \in Results(ms) : ms[k].id = ms[j].id} = {i}
    BY <2>2 DEF Paired
  <2> QED BY <2>3, FS_Singleton
<1>3. Alternate(ms)
  BY DEF Paired
<1> QED BY <1>1, <1>2, <1>3 DEF WellFormed, Alternate, Calls, Results

LEMMA AppendGrows ==
  ASSUME NEW r, NEW e, NEW s, NEW n, IsSeq(r), Grown(s, r, e, n)
  PROVE  /\ IsSeq(s) /\ s[n] = e /\ n \in Nat \ {0} /\ Len(r) = n - 1 /\ Len(s) = n
         /\ DOMAIN r = 1..(n - 1) /\ DOMAIN s = 1..n
         /\ \A i \in 1..(n - 1) : s[i] = r[i]
<1>1. PICK S : r \in Seq(S)
  BY DEF IsSeq
<1>0. s = Append(r, e) /\ n = Len(r) + 1
  BY DEF Grown
<1>2. r \in Seq(S \cup {e}) /\ Len(r) \in Nat
  BY <1>1
<1>3. s \in Seq(S \cup {e}) /\ Len(s) = n /\ s[n] = e /\ \A i \in 1..Len(r) : s[i] = r[i]
  BY <1>0, <1>2
<1>4. DOMAIN r = 1..Len(r) /\ DOMAIN s = 1..n
  BY <1>2, <1>3
<1>5. n \in Nat \ {0} /\ Len(r) = n - 1
  BY <1>0, <1>2, SMT
<1>6. IsSeq(s)
  BY <1>3 DEF IsSeq
<1> QED BY <1>3, <1>4, <1>5, <1>6

LEMMA CallsGrow ==
  ASSUME NEW r, NEW e, NEW s, NEW k, IsSeq(r), Grown(s, r, e, k)
  PROVE  /\ Calls(s) = Calls(r) \cup (IF e.role = "call" THEN {k} ELSE {})
         /\ Results(s) = Results(r) \cup (IF e.role = "tool" THEN {k} ELSE {})
         /\ \A i \in Calls(r) \cup Results(r) : s[i] = r[i] /\ i < k /\ i \in Nat
         /\ s[k] = e /\ k \in Nat
<1>1. /\ IsSeq(s) /\ s[k] = e /\ k \in Nat \ {0} /\ Len(r) = k - 1 /\ Len(s) = k
      /\ DOMAIN r = 1..(k - 1) /\ DOMAIN s = 1..k
      /\ \A i \in 1..(k - 1) : s[i] = r[i]
  BY AppendGrows
<1>2. 1..k = 1..(k - 1) \cup {k} /\ \A i \in 1..(k - 1) : i < k /\ i \in Nat
  BY <1>1, SMT
<1>3. Calls(s) = Calls(r) \cup (IF e.role = "call" THEN {k} ELSE {})
  BY <1>1, <1>2 DEF Calls
<1>4. Results(s) = Results(r) \cup (IF e.role = "tool" THEN {k} ELSE {})
  BY <1>1, <1>2 DEF Results
<1>5. Calls(r) \cup Results(r) \subseteq 1..(k - 1)
  BY <1>1 DEF Calls, Results
<1> QED BY <1>1, <1>2, <1>3, <1>4, <1>5

LEMMA AlternateGrows ==
  ASSUME NEW r, NEW e, NEW s, NEW k, IsSeq(r), Grown(s, r, e, k), Alternate(r),
         e.role \in {"user", "model"} => k = 1 \/ e.role # r[k - 1].role
  PROVE  Alternate(s)
<1>1. /\ IsSeq(s) /\ s[k] = e /\ k \in Nat \ {0} /\ Len(r) = k - 1 /\ Len(s) = k
      /\ DOMAIN r = 1..(k - 1) /\ DOMAIN s = 1..k
      /\ \A i \in 1..(k - 1) : s[i] = r[i]
  BY AppendGrows
<1> SUFFICES ASSUME NEW i \in 2..k, s[i].role \in {"user", "model"}
             PROVE  s[i].role # s[i - 1].role
  BY <1>1 DEF Alternate
<1>2. i - 1 \in 1..(k - 1) /\ i # 1
  BY <1>1, SMT
<1>3. s[i - 1] = r[i - 1]
  BY <1>1, <1>2
<1>4. CASE i = k
  BY <1>1, <1>2, <1>3, <1>4
<1>5. CASE i # k
  <2>1. i \in 1..(k - 1) /\ i \in DOMAIN r \ {1}
    BY <1>1, <1>5, SMT
  <2>2. s[i] = r[i]
    BY <1>1, <2>1
  <2> QED BY <1>3, <2>1, <2>2 DEF Alternate
<1> QED BY <1>4, <1>5

(* A text that starts a message of its own, a call, and the result of the  *)
(* first call that has none.                                               *)
LEMMA PairedText ==
  ASSUME NEW a \in Nat, NEW n \in Nat, NEW r, NEW e, NEW s, NEW k,
         IsSeq(r), Grown(s, r, e, k), Paired(r, a, n),
         e.role \in {"user", "model"}, k = 1 \/ e.role # r[k - 1].role
  PROVE  Paired(s, a, n)
<1>1. Alternate(s)
  BY AlternateGrows DEF Paired
<1>2. Calls(s) = Calls(r) /\ Results(s) = Results(r)
  BY CallsGrow
<1>3. \A i \in Calls(r) \cup Results(r) : s[i] = r[i]
  BY CallsGrow
<1> QED BY <1>1, <1>2, <1>3 DEF Paired

LEMMA PairedCall ==
  ASSUME NEW a \in Nat, NEW n \in Nat, a <= n, NEW r, NEW e, NEW s, NEW k,
         IsSeq(r), Grown(s, r, e, k), Paired(r, a, n),
         e.role = "call", e.id = n + 1, e.nth = n + 1
  PROVE  Paired(s, a, n + 1)
<1>1. Alternate(s)
  BY AlternateGrows DEF Paired
<1>0. Results(s) = Results(r) \cup (IF e.role = "tool" THEN {k} ELSE {})
  BY CallsGrow
<1>2. Calls(s) = Calls(r) \cup {k} /\ Results(s) = Results(r)
  BY <1>0, CallsGrow
<1>3. (\A i \in Calls(r) \cup Results(r) : s[i] = r[i]) /\ s[k] = e
  BY CallsGrow
<1>4. 1..(n + 1) = 1..n \cup {n + 1}
  BY SMT
<1>5. \A j \in Calls(s) : s[j].id \in 1..(n + 1) /\ s[j].nth = s[j].id
  BY <1>2, <1>3, <1>4 DEF Paired
<1>6. \A i \in Results(s) :
       /\ s[i].id \in 1..a /\ s[i].nth = s[i].id
       /\ \E j \in Calls(s) : j < i /\ s[j].id = s[i].id
  BY <1>2, <1>3 DEF Paired
<1>7. \A q \in 1..(n + 1) : \E j \in Calls(s) : s[j].id = q
  BY <1>2, <1>3, <1>4 DEF Paired
<1>8. \A q \in 1..a : \E i \in Results(s) : s[i].id = q
  BY <1>2, <1>3 DEF Paired
<1>9. \A i, q \in Results(s) : s[i].id = s[q].id => i = q
  BY <1>2, <1>3 DEF Paired
<1> QED BY <1>1, <1>5, <1>6, <1>7, <1>8, <1>9 DEF Paired

LEMMA PairedResponse ==
  ASSUME NEW a \in Nat, NEW n \in Nat, a < n, NEW r, NEW e, NEW s, NEW k,
         IsSeq(r), Grown(s, r, e, k), Paired(r, a, n),
         e.role = "tool", e.id = a + 1, e.nth = a + 1
  PROVE  Paired(s, a + 1, n)
<1>1. Alternate(s)
  BY AlternateGrows DEF Paired
<1>2. Calls(s) = Calls(r) /\ Results(s) = Results(r) \cup {k}
  BY CallsGrow
<1>3. (\A i \in Calls(r) \cup Results(r) : s[i] = r[i] /\ i < k) /\ s[k] = e
  BY CallsGrow
<1>4. 1..(a + 1) = 1..a \cup {a + 1} /\ a + 1 \in 1..n /\ a + 1 \notin 1..a
  BY SMT
<1>5. \A j \in Calls(s) : s[j].id \in 1..n /\ s[j].nth = s[j].id
  BY <1>2, <1>3 DEF Paired
<1>6. \A i \in Results(s) :
       /\ s[i].id \in 1..(a + 1) /\ s[i].nth = s[i].id
       /\ \E j \in Calls(s) : j < i /\ s[j].id = s[i].id
  <2>1. PICK j \in Calls(r) : r[j].id = a + 1
    BY <1>4 DEF Paired
  <2> QED BY <1>2, <1>3, <1>4, <2>1 DEF Paired
<1>7. \A q \in 1..n : \E j \in Calls(s) : s[j].id = q
  BY <1>2, <1>3 DEF Paired
<1>8. \A q \in 1..(a + 1) : \E i \in Results(s) : s[i].id = q
  BY <1>2, <1>3, <1>4 DEF Paired
<1>9. \A i, q \in Results(s) : s[i].id = s[q].id => i = q
  BY <1>2, <1>3, <1>4 DEF Paired
<1> QED BY <1>1, <1>5, <1>6, <1>7, <1>8, <1>9 DEF Paired

(* What is known of the wire while n calls were made and those in todo     *)
(* have no result yet: those that wait on the wire are the same, in the    *)
(* same order, so a result finds its own call first.                       *)
Numbers(todo, n) ==
  \A i \in 1..Len(todo) : todo[i].nth = n - Len(todo) + i
Waits(pending, todo) ==
  /\ Len(pending) = Len(todo)
  /\ \A i \in 1..Len(todo) : pending[i].name = todo[i].name /\ pending[i].id = todo[i].nth

WireSound(w, todo, n) ==
  /\ n \in Nat /\ Len(todo) <= n
  /\ DOMAIN w = {"messages", "pending", "seq"} /\ w.seq = n
  /\ IsSeq(w.messages) /\ IsSeq(w.pending) /\ IsSeq(todo)
  /\ Numbers(todo, n)
  /\ Waits(w.pending, todo)
  /\ Paired(w.messages, n - Len(todo), n)

LEMMA SeqLen == ASSUME NEW s, IsSeq(s) PROVE Len(s) \in Nat /\ DOMAIN s = 1..Len(s)
BY DEF IsSeq

LEMMA EmptySound == WireSound(NoMessages, <<>>, 0)
<1>1. PICK e : e = <<>>
  OBVIOUS
<1>2. Len(e) = 0 /\ DOMAIN e = {} /\ IsSeq(e)
  <2>1. e \in Seq({})
    BY <1>1
  <2> QED BY <1>1, <2>1 DEF IsSeq
<1>3. Calls(e) = {} /\ Results(e) = {} /\ Alternate(e)
  BY <1>2 DEF Calls, Results, Alternate
<1>4. Paired(e, 0, 0)
  BY <1>3 DEF Paired
<1>5. Numbers(e, 0) /\ Waits(e, e)
  BY <1>2 DEF Numbers, Waits
<1>6. /\ DOMAIN NoMessages = {"messages", "pending", "seq"}
      /\ NoMessages.messages = e /\ NoMessages.pending = e /\ NoMessages.seq = 0
  BY <1>1 DEF NoMessages
<1> HIDE DEF NoMessages
<1> QED BY <1>1, <1>2, <1>4, <1>5, <1>6 DEF WireSound

LEMMA TextSound ==
  ASSUME NEW w, NEW todo, NEW n, WireSound(w, todo, n), NEW role \in {"user", "model"}
  PROVE  WireSound(AddPart(w, Text(role)), todo, n)
<1>1. AddPart(w, Text(role)) = AddText(w, Text(role)) /\ Text(role).role = role
  BY DEF AddPart, Text
<1> DEFINE ms == w.messages
           e == [role |-> role]
           s == Append(ms, e)
<1>2. CASE ms # <<>> /\ ms[Len(ms)].role = role
  BY <1>1, <1>2 DEF AddText, Last
<1>3. CASE ~(ms # <<>> /\ ms[Len(ms)].role = role)
  <2> DEFINE v == [w EXCEPT !.messages = s]
  <2>1. AddText(w, Text(role)) = v
    BY <1>1, <1>3 DEF AddText, Last
  <2>2. IsSeq(ms) /\ Len(ms) \in Nat
    BY SeqLen DEF WireSound
  <2>3. PICK k : Grown(s, ms, e, k)
    BY DEF Grown
  <2>4. k = Len(ms) + 1
    BY <2>3 DEF Grown
  <2>5. k = 1 \/ e.role # ms[k - 1].role
    <3>1. CASE ms = <<>>
      BY <2>4, <3>1
    <3>2. CASE ms # <<>>
      <4>1. k - 1 = Len(ms)
        BY <2>2, <2>4
      <4> QED BY <1>3, <3>2, <4>1
    <3> QED BY <3>1, <3>2
  <2>6. IsSeq(s)
    BY <2>2, <2>3, AppendGrows
  <2>7. Len(todo) \in Nat /\ n \in Nat /\ n - Len(todo) \in Nat
    BY SeqLen DEF WireSound
  <2>8. Paired(ms, n - Len(todo), n)
    BY DEF WireSound
  <2>9. Paired(s, n - Len(todo), n)
    <3> HIDE DEF ms, s
    <3>1. e.role \in {"user", "model"}
      OBVIOUS
    <3> HIDE DEF e
    <3> QED BY <2>2, <2>3, <2>5, <2>7, <2>8, <3>1, PairedText
  <2>10. /\ DOMAIN v = {"messages", "pending", "seq"}
         /\ v.messages = s /\ v.pending = w.pending /\ v.seq = w.seq
    <3> HIDE DEF s
    <3> QED BY DEF WireSound
  <2> HIDE DEF s, v, ms
  <2>11. WireSound(v, todo, n)
    BY <2>6, <2>9, <2>10 DEF WireSound
  <2> QED BY <1>1, <2>1, <2>11
<1> QED BY <1>2, <1>3

LEMMA CallSound ==
  ASSUME NEW w, NEW todo, NEW n, WireSound(w, todo, n), NEW name,
         NEW more, NEW k, Grown(more, todo, FunctionCall(name, n + 1), k)
  PROVE  WireSound(AddPart(w, FunctionCall(name, n + 1)), more, n + 1)
<1> DEFINE e == [role |-> "call", id |-> n + 1, nth |-> n + 1]
           c == [name |-> name, id |-> n + 1]
           v == AddPart(w, FunctionCall(name, n + 1))
<1>1. PICK s : s = Append(w.messages, e)
  OBVIOUS
<1>2. PICK p : p = Append(w.pending, c)
  OBVIOUS
<1>3. v = [messages |-> s, pending |-> p, seq |-> n + 1]
  BY <1>1, <1>2 DEF AddPart, FunctionCall, AddCall, WireSound
<1>4. PICK i : Grown(s, w.messages, e, i)
  BY <1>1 DEF Grown
<1>5. PICK j : Grown(p, w.pending, c, j)
  BY <1>2 DEF Grown
<1>6. /\ n \in Nat /\ Len(todo) \in Nat /\ Len(todo) <= n
      /\ IsSeq(w.messages) /\ IsSeq(w.pending) /\ IsSeq(todo)
      /\ Len(w.pending) = Len(todo)
  BY SeqLen DEF WireSound, Waits
<1>7. FunctionCall(name, n + 1).name = name /\ FunctionCall(name, n + 1).nth = n + 1
  BY DEF FunctionCall
<1>8. /\ IsSeq(more) /\ Len(more) = k /\ k \in Nat \ {0} /\ Len(todo) = k - 1
      /\ more[k] = FunctionCall(name, n + 1)
      /\ \A x \in 1..(k - 1) : more[x] = todo[x]
  BY <1>6, AppendGrows
<1>9. /\ IsSeq(p) /\ Len(p) = j /\ p[j] = c /\ j \in Nat /\ Len(w.pending) = j - 1
      /\ \A x \in 1..(j - 1) : p[x] = w.pending[x]
  BY <1>5, <1>6, AppendGrows
<1>10. j = k
  BY <1>6, <1>8, <1>9
<1>11. c.name = name /\ c.id = n + 1
  OBVIOUS
<1>12. 1..k = 1..(k - 1) \cup {k}
  BY <1>8
<1>13. Waits(p, more)
  <2> HIDE DEF c
  <2>1. \A x \in 1..(k - 1) : w.pending[x].name = todo[x].name /\ w.pending[x].id = todo[x].nth
    BY <1>8 DEF WireSound, Waits
  <2> QED BY <1>7, <1>8, <1>9, <1>10, <1>11, <1>12, <2>1 DEF Waits
<1>14. Numbers(more, n + 1)
  <2>1. \A x \in 1..(k - 1) : todo[x].nth = n - (k - 1) + x
    BY <1>8 DEF WireSound, Numbers
  <2>2. PICK N : N = n + 1
    OBVIOUS
  <2>3. ASSUME NEW x \in 1..k PROVE more[x].nth = N - k + x
    <3>1. CASE x = k
      <4>1. N - k + k = n + 1
        BY <1>6, <1>8, <2>2
      <4> QED BY <1>7, <1>8, <3>1, <4>1
    <3>2. CASE x # k
      <4>1. x \in 1..(k - 1)
        BY <1>8, <3>2
      <4>2. n - (k - 1) + x = N - k + x
        BY <1>6, <1>8, <2>2
      <4>3. more[x] = todo[x] /\ todo[x].nth = n - (k - 1) + x
        BY <1>8, <2>1, <4>1
      <4> QED BY <4>2, <4>3
    <3> QED BY <3>1, <3>2
  <2>4. Len(more) = k
    BY <1>8
  <2>5. Numbers(more, N)
    BY <2>3, <2>4, Zenon DEF Numbers
  <2> QED BY <2>2, <2>5
<1>15. n - Len(todo) \in Nat /\ n - Len(todo) <= n /\ n + 1 - Len(more) = n - Len(todo)
  BY <1>6, <1>8
<1>16. Paired(w.messages, n - Len(todo), n)
  BY DEF WireSound
<1>17. e.role = "call" /\ e.id = n + 1 /\ e.nth = n + 1
  OBVIOUS
<1>18. Paired(s, n - Len(todo), n + 1)
  <2> HIDE DEF e
  <2> QED BY <1>4, <1>6, <1>15, <1>16, <1>17, PairedCall
<1>19. IsSeq(s)
  BY <1>4, <1>6, AppendGrows
<1>20. n + 1 \in Nat /\ Len(more) <= n + 1
  BY <1>6, <1>8
<1>21. /\ DOMAIN v = {"messages", "pending", "seq"}
       /\ v.messages = s /\ v.pending = p /\ v.seq = n + 1
  BY <1>3
<1> HIDE DEF v
<1>22. WireSound(v, more, n + 1)
  BY <1>8, <1>9, <1>13, <1>14, <1>15, <1>18, <1>19, <1>20, <1>21 DEF WireSound
<1> QED BY <1>22 DEF v

LEMMA TailShifts ==
  ASSUME NEW s, IsSeq(s), s # <<>>
  PROVE  /\ IsSeq(Tail(s)) /\ Len(Tail(s)) = Len(s) - 1 /\ Head(s) = s[1] /\ Len(s) >= 1
         /\ \A i \in 1..(Len(s) - 1) : Tail(s)[i] = s[i + 1]
<1>1. PICK S : s \in Seq(S)
  BY DEF IsSeq
<1>2. Tail(s) \in Seq(S)
  BY <1>1
<1>3. IsSeq(Tail(s))
  BY <1>2 DEF IsSeq
<1> QED BY <1>1, <1>3

LEMMA RemoveFirstShifts ==
  ASSUME NEW s, IsSeq(s), Len(s) >= 1
  PROVE  /\ IsSeq(RemoveAt(s, 1)) /\ Len(RemoveAt(s, 1)) = Len(s) - 1
         /\ \A i \in 1..(Len(s) - 1) : RemoveAt(s, 1)[i] = s[i + 1]
<1>1. PICK S : s \in Seq(S)
  BY DEF IsSeq
<1>2. PICK a : a = SubSeq(s, 1, 1 - 1)
  OBVIOUS
<1>3. PICK b : b = SubSeq(s, 1 + 1, Len(s))
  OBVIOUS
<1>4. a \in Seq(S) /\ Len(a) = 0
  BY <1>1, <1>2
<1>5. b \in Seq(S) /\ Len(b) = Len(s) - 1 /\ \A i \in 1..(Len(s) - 1) : b[i] = s[i + 1]
  <2>1. PICK n : n = Len(s)
    OBVIOUS
  <2>2. n \in Nat \ {0} /\ 2 \in Int /\ \A i \in 2..n : s[i] \in S
    BY <1>1, <2>1
  <2>3. /\ b \in Seq(S) /\ Len(b) = IF 2 <= n THEN n - 2 + 1 ELSE 0
        /\ \A i \in 1..(n - 2 + 1) : b[i] = s[2 + i - 1]
    BY <1>3, <2>1, <2>2, SubSeqProperties
  <2>4. n - 2 + 1 = n - 1 /\ (~(2 <= n) => n - 1 = 0) /\ \A i \in 1..(n - 1) : 2 + i - 1 = i + 1
    BY <2>2
  <2> QED BY <2>1, <2>3, <2>4
<1>6. RemoveAt(s, 1) = a \o b
  BY <1>2, <1>3 DEF RemoveAt
<1>7. a \o b \in Seq(S) /\ Len(a \o b) = Len(b) /\ \A i \in 1..Len(b) : (a \o b)[i] = b[i]
  BY <1>4, <1>5
<1> QED BY <1>5, <1>6, <1>7 DEF IsSeq

LEMMA ResponseSound ==
  ASSUME NEW w, NEW todo, NEW n, WireSound(w, todo, n), todo # <<>>
  PROVE  WireSound(AddPart(w, FunctionResponse(Head(todo).name, Head(todo).nth)), Tail(todo), n)
<1> DEFINE name == Head(todo).name
           nth == Head(todo).nth
           r == FunctionResponse(name, nth)
           v == AddPart(w, r)
           e == [role |-> "tool", id |-> nth, nth |-> nth]
<1>1. PICK a : a = n - Len(todo)
  OBVIOUS
<1>2. PICK rest : rest = Tail(todo)
  OBVIOUS
<1>3. PICK p : p = RemoveAt(w.pending, 1)
  OBVIOUS
<1>4. PICK s : s = Append(w.messages, e)
  OBVIOUS
<1>5. /\ n \in Nat /\ Len(todo) \in Nat /\ Len(todo) <= n
      /\ IsSeq(w.messages) /\ IsSeq(w.pending) /\ IsSeq(todo)
      /\ Len(w.pending) = Len(todo) /\ Paired(w.messages, a, n)
  BY <1>1, SeqLen DEF WireSound, Waits
<1>6. /\ IsSeq(rest) /\ Len(rest) = Len(todo) - 1 /\ Head(todo) = todo[1] /\ Len(todo) >= 1
      /\ \A i \in 1..(Len(todo) - 1) : rest[i] = todo[i + 1]
  BY <1>2, <1>5, TailShifts
<1>7. /\ IsSeq(p) /\ Len(p) = Len(todo) - 1
      /\ \A i \in 1..(Len(todo) - 1) : p[i] = w.pending[i + 1]
  BY <1>3, <1>5, <1>6, RemoveFirstShifts
<1>8. w.pending[1].name = name /\ w.pending[1].id = nth /\ nth = a + 1
  BY <1>1, <1>5, <1>6 DEF WireSound, Waits, Numbers
<1>9. Waiting(w, name) = 1
  <2> DEFINE I == {i \in 1..Len(w.pending) : w.pending[i].name = name}
  <2>1. 1 \in I /\ I \subseteq Nat /\ \A i \in I : 1 <= i
    BY <1>5, <1>6, <1>8
  <2>2. Waiting(w, name) = IF I # {} THEN Min(I) ELSE 0
    BY DEF Waiting, SelectInSeq
  <2> HIDE DEF I, name
  <2>3. PICK least : least = Min(I)
    OBVIOUS
  <2>4. least \in I /\ \A i \in I : least <= i
    BY <2>1, <2>3 DEF Min
  <2>5. least = 1
    BY <2>1, <2>4
  <2> QED BY <2>1, <2>2, <2>3, <2>5
<1>10. r.kind = "response" /\ r.name = name /\ r.nth = nth
  BY DEF FunctionResponse
<1>11. v = [messages |-> s, pending |-> p, seq |-> n]
  <2>1. v = AddResponse(w, r)
    BY <1>10 DEF AddPart
  <2> HIDE DEF name, nth, r, v
  <2>2. w.seq = n
    BY DEF WireSound
  <2> QED BY <1>3, <1>4, <1>8, <1>9, <1>10, <2>1, <2>2 DEF AddResponse
<1>12. /\ DOMAIN v = {"messages", "pending", "seq"}
       /\ v.messages = s /\ v.pending = p /\ v.seq = n
  BY <1>11
<1>13. PICK k : Grown(s, w.messages, e, k)
  BY <1>4 DEF Grown
<1>14. IsSeq(s)
  BY <1>5, <1>13, AppendGrows
<1>15. a \in Nat /\ a < n /\ n - Len(rest) = a + 1 /\ Len(rest) <= n
  BY <1>1, <1>5, <1>6
<1>16. Paired(s, a + 1, n)
  <2>1. e.role = "tool" /\ e.id = a + 1 /\ e.nth = a + 1
    BY <1>8
  <2> HIDE DEF e
  <2> QED BY <1>5, <1>13, <1>15, <2>1, PairedResponse
<1>17. \A i \in 1..Len(rest) : i + 1 \in 1..Len(todo) /\ rest[i] = todo[i + 1] /\ p[i] = w.pending[i + 1]
  BY <1>5, <1>6, <1>7
<1>18. Waits(p, rest)
  BY <1>6, <1>7, <1>17 DEF WireSound, Waits
<1>19. Numbers(rest, n)
  <2>1. \A i \in 1..Len(rest) : todo[i + 1].nth = n - Len(todo) + (i + 1)
    BY <1>17 DEF WireSound, Numbers
  <2>2. \A i \in 1..Len(rest) : n - Len(todo) + (i + 1) = n - Len(rest) + i
    BY <1>5, <1>6
  <2> QED BY <1>17, <2>1, <2>2 DEF Numbers
<1> HIDE DEF v
<1>20. WireSound(v, rest, n)
  BY <1>5, <1>6, <1>7, <1>12, <1>14, <1>15, <1>16, <1>18, <1>19 DEF WireSound
<1> QED BY <1>2, <1>20 DEF v

(* Parts are added one after the other: the first k of them.               *)
Prefix(d, k) == [i \in 1..k |-> d[i]]

LEMMA TwoSeqs ==
  ASSUME NEW c, NEW d, IsSeq(c), IsSeq(d)
  PROVE  \E S : c \in Seq(S) /\ d \in Seq(S)
<1>1. PICK S : c \in Seq(S)
  BY DEF IsSeq
<1>2. PICK T : d \in Seq(T)
  BY DEF IsSeq
<1>3. c \in Seq(S \cup T) /\ d \in Seq(S \cup T)
  BY <1>1, <1>2
<1> QED BY <1>3

LEMMA PrefixEnds ==
  ASSUME NEW c, NEW d, IsSeq(c), IsSeq(d)
  PROVE  /\ Prefix(d, 0) = <<>> /\ c \o Prefix(d, 0) = c
         /\ Prefix(d, Len(d)) = d /\ IsSeq(c \o d)
<1>1. PICK S : c \in Seq(S) /\ d \in Seq(S)
  BY TwoSeqs
<1>2. Prefix(d, 0) = <<>>
  BY DEF Prefix
<1>3. c \o <<>> = c
  BY <1>1
<1>4. Prefix(d, Len(d)) = d
  BY <1>1 DEF Prefix
<1>5. c \o d \in Seq(S)
  BY <1>1
<1> QED BY <1>2, <1>3, <1>4, <1>5 DEF IsSeq

LEMMA PrefixGrows ==
  ASSUME NEW c, NEW d, IsSeq(c), IsSeq(d), NEW k \in 1..Len(d)
  PROVE  /\ IsSeq(Prefix(d, k - 1)) /\ IsSeq(c \o Prefix(d, k - 1))
         /\ Grown(Prefix(d, k), Prefix(d, k - 1), d[k], k)
         /\ c \o Prefix(d, k) = Append(c \o Prefix(d, k - 1), d[k])
<1>1. PICK S : c \in Seq(S) /\ d \in Seq(S)
  BY TwoSeqs
<1>2. PICK p : p = Prefix(d, k - 1)
  OBVIOUS
<1>3. p \in Seq(S) /\ Len(p) = k - 1 /\ \A i \in 1..(k - 1) : p[i] = d[i]
  BY <1>1, <1>2 DEF Prefix
<1>4. d[k] \in S /\ k \in Nat \ {0}
  BY <1>1
<1>5. Append(p, d[k]) = Prefix(d, k)
  <2>1. Append(p, d[k]) = [i \in 1..k |-> IF i = k THEN d[k] ELSE p[i]]
    BY <1>3, <1>4
  <2>2. \A i \in 1..k : (IF i = k THEN d[k] ELSE p[i]) = d[i]
    BY <1>3, <1>4
  <2> QED BY <2>1, <2>2 DEF Prefix
<1>6. c \o Append(p, d[k]) = Append(c \o p, d[k])
  BY <1>1, <1>3, <1>4
<1>7. c \o p \in Seq(S)
  BY <1>1, <1>3
<1>8. Len(p) + 1 = k
  BY <1>3, <1>4
<1> QED BY <1>2, <1>3, <1>5, <1>6, <1>7, <1>8 DEF IsSeq, Grown

LEMMA TextsSound ==
  ASSUME NEW c, IsSeq(c), NEW n, WireSound(Wire(c), <<>>, n), NEW d, IsSeq(d),
         \A i \in 1..Len(d) : d[i] \in {Text("user"), Text("model")}
  PROVE  IsSeq(c \o d) /\ WireSound(Wire(c \o d), <<>>, n)
<1> DEFINE Bad == {k \in 0..Len(d) : ~WireSound(Wire(c \o Prefix(d, k)), <<>>, n)}
<1>1. Len(d) \in Nat
  BY SeqLen
<1>2. ASSUME Bad # {} PROVE FALSE
  <2> Bad \subseteq Nat
    BY <1>1
  <2>1. PICK k \in Bad : \A m \in Bad : k <= m
    <3> HIDE DEF Bad
    <3> QED BY <1>2, LeastNat
  <2>2. k # 0
    BY <2>1, PrefixEnds
  <2>3. k \in 1..Len(d) /\ k - 1 \in 0..Len(d) /\ ~(k <= k - 1)
    BY <1>1, <2>1, <2>2
  <2>4. WireSound(Wire(c \o Prefix(d, k - 1)), <<>>, n)
    BY <2>1, <2>3
  <2>5. /\ IsSeq(c \o Prefix(d, k - 1))
        /\ c \o Prefix(d, k) = Append(c \o Prefix(d, k - 1), d[k])
    BY <2>3, PrefixGrows
  <2>6. PICK role \in {"user", "model"} : d[k] = Text(role)
    BY <2>3
  <2>7. WireSound(AddPart(Wire(c \o Prefix(d, k - 1)), d[k]), <<>>, n)
    BY <2>4, <2>6, TextSound
  <2>8. Wire(c \o Prefix(d, k)) = AddPart(Wire(c \o Prefix(d, k - 1)), d[k])
    BY <2>5, WireAppends
  <2> QED BY <2>1, <2>7, <2>8
<1>3. Len(d) \in 0..Len(d)
  BY <1>1
<1>4. WireSound(Wire(c \o Prefix(d, Len(d))), <<>>, n)
  BY <1>2, <1>3
<1> QED BY <1>4, PrefixEnds

LEMMA BatchSound ==
  ASSUME NEW c, IsSeq(c), NEW n, WireSound(Wire(c), <<>>, n), NEW S, NEW names \in Seq(S)
  PROVE  LET d == Numbered(names, n)
         IN /\ IsSeq(c \o d) /\ Len(d) = Len(names)
            /\ WireSound(Wire(c \o d), d, n + Len(d))
<1>1. PICK d : d = Numbered(names, n)
  OBVIOUS
<1>2. n \in Nat
  BY DEF WireSound
<1>3. /\ IsSeq(d) /\ Len(d) = Len(names) /\ Len(d) \in Nat
      /\ \A i \in 1..Len(d) : d[i] = FunctionCall(names[i], n + i)
  <2>1. DOMAIN names = 1..Len(names) /\ Len(names) \in Nat
    OBVIOUS
  <2>2. PICK P : P = {FunctionCall(names[i], n + i) : i \in 1..Len(names)}
    OBVIOUS
  <2>3. d = [i \in 1..Len(names) |-> FunctionCall(names[i], n + i)]
    BY <1>1, <2>1 DEF Numbered
  <2>4. \A i \in 1..Len(names) : FunctionCall(names[i], n + i) \in P
    BY <2>2
  <2>5. d \in [1..Len(names) -> P]
    BY <2>3, <2>4
  <2>6. d \in Seq(P) /\ Len(d) = Len(names)
    BY <2>1, <2>5
  <2>7. \A i \in 1..Len(names) : d[i] = FunctionCall(names[i], n + i)
    BY <2>3
  <2> QED BY <2>1, <2>6, <2>7 DEF IsSeq
<1> DEFINE Good(k) == WireSound(Wire(c \o Prefix(d, k)), Prefix(d, k), n + k)
           Bad == {k \in 0..Len(d) : ~Good(k)}
<1>4. ASSUME Bad # {} PROVE FALSE
  <2> Bad \subseteq Nat
    BY <1>3
  <2>1. PICK k \in Bad : \A m \in Bad : k <= m
    <3> HIDE DEF Bad
    <3> QED BY <1>4, LeastNat
  <2>2. k # 0
    <3>1. n + 0 = n
      BY <1>2
    <3>2. Good(0)
      BY <1>3, <3>1, PrefixEnds
    <3> QED BY <2>1, <3>2
  <2>3. k \in 1..Len(d) /\ k - 1 \in 0..Len(d) /\ ~(k <= k - 1)
    BY <1>3, <2>1, <2>2
  <2>4. PICK m : m = n + (k - 1)
    OBVIOUS
  <2>5. m + 1 = n + k
    BY <1>2, <2>3, <2>4
  <2>6. PICK less : less = Prefix(d, k - 1)
    OBVIOUS
  <2>7. PICK more : more = Prefix(d, k)
    OBVIOUS
  <2>8. WireSound(Wire(c \o less), less, m)
    BY <2>1, <2>3, <2>4, <2>6
  <2>9. /\ IsSeq(c \o less)
        /\ Grown(more, less, d[k], k)
        /\ c \o more = Append(c \o less, d[k])
    <3>1. IsSeq(d) /\ k \in 1..Len(d)
      BY <1>3, <2>3
    <3> QED BY <2>6, <2>7, <3>1, PrefixGrows
  <2>10. d[k] = FunctionCall(names[k], m + 1)
    BY <1>3, <2>3, <2>5
  <2>11. WireSound(AddPart(Wire(c \o less), d[k]), more, m + 1)
    BY <2>8, <2>9, <2>10, CallSound
  <2>12. Wire(c \o more) = AddPart(Wire(c \o less), d[k])
    BY <2>9, WireAppends
  <2>13. Good(k)
    BY <2>5, <2>7, <2>11, <2>12
  <2> QED BY <2>1, <2>13
<1>5. Len(d) \in 0..Len(d)
  BY <1>3
<1>6. Good(Len(d))
  BY <1>4, <1>5
<1>7. WireSound(Wire(c \o d), d, n + Len(d)) /\ IsSeq(c \o d)
  BY <1>3, <1>6, PrefixEnds
<1> QED BY <1>1, <1>3, <1>7

-----------------------------------------------------------------------------
(* The inductive invariant: what the turns that are in their rounds have   *)
(* for contents is sound on the wire, and the calls it lacks results of    *)
(* are those the turn has yet to run.                                      *)
Rounds == {"think", "tools"}

Speakers(s) == IsSeq(s) /\ \A i \in 1..Len(s) : s[i].role \in {"user", "model"}

AskTurn(t) ==
  /\ Speakers(t.seen)
  /\ t.todo # <<>> <=> t.pc = "tools"
  /\ t.pc \notin Rounds => t.nth = 0
  /\ t.pc \in Rounds => IsSeq(t.contents) /\ WireSound(Wire(t.contents), t.todo, t.nth)

AskInv == Speakers(rows) /\ \A m \in Msgs : AskTurn(turn[m])

LEMMA EmptySpeakers == Speakers(<<>>)
<1>1. <<>> \in Seq({})
  OBVIOUS
<1> QED BY <1>1 DEF Speakers, IsSeq

LEMMA AppendSpeakers ==
  ASSUME NEW r, Speakers(r), NEW e, e.role \in {"user", "model"}
  PROVE  Speakers(Append(r, e))
<1>1. PICK s : s = Append(r, e)
  OBVIOUS
<1>2. PICK n : Grown(s, r, e, n)
  BY <1>1 DEF Grown
<1>3. /\ IsSeq(s) /\ s[n] = e /\ n \in Nat \ {0} /\ Len(r) = n - 1 /\ Len(s) = n
      /\ \A i \in 1..(n - 1) : s[i] = r[i]
  BY <1>2, AppendGrows DEF Speakers
<1>4. 1..n = 1..(n - 1) \cup {n}
  BY <1>3
<1>5. \A i \in 1..n : s[i].role \in {"user", "model"}
  BY <1>3, <1>4 DEF Speakers
<1> QED BY <1>1, <1>3, <1>5 DEF Speakers

(* The contents a turn starts with are texts.                              *)
LEMMA ContentsTexts ==
  ASSUME NEW seen, Speakers(seen)
  PROVE  LET c == BuildContents(seen)
         IN IsSeq(c) /\ \A i \in 1..Len(c) : c[i] \in {Text("user"), Text("model")}
<1> DEFINE I == {i \in 1..Len(seen) : seen[i].role = "user"}
           first == SelectInSeq(seen, LAMBDA t : t.role = "user")
           turns == IF first = 0 THEN <<[role |-> "user"]>> ELSE SubSeq(seen, first, Len(seen))
           c == BuildContents(seen)
<1>1. Len(seen) \in Nat /\ IsSeq(seen)
  BY SeqLen DEF Speakers
<1>2. first = IF I # {} THEN Min(I) ELSE 0
  BY DEF SelectInSeq
<1>3. first \in 0..Len(seen)
  <2>1. CASE I = {}
    BY <1>1, <1>2, <2>1
  <2>2. CASE I # {}
    <3>1. I \subseteq Nat /\ I \subseteq 1..Len(seen)
      BY <1>1
    <3> HIDE DEF I, first
    <3>2. \E i \in I : \A k \in I : i <= k
      BY <2>2, <3>1, LeastNat
    <3>3. Min(I) \in I
      BY <3>2 DEF Min
    <3>4. first \in I
      BY <1>2, <2>2, <3>3
    <3>5. first \in 1..Len(seen)
      BY <3>1, <3>4
    <3> QED BY <1>1, <3>5
  <2> QED BY <2>1, <2>2
<1>4. Speakers(turns)
  <2> HIDE DEF first
  <2>1. CASE first = 0
    <3>1. PICK s : s = <<[role |-> "user"]>>
      OBVIOUS
    <3>2. s \in Seq({[role |-> "user"]}) /\ Len(s) = 1 /\ s[1].role = "user"
      BY <3>1
    <3>3. Speakers(s)
      BY <3>2 DEF Speakers, IsSeq
    <3> QED BY <2>1, <3>1, <3>3
  <2>2. CASE first # 0
    <3>1. PICK n : n = Len(seen)
      OBVIOUS
    <3>2. PICK s : s = SubSeq(seen, first, n)
      OBVIOUS
    <3>3. PICK S : seen \in Seq(S)
      BY <1>1 DEF IsSeq
    <3>4. first \in 1..n /\ n \in Nat /\ first \in Int /\ n \in Int
      BY <1>1, <1>3, <2>2, <3>1
    <3>5. \A i \in first..n : seen[i] \in S /\ seen[i].role \in {"user", "model"}
      BY <3>1, <3>3, <3>4 DEF Speakers
    <3>6. /\ s \in Seq(S) /\ Len(s) = IF first <= n THEN n - first + 1 ELSE 0
          /\ \A i \in 1..(n - first + 1) : s[i] = seen[first + i - 1]
      BY <3>2, <3>4, <3>5, SubSeqProperties
    <3>7. Len(s) = n - first + 1
      BY <3>4, <3>6
    <3>8. \A i \in 1..(n - first + 1) : first + i - 1 \in first..n
      BY <3>4
    <3>9. \A i \in 1..Len(s) : s[i].role \in {"user", "model"}
      BY <3>5, <3>6, <3>7, <3>8
    <3>10. Speakers(s)
      BY <3>6, <3>9 DEF Speakers, IsSeq
    <3> QED BY <2>2, <3>1, <3>2, <3>10
  <2> QED BY <2>1, <2>2
<1>5. c = [i \in DOMAIN turns |-> Text(turns[i].role)]
  BY DEF BuildContents
<1> HIDE DEF turns, c
<1>6. PICK n : n = Len(turns) /\ n \in Nat /\ DOMAIN turns = 1..n
  BY <1>4, SeqLen DEF Speakers
<1> DEFINE P == {Text("user"), Text("model")}
<1>7. \A i \in 1..n : Text(turns[i].role) \in P
  BY <1>4, <1>6 DEF Speakers
<1> HIDE DEF P
<1>8. c \in [1..n -> P]
  BY <1>5, <1>6, <1>7
<1>9. c \in Seq(P) /\ Len(c) = n /\ \A i \in 1..n : c[i] \in P
  BY <1>6, <1>8
<1> QED BY <1>9 DEF IsSeq, c, P

LEMMA StartSound ==
  ASSUME NEW seen, Speakers(seen), NEW m
  PROVE  LET c == BuildContents(seen) \o Directive(m)
         IN IsSeq(c) /\ WireSound(Wire(c), <<>>, 0)
<1>1. PICK e : e = <<>>
  OBVIOUS
<1>2. PICK c : c = BuildContents(seen)
  OBVIOUS
<1>3. PICK d : d = Directive(m)
  OBVIOUS
<1>4. IsSeq(e) /\ WireSound(Wire(e), <<>>, 0)
  BY <1>1, EmptySpeakers, EmptySound, WireEmpty DEF Speakers
<1>5. IsSeq(c) /\ \A i \in 1..Len(c) : c[i] \in {Text("user"), Text("model")}
  BY <1>2, ContentsTexts
<1>6. IsSeq(d) /\ \A i \in 1..Len(d) : d[i] \in {Text("user"), Text("model")}
  <2>1. CASE d = <<>>
    <3>1. d \in Seq({}) /\ Len(d) = 0
      BY <2>1
    <3> QED BY <3>1 DEF IsSeq
  <2>2. CASE d = <<Text("user")>>
    <3>1. d \in Seq({Text("user")}) /\ Len(d) = 1 /\ d[1] = Text("user")
      BY <2>2
    <3> QED BY <3>1 DEF IsSeq
  <2> QED BY <1>3, <2>1, <2>2 DEF Directive
<1>7. IsSeq(e \o c) /\ WireSound(Wire(e \o c), <<>>, 0)
  BY <1>4, <1>5, TextsSound
<1>8. e \o c = c
  <2>1. PICK S : c \in Seq(S)
    BY <1>5 DEF IsSeq
  <2> QED BY <1>1, <2>1
<1>9. IsSeq(c) /\ WireSound(Wire(c), <<>>, 0)
  BY <1>7, <1>8
<1>10. IsSeq(c \o d) /\ WireSound(Wire(c \o d), <<>>, 0)
  BY <1>6, <1>9, TextsSound
<1> QED BY <1>2, <1>3, <1>10

(* What a turn is asked and answered is untouched.                         *)
SameTalk(u, t) ==
  u.seen = t.seen /\ u.todo = t.todo /\ u.nth = t.nth /\ u.contents = t.contents

LEMMA NoTurnAsks == AskTurn(NoTurn)
BY EmptySpeakers DEF AskTurn, NoTurn, Rounds

LEMMA MoveAsks ==
  ASSUME NEW t, AskTurn(t), NEW u, SameTalk(u, t), t.pc \notin Rounds, u.pc \notin Rounds
  PROVE  AskTurn(u)
BY DEF AskTurn, SameTalk, Rounds

LEMMA ConcludedAsks ==
  ASSUME NEW t, DOMAIN t = Fields, t.todo = <<>>, NEW text
  PROVE  AskTurn(Concluded(t, text))
<1> DEFINE u == Concluded(t, text)
<1>1. /\ u.pc \in {"store", "send"} /\ u.seen = <<>> /\ u.contents = <<>> /\ u.nth = 0
      /\ u.todo = t.todo
  BY SMT DEF Concluded, Fields, IsDirty
<1> HIDE DEF u
<1>2. AskTurn(u)
  BY <1>1, EmptySpeakers DEF AskTurn, Rounds
<1> QED BY <1>2 DEF u

LEMMA RespondedAsks ==
  ASSUME NEW t, DOMAIN t = Fields, AskTurn(t), t.pc = "tools"
  PROVE  LET r == Responded(t)
         IN /\ DOMAIN r = Fields /\ r.pc = "tools" /\ Speakers(r.seen) /\ IsSeq(r.contents)
            /\ WireSound(Wire(r.contents), r.todo, r.nth)
<1> DEFINE r == Responded(t)
           p == FunctionResponse(Head(t.todo).name, Head(t.todo).nth)
<1>1. PICK more : more = Append(t.contents, p)
  OBVIOUS
<1>2. PICK rest : rest = Tail(t.todo)
  OBVIOUS
<1>3. r = [t EXCEPT !.contents = more, !.todo = rest]
  BY <1>1, <1>2 DEF Responded
<1>4. /\ DOMAIN r = Fields /\ r.pc = t.pc /\ r.seen = t.seen /\ r.nth = t.nth
      /\ r.contents = more /\ r.todo = rest
  BY <1>3, SMT DEF Fields
<1> HIDE DEF r
<1>5. /\ IsSeq(t.contents) /\ WireSound(Wire(t.contents), t.todo, t.nth) /\ t.todo # <<>>
      /\ Speakers(t.seen)
  BY DEF AskTurn, Rounds
<1>6. WireSound(AddPart(Wire(t.contents), p), rest, t.nth)
  BY <1>2, <1>5, ResponseSound
<1> HIDE DEF p
<1>7. Wire(more) = AddPart(Wire(t.contents), p)
  BY <1>1, <1>5, WireAppends
<1>8. IsSeq(more)
  <2>1. PICK n : Grown(more, t.contents, p, n)
    BY <1>1 DEF Grown
  <2> QED BY <1>5, <2>1, AppendGrows
<1>9. WireSound(Wire(r.contents), r.todo, r.nth)
  BY <1>4, <1>6, <1>7
<1> QED BY <1>4, <1>5, <1>8, <1>9 DEF r

(* A step of the turn of m that makes it u.                                *)
AsksOn(m) == \E u : turn' = [turn EXCEPT ![m] = u] /\ AskTurn(u)

LEMMA ProceedsAsks ==
  ASSUME NEW m \in Msgs, NEW t, DOMAIN t = Fields, AskTurn(t), t.pc = "tools", Proceeds(m, t)
  PROVE  AsksOn(m)
<1> DEFINE r == Responded(t)
<1>1. /\ DOMAIN r = Fields /\ r.pc = "tools" /\ Speakers(r.seen) /\ IsSeq(r.contents)
      /\ WireSound(Wire(r.contents), r.todo, r.nth)
  BY RespondedAsks
<1> HIDE DEF r
<1>2. CASE r.todo # <<>>
  <2>1. turn' = [turn EXCEPT ![m] = r]
    BY <1>2 DEF Proceeds, r
  <2>2. AskTurn(r)
    BY <1>1, <1>2 DEF AskTurn, Rounds
  <2> QED BY <2>1, <2>2 DEF AsksOn
<1>3. CASE r.todo = <<>> /\ LastRound(r)
  <2>1. turn' = [turn EXCEPT ![m] = Concluded(r, Silence)]
    BY <1>3 DEF Proceeds, Conclude, r
  <2>2. AskTurn(Concluded(r, Silence))
    BY <1>1, <1>3, ConcludedAsks
  <2> QED BY <2>1, <2>2 DEF AsksOn
<1>4. CASE r.todo = <<>> /\ ~LastRound(r)
  <2> DEFINE u == [r EXCEPT !.pc = "think", !.round = @ + 1]
  <2>1. turn' = [turn EXCEPT ![m] = u]
    BY <1>4 DEF Proceeds, r
  <2>2. /\ u.pc = "think" /\ u.seen = r.seen /\ u.contents = r.contents /\ u.nth = r.nth
        /\ u.todo = r.todo
    BY <1>1, SMT DEF Fields
  <2> HIDE DEF u
  <2>3. AskTurn(u)
    BY <1>1, <1>4, <2>2 DEF AskTurn, Rounds
  <2> QED BY <2>1, <2>3 DEF AsksOn
<1> QED BY <1>2, <1>3, <1>4

(* A tool runs: the rest of the turn is of no account here.                *)
LEMMA ToolAsks ==
  ASSUME NEW m \in Msgs, AskTurn(turn[m]), NEW t, DOMAIN t = Fields, t.pc = "tools",
         turn[m].pc = "tools", SameTalk(t, turn[m]), Proceeds(m, t)
  PROVE  AsksOn(m)
<1>1. AskTurn(t)
  BY DEF AskTurn, SameTalk, Rounds
<1> QED BY <1>1, ProceedsAsks

LEMMA InsideAsks ==
  ASSUME NEW m \in Msgs, TypeInv, AskInv, Inside(m)
  PROVE  AsksOn(m)
<1>1. /\ DOMAIN turn = Msgs /\ DOMAIN turn[m] = Fields /\ AskTurn(turn[m])
      /\ Speakers(rows)
  BY DEF TypeInv, TurnsSound, SoundTurn, AskInv
<1>2. ASSUME NEW from, NEW step, turn[m].pc = from, Go(m, step),
             from \notin Rounds, step \notin Rounds
      PROVE  AsksOn(m)
  <2> DEFINE u == [turn[m] EXCEPT !.pc = step]
  <2>1. turn' = [turn EXCEPT ![m] = u]
    BY <1>2 DEF Go
  <2>2. u.pc = step /\ SameTalk(u, turn[m])
    BY <1>1, SMT DEF Fields, SameTalk
  <2> HIDE DEF u
  <2>3. AskTurn(u)
    BY <1>1, <1>2, <2>2, MoveAsks
  <2> QED BY <2>1, <2>3 DEF AsksOn
<1>3. CASE Transcribe(m)
  BY <1>2, <1>3 DEF Transcribe, At, Rounds
<1>4. CASE LoadHistory(m)
  <2> DEFINE r == KeywordRoute(m)
             step == IF r = "none" THEN "router" ELSE "load"
             u == [turn[m] EXCEPT !.pc = step, !.seen = rows, !.route = r]
  <2>1. turn' = [turn EXCEPT ![m] = u] /\ turn[m].pc = "history"
    BY <1>4 DEF LoadHistory, At
  <2>2. /\ u.pc \in {"router", "load"} /\ u.seen = rows /\ u.todo = turn[m].todo
        /\ u.nth = turn[m].nth
    <3> HIDE DEF r
    <3> QED BY <1>1, SMT DEF Fields
  <2> HIDE DEF u
  <2>3. AskTurn(u)
    BY <1>1, <2>1, <2>2 DEF AskTurn, Rounds
  <2> QED BY <2>1, <2>3 DEF AsksOn
<1>5. CASE RouterAnswers(m)
  <2>1. PICK r \in Routes : turn' = [turn EXCEPT ![m].pc = "load", ![m].route = r]
    BY <1>5 DEF RouterAnswers
  <2> DEFINE u == [turn[m] EXCEPT !.pc = "load", !.route = r]
  <2>2. turn' = [turn EXCEPT ![m] = u] /\ turn[m].pc = "router"
    BY <1>5, <2>1 DEF RouterAnswers, At
  <2>3. u.pc = "load" /\ SameTalk(u, turn[m])
    BY <1>1, SMT DEF Fields, SameTalk
  <2> HIDE DEF u
  <2>4. AskTurn(u)
    BY <1>1, <2>2, <2>3, MoveAsks DEF Rounds
  <2> QED BY <2>2, <2>4 DEF AsksOn
<1>6. CASE LoadCart(m)
  <2> DEFINE c == BuildContents(turn[m].seen) \o Directive(m)
             u == [turn[m] EXCEPT !.pc = "think", !.cart = cart, !.contents = c]
  <2>1. turn' = [turn EXCEPT ![m] = u] /\ turn[m].pc = "load"
    BY <1>6 DEF LoadCart, At
  <2>2. IsSeq(c) /\ WireSound(Wire(c), <<>>, 0)
    BY <1>1, StartSound DEF AskTurn
  <2> HIDE DEF c
  <2>3. /\ u.pc = "think" /\ u.seen = turn[m].seen /\ u.todo = turn[m].todo
        /\ u.nth = turn[m].nth /\ u.contents = c
    BY <1>1, SMT DEF Fields
  <2> HIDE DEF u
  <2>4. turn[m].todo = <<>> /\ turn[m].nth = 0 /\ Speakers(turn[m].seen)
    BY <1>1, <2>1 DEF AskTurn, Rounds
  <2>5. AskTurn(u)
    BY <2>2, <2>3, <2>4 DEF AskTurn, Rounds
  <2> QED BY <2>1, <2>5 DEF AsksOn
<1>7. CASE CallTools(m)
  <2>1. PICK names \in Batches :
          LET calls == Numbered(names, turn[m].nth)
          IN turn' = [turn EXCEPT ![m].pc = "tools", ![m].todo = calls,
                                  ![m].contents = @ \o calls, ![m].nth = @ + Len(calls)]
    BY <1>7 DEF CallTools
  <2> DEFINE calls == Numbered(names, turn[m].nth)
             u == [turn[m] EXCEPT !.pc = "tools", !.todo = calls,
                                  !.contents = @ \o calls, !.nth = @ + Len(calls)]
  <2>2. turn' = [turn EXCEPT ![m] = u]
    <3> HIDE DEF calls
    <3> QED BY <2>1 DEF calls
  <2>3. turn[m].pc = "think" /\ names \in Seq(STRING) /\ names # <<>>
    BY <1>7, AgentTurnAssumption DEF CallTools, At, AgentTurnAssumption
  <2>4. /\ IsSeq(turn[m].contents) /\ turn[m].todo = <<>> /\ Speakers(turn[m].seen)
        /\ WireSound(Wire(turn[m].contents), <<>>, turn[m].nth)
    BY <1>1, <2>3 DEF AskTurn, Rounds
  <2>5. /\ IsSeq(turn[m].contents \o calls) /\ Len(calls) = Len(names)
        /\ WireSound(Wire(turn[m].contents \o calls), calls, turn[m].nth + Len(calls))
    BY <2>3, <2>4, BatchSound
  <2>6. calls # <<>>
    BY <2>3, <2>5
  <2> HIDE DEF calls
  <2>7. /\ u.pc = "tools" /\ u.seen = turn[m].seen /\ u.todo = calls
        /\ u.contents = turn[m].contents \o calls /\ u.nth = turn[m].nth + Len(calls)
    BY <1>1, SMT DEF Fields
  <2> HIDE DEF u
  <2>8. AskTurn(u)
    BY <2>4, <2>5, <2>6, <2>7, Zenon DEF AskTurn, Rounds
  <2> QED BY <2>2, <2>8 DEF AsksOn
<1>8. CASE Reply(m)
  <2>1. PICK text \in Texts \cup {Silence} : Conclude(m, turn[m], text)
    BY <1>8 DEF Reply
  <2>2. turn' = [turn EXCEPT ![m] = Concluded(turn[m], text)] /\ turn[m].pc = "think"
    BY <1>8, <2>1 DEF Reply, At, Conclude
  <2>3. turn[m].todo = <<>>
    BY <1>1, <2>2 DEF AskTurn
  <2>4. AskTurn(Concluded(turn[m], text))
    BY <1>1, <2>3, ConcludedAsks
  <2> QED BY <2>2, <2>4 DEF AsksOn
<1>9. CASE OrderRefused(m) \/ Look(m)
  <2>1. turn[m].pc = "tools" /\ Proceeds(m, turn[m])
    BY <1>9 DEF OrderRefused, Look, Runs, At
  <2> QED BY <1>1, <2>1, ProceedsAsks
<1>10. CASE Escalate(m)
  <2> DEFINE t == [turn[m] EXCEPT !.escalated = TRUE]
  <2>1. turn[m].pc = "tools" /\ Proceeds(m, t)
    BY <1>10 DEF Escalate, Runs, At
  <2>2. DOMAIN t = Fields /\ t.pc = turn[m].pc /\ SameTalk(t, turn[m])
    BY <1>1, SMT DEF Fields, SameTalk
  <2> HIDE DEF t
  <2> QED BY <1>1, <2>1, <2>2, ToolAsks
<1>11. CASE AddToCart(m)
  <2>1. turn[m].pc = "tools"
    BY <1>11 DEF AddToCart, Runs, At
  <2> DEFINE t == [turn[m] EXCEPT !.cart = @ \cup {NextUnit}, !.dirty = TRUE]
  <2>2. Proceeds(m, t) \/ Proceeds(m, turn[m])
    BY <1>11 DEF AddToCart
  <2>3. DOMAIN t = Fields /\ t.pc = turn[m].pc /\ SameTalk(t, turn[m])
    BY <1>1, SMT DEF Fields, SameTalk
  <2> HIDE DEF t
  <2> QED BY <1>1, <2>1, <2>2, <2>3, ToolAsks, ProceedsAsks
<1>12. CASE CreateOrder(m)
  <2>1. turn[m].pc = "tools"
    BY <1>12 DEF CreateOrder, Runs, At
  <2>2. PICK units \in SUBSET turn[m].cart \ {{}} :
          Proceeds(m, [turn[m] EXCEPT !.cart = {}, !.dirty = TRUE, !.made = @ \cup units])
    BY <1>12 DEF CreateOrder
  <2> DEFINE t == [turn[m] EXCEPT !.cart = {}, !.dirty = TRUE, !.made = @ \cup units]
  <2>3. DOMAIN t = Fields /\ t.pc = turn[m].pc /\ SameTalk(t, turn[m])
    BY <1>1, SMT DEF Fields, SameTalk
  <2>4. Proceeds(m, t)
    BY <2>2
  <2> HIDE DEF t
  <2> QED BY <1>1, <2>1, <2>3, <2>4, ToolAsks
<1>13. CASE StoreCart(m)
  <2> DEFINE u == [turn[m] EXCEPT !.pc = "send", !.made = {}]
  <2>1. turn' = [turn EXCEPT ![m] = u] /\ turn[m].pc = "store"
    BY <1>13 DEF StoreCart, At
  <2>2. u.pc = "send" /\ SameTalk(u, turn[m])
    BY <1>1, SMT DEF Fields, SameTalk
  <2> HIDE DEF u
  <2>3. AskTurn(u)
    BY <1>1, <2>1, <2>2, MoveAsks DEF Rounds
  <2> QED BY <2>1, <2>3 DEF AsksOn
<1>14. CASE Send(m) /\ turn[m].said.words # {}
  BY <1>2, <1>14 DEF Send, At, Rounds
<1>15. CASE Record(m)
  BY <1>2, <1>15 DEF Record, At, Rounds
<1> QED BY <1>3, <1>4, <1>5, <1>6, <1>7, <1>8, <1>9, <1>10, <1>11, <1>12, <1>13, <1>14, <1>15
        DEF Inside, PlainStep

LEMMA AskStep ==
  ASSUME TypeInv, AskInv, Next
  PROVE  AskInv'
<1>1. PICK m \in Msgs :
        \/ Arrive(m) \/ Take(m) \/ Inside(m)
        \/ (Send(m) /\ turn[m].said.words = {}) \/ Close(m)
        \/ Wait(m) \/ AttemptFails(m) \/ WorkerDies(m)
  BY StepCases
<1>2. DOMAIN turn = Msgs /\ DOMAIN turn[m] = Fields /\ AskTurn(turn[m])
  BY DEF TypeInv, TurnsSound, SoundTurn, AskInv
<1>3. Speakers(rows')
  <2>1. rows' = rows \/ (\E e : e.role \in {"user", "model"} /\ rows' = Append(rows, e))
    <3>1. FromCustomer(m).role = "user" /\ FromUs(turn[m]).role = "model"
      BY DEF FromCustomer, FromUs
    <3>2. CASE Arrive(m)
      BY <3>1, <3>2 DEF Arrive
    <3>3. CASE Record(m)
      BY <3>1, <3>3 DEF Record
    <3>4. CASE Inside(m) /\ ~Record(m)
      BY <3>4, InsideRows
    <3>5. CASE ~Arrive(m) /\ ~Inside(m)
      BY <1>1, <3>5, Zenon DEF Take, Send, Close, Wait, turnVars, AttemptFails, WorkerDies, Drop
    <3> QED BY <3>2, <3>3, <3>4, <3>5
  <2>2. CASE rows' = rows
    BY <2>2 DEF AskInv
  <2>3. ASSUME NEW e, e.role \in {"user", "model"}, rows' = Append(rows, e)
        PROVE  Speakers(rows')
    <3>1. Speakers(rows)
      BY DEF AskInv
    <3>2. Speakers(Append(rows, e))
      BY <2>3, <3>1, AppendSpeakers
    <3> QED BY <2>3, <3>2, Zenon
  <2> QED BY <2>1, <2>2, <2>3
<1>4. ASSUME AsksOn(m) PROVE \A n \in Msgs : AskTurn(turn'[n])
  <2>1. PICK u : turn' = [turn EXCEPT ![m] = u] /\ AskTurn(u)
    BY <1>4 DEF AsksOn
  <2>2. \A n \in Msgs : turn'[n] = IF n = m THEN u ELSE turn[n]
    BY <1>2, <2>1
  <2> QED BY <2>1, <2>2 DEF AskInv
<1>5. CASE Inside(m)
  BY <1>3, <1>4, <1>5, InsideAsks DEF AskInv
<1>6. CASE Take(m)
  <2>1. PICK step \in {"voice", "history"} : Go(m, step)
    BY <1>6 DEF Take
  <2> DEFINE u == [turn[m] EXCEPT !.pc = step]
  <2>2. turn' = [turn EXCEPT ![m] = u]
    BY <2>1 DEF Go
  <2>3. u.pc = step /\ SameTalk(u, turn[m])
    BY <1>2, SMT DEF Fields, SameTalk
  <2>4. turn[m].pc = "idle"
    BY <1>6 DEF Take, TypeInv, TurnsSound
  <2> HIDE DEF u
  <2>5. AskTurn(u)
    BY <1>2, <2>3, <2>4, MoveAsks DEF Rounds
  <2> QED BY <1>3, <1>4, <2>2, <2>5 DEF AsksOn, AskInv
<1>7. CASE Arrive(m) \/ Wait(m)
  <2>1. turn' = turn
    BY <1>7 DEF Arrive, Wait, turnVars
  <2> QED BY <1>3, <2>1 DEF AskInv
<1>8. CASE (Send(m) /\ turn[m].said.words = {}) \/ Close(m) \/ AttemptFails(m) \/ WorkerDies(m)
  <2>1. turn' = [turn EXCEPT ![m] = NoTurn]
    BY <1>8, Zenon DEF Send, Close, Finish, AttemptFails, WorkerDies, Drop
  <2> QED BY <1>3, <1>4, <2>1, NoTurnAsks DEF AsksOn, AskInv
<1> QED BY <1>1, <1>5, <1>6, <1>7, <1>8

LEMMA AskInvAlways == Spec => []AskInv
<1>1. Init => AskInv
  <2> SUFFICES ASSUME Init PROVE AskInv
    OBVIOUS
  <2>1. rows = <<>> /\ \A m \in Msgs : turn[m] = NoTurn
    BY DEF Init
  <2> QED BY <2>1, EmptySpeakers, NoTurnAsks DEF AskInv
<1>2. TypeInv /\ AskInv /\ [Next]_vars => AskInv'
  <2> SUFFICES ASSUME TypeInv, AskInv, [Next]_vars PROVE AskInv'
    OBVIOUS
  <2>1. CASE UNCHANGED vars
    BY <2>1 DEF vars, turnVars, AskInv
  <2> QED BY <2>1, AskStep
<1> QED BY <1>1, <1>2, TypeInvAlways, PTL DEF Spec

(* Whatever tools a turn calls, as often and in as many rounds as it may,  *)
(* one name several times included, every request pairs each call with its *)
(* own result (grok.ts:214-273).                                           *)
THEOREM CallsGetTheirResults == Spec => []CallsAnswered
<1>1. AskInv => CallsAnswered
  <2> SUFFICES ASSUME AskInv, NEW m \in Msgs, turn[m].pc = "think"
               PROVE  WellFormed(BuildRequest(turn[m].contents))
    BY DEF CallsAnswered, At
  <2>1. PICK n : n = turn[m].nth
    OBVIOUS
  <2>2. turn[m].todo = <<>> /\ WireSound(Wire(turn[m].contents), <<>>, n)
    BY <2>1 DEF AskInv, AskTurn, Rounds
  <2>3. n \in Nat /\ Len(<<>>) = 0 /\ Paired(Wire(turn[m].contents).messages, n - 0, n)
    BY <2>2 DEF WireSound
  <2>4. Paired(Wire(turn[m].contents).messages, n, n)
    BY <2>3
  <2> QED BY <2>3, <2>4, PairedWellFormed DEF BuildRequest
<1> QED BY <1>1, AskInvAlways, PTL

=============================================================================
