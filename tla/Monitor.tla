------------------------------- MODULE Monitor -------------------------------
(***************************************************************************)
(* The error-spike monitor: createMonitor's runCheck, fired by a timer in  *)
(* every worker process, the Redis counter of failed AI calls it reads,    *)
(* and the alert it claims for a cooldown and dispatches.                  *)
(*                                                                         *)
(* One action for each await: the counter is written in two, a check reads *)
(* its four signals side by side, claims, and sends to each channel.  Time *)
(* passes in ticks, and Redis drops a key when its time is up.             *)
(***************************************************************************)
EXTENDS Integers, FiniteSets

CONSTANTS
  Messages,       \* places for FAILED rows of the messages table
  RawEvents,      \* places for PENDING rows of the events table
  Errors,         \* failed calls of an LLM provider
  Checks,         \* the monitors' timers, one in each worker process
  Channels,       \* alert channels configured
  Interval,       \* ticks between two checks of a timer
  Window, BacklogAge, Cooldown, Threshold,  \* MonitorConfig
  Queries,        \* bound: the signals a check reads in one step; the code
                  \* awaits each of them on its own
  MaxLag,         \* bound: ticks that pass while a check runs
  MaxRows,        \* bound: such rows at a time
  MaxNow,         \* bound: the last tick
  Faults,         \* kinds of failure the environment may inject
  MaxFaults       \* bound: failures injected in one behaviour

Signals == {"failedMessages", "failedEvents", "pendingBacklog", "aiErrors"}

(* A check is far shorter than the cooldown: its sends time out.           *)
ASSUME MonitorAssumption ==
  /\ IsFiniteSet(Messages) /\ IsFiniteSet(RawEvents) /\ IsFiniteSet(Errors)
  /\ {BacklogAge, MaxLag, MaxRows, MaxFaults} \subseteq Nat
  /\ {Interval, Window, Cooldown} \subseteq Nat \ {0}
  /\ Threshold \in [Signals -> Nat]
  /\ Channels \subseteq {"slack", "email"}
  /\ Faults \subseteq {"count", "check", "send"}
  /\ Queries \subseteq SUBSET Signals /\ UNION Queries = Signals
  /\ MaxLag < Cooldown
  /\ MaxNow \in Nat /\ Window <= MaxNow

VARIABLES
  now,            \* Date.now() of every process and Redis' clock
  failed,         \* creation times of the FAILED messages
  pending,        \* creation times of the PENDING events
  error,          \* how far a failed call is counted, and when it failed
  count, expires, \* the counter's buckets, and when Redis drops them
  claims,         \* the cooldown slots, with the problems they stand for
  check,          \* the running checks
  delivered,      \* history: alerts a channel accepted in the last cooldown
  lapses          \* failures injected so far

rowVars == <<failed, pending>>
counterVars == <<error, count, expires>>
vars == <<now, rowVars, counterVars, claims, check, delivered, lapses>>

Ticks == Window..MaxNow
Bucket(t) == t \div Window
Buckets == Bucket(0)..Bucket(MaxNow)
Ttl_Window == Window
Ttl == 2 * Window
Never == 0                          \* a key without an expiry, a row not there
Problem == [signal : Signals, count : Nat]
Idle(t) == [pc |-> "idle", at |-> t, left |-> {}, to |-> {},
            got |-> [s \in Signals |-> 0]]

(* Types; in particular no counter key outlives two windows, and no slot a *)
(* cooldown.                                                               *)
TypeOK ==
  /\ now \in Ticks
  /\ failed \in [Messages -> {Never} \cup Ticks]
  /\ pending \in [RawEvents -> {Never} \cup Ticks]
  /\ error \in [Errors -> [pc : {"none", "incr", "expire", "done", "lost"}, at : Ticks]]
  /\ count \in [Buckets -> Nat]
  /\ expires \in [Buckets -> {Never} \cup 1..(MaxNow + 2 * Window)]
  /\ claims \subseteq [problems : SUBSET Problem, until : 1..(MaxNow + Cooldown)]
  /\ check \in [Checks -> [pc : {"idle", "read", "claim", "send"}, at : {Never} \cup Ticks,
                           left : SUBSET Queries, to : SUBSET Channels,
                           got : [Signals -> Nat]]]
  /\ delivered \subseteq [problems : SUBSET Problem, channel : Channels, at : Ticks]
  /\ lapses \in 0..MaxFaults

Init ==
  /\ now = Window
  /\ failed = [m \in Messages |-> Never]
  /\ pending = [e \in RawEvents |-> Never]
  /\ error = [x \in Errors |-> [pc |-> "none", at |-> Window]]
  /\ count = [b \in Buckets |-> 0]
  /\ expires = [b \in Buckets |-> Never]
  /\ claims = {}
  /\ check = [c \in Checks |-> Idle(Never)]
  /\ delivered = {}
  /\ lapses = 0

Lapse(k) == k \in Faults /\ lapses < MaxFaults /\ lapses' = lapses + 1

-----------------------------------------------------------------------------
(* The rows the monitor counts.  Nothing writes the status FAILED of an    *)
(* event.                                                                  *)

Room ==
  Cardinality({m \in Messages : failed[m] # Never})
    + Cardinality({e \in RawEvents : pending[e] # Never}) < MaxRows

(* The job of a message created at t fails, or a delivery status says so;  *)
(* a retry of the job takes the status away.                               *)
Fails(m, t) ==
  /\ \/ failed[m] = Never /\ Room /\ t <= now /\ failed' = [failed EXCEPT ![m] = t]
     \/ failed[m] = t /\ failed' = [failed EXCEPT ![m] = Never]
  /\ UNCHANGED <<now, pending, counterVars, claims, check, delivered, lapses>>

(* A webhook stores an event, and marks it PROCESSED.                      *)
Captures(e) ==
  /\ Room \/ pending[e] # Never
  /\ pending' = [pending EXCEPT ![e] = IF @ = Never THEN now ELSE Never]
  /\ UNCHANGED <<now, failed, counterVars, claims, check, delivered, lapses>>

(* Time passes, no check lags too far, and Redis drops what is due.        *)
Tick ==
  /\ now < MaxNow
  /\ \A c \in Checks : check[c].pc = "idle" \/ now < check[c].at + MaxLag
  /\ now' = now + 1
  /\ LET due == {b \in Buckets : expires[b] # Never /\ expires[b] <= now + 1} IN
       /\ count' = [b \in Buckets |-> IF b \in due THEN 0 ELSE count[b]]
       /\ expires' = [b \in Buckets |-> IF b \in due THEN Never ELSE expires[b]]
  /\ claims' = {k \in claims : now + 1 < k.until}
  /\ delivered' = {d \in delivered : now + 1 < d.at + Cooldown}
  /\ UNCHANGED <<rowVars, error, check, lapses>>

-----------------------------------------------------------------------------
(* RedisCounter.inc, which the LLM client's onError starts and nobody      *)
(* awaits.                                                                 *)

CallFails(x) ==
  /\ error[x].pc = "none"
  /\ error' = [error EXCEPT ![x] = [pc |-> "incr", at |-> now]]
  /\ UNCHANGED <<now, rowVars, count, expires, claims, check, delivered, lapses>>

AfterIncr_Refresh(b) == IF count[b] > 0 THEN "expire" ELSE "done"
AfterIncr(b) == "expire"

Incr(x) ==
  LET b == Bucket(error[x].at) IN
  /\ error[x].pc = "incr"
  /\ count' = [count EXCEPT ![b] = @ + 1]
  /\ error' = [error EXCEPT ![x].pc = AfterIncr(b)]
  /\ UNCHANGED <<now, rowVars, expires, claims, check, delivered, lapses>>

(* Only a key that is there takes an expiry.                               *)
Expire(x) ==
  LET b == Bucket(error[x].at) IN
  /\ error[x].pc = "expire"
  /\ expires' = [expires EXCEPT ![b] = IF count[b] > 0 THEN now + Ttl ELSE @]
  /\ error' = [error EXCEPT ![x].pc = "done"]
  /\ UNCHANGED <<now, rowVars, count, claims, check, delivered, lapses>>

(* Redis refuses a write, or the worker dies before it: the rest of inc is *)
(* dropped without a word.                                                 *)
IncFails(x) ==
  /\ error[x].pc \in {"incr", "expire"}
  /\ Lapse("count")
  /\ error' = [error EXCEPT ![x].pc = IF @ = "incr" THEN "lost" ELSE "done"]
  /\ UNCHANGED <<now, rowVars, count, expires, claims, check, delivered>>

-----------------------------------------------------------------------------
(* runCheck and alertIfDue.                                                *)

StartCheck(c) ==
  /\ check[c].pc = "idle"
  /\ check[c].at = Never \/ check[c].at + Interval <= now
  /\ check' = [check EXCEPT ![c] = [Idle(now) EXCEPT !.pc = "read", !.left = Queries]]
  /\ UNCHANGED <<now, rowVars, counterVars, claims, delivered, lapses>>

(* RedisCounter.read: main.ts makes buckets as long as the window, so the  *)
(* buckets from since to now are the two these fall in.                    *)
CounterRead(since, to) == count[Bucket(since)] + count[Bucket(to)]

(* What the query of a signal returns to a check that began at t.          *)
Counted(s, t) ==
  CASE s = "failedMessages" ->
         Cardinality({m \in Messages : failed[m] # Never /\ failed[m] >= t - Window})
    [] s = "failedEvents" -> 0
    [] s = "pendingBacklog" ->
         Cardinality({e \in RawEvents : pending[e] # Never /\ pending[e] < t - BacklogAge})
    [] s = "aiErrors" -> CounterRead(t - Window, t)

Problems(got) ==
  {p \in {[signal |-> s, count |-> got[s]] : s \in Signals} : p.count >= Threshold[p.signal]}

(* The slot is named by the text of the problems, their counts included.   *)
Fingerprint_Constant(problems) == {}
Fingerprint(problems) == problems
Slot(problems) == [problems |-> Fingerprint(problems), until |-> now + Cooldown]
Claimed_NoNX(problems) == FALSE
Claimed(problems) == \E k \in claims : k.problems = Fingerprint(problems)

(* Queries answer; the last one leads to the verdict.                      *)
Read(c, q) ==
  /\ check[c].pc = "read"
  /\ q \in check[c].left
  /\ LET left == check[c].left \ {q}
         got == [s \in Signals |-> IF s \in q THEN Counted(s, check[c].at) ELSE check[c].got[s]]
     IN check' = [check EXCEPT ![c] =
          IF left = {} /\ Problems(got) = {} THEN Idle(check[c].at)
          ELSE [check[c] EXCEPT !.left = left, !.got = got,
                                !.pc = IF left = {} THEN "claim" ELSE "read"]]
  /\ UNCHANGED <<now, rowVars, counterVars, claims, delivered, lapses>>

(* SET NX of the problems' cooldown slot; whoever gets it sends.           *)
ClaimAlert(c) ==
  LET problems == Problems(check[c].got) IN
  /\ check[c].pc = "claim"
  /\ \/ /\ Claimed(problems)
        /\ check' = [check EXCEPT ![c] = Idle(check[c].at)]
        /\ UNCHANGED claims
     \/ /\ ~Claimed(problems)
        /\ claims' = claims \cup {Slot(problems)}
        /\ check' = [check EXCEPT ![c] = IF Channels = {} THEN Idle(check[c].at)
                                          ELSE [check[c] EXCEPT !.pc = "send", !.to = Channels]]
  /\ UNCHANGED <<now, rowVars, counterVars, delivered, lapses>>

(* send tries Slack, then e-mail; a channel that fails is only logged.     *)
SendAlert(c, ch) ==
  /\ check[c].pc = "send"
  /\ ch \in check[c].to
  /\ "slack" \in check[c].to => ch = "slack"
  /\ \/ /\ delivered' = delivered \cup
             {[problems |-> Problems(check[c].got), channel |-> ch, at |-> now]}
        /\ UNCHANGED lapses
     \/ Lapse("send") /\ UNCHANGED delivered
  /\ check' = [check EXCEPT ![c] =
       IF check[c].to = {ch} THEN Idle(check[c].at)
       ELSE [check[c] EXCEPT !.to = check[c].to \ {ch}]]
  /\ UNCHANGED <<now, rowVars, counterVars, claims>>

(* A query or the claim rejects, or the worker dies.                       *)
CheckFails(c) ==
  /\ check[c].pc # "idle"
  /\ Lapse("check")
  /\ check' = [check EXCEPT ![c] = Idle(check[c].at)]
  /\ UNCHANGED <<now, rowVars, counterVars, claims, delivered>>

Next ==
  \/ Tick
  \/ \E m \in Messages, t \in Ticks : Fails(m, t)
  \/ \E e \in RawEvents : Captures(e)
  \/ \E x \in Errors : CallFails(x) \/ Incr(x) \/ Expire(x) \/ IncFails(x)
  \/ \E c \in Checks :
       \/ StartCheck(c) \/ ClaimAlert(c) \/ CheckFails(c)
       \/ \E q \in Queries : Read(c, q)
       \/ \E ch \in Channels : SendAlert(c, ch)

Spec == Init /\ [][Next]_vars

-----------------------------------------------------------------------------
(* Properties.                                                             *)

Uncounted(x) == error[x].pc \in {"none", "incr", "lost"}

(* When a check reads the counter it sees every counted error that is less *)
(* than a window old, whatever buckets and expiries did to it, and none    *)
(* that is two windows old.                                                *)
CounterCovers ==
  [][\A c \in Checks :
       (\E q \in Queries : "aiErrors" \in q /\ Read(c, q)) =>
         LET n == Counted("aiErrors", check[c].at) IN
         /\ n >= Cardinality({x \in Errors :
                   /\ ~Uncounted(x)
                   /\ now - Window <= error[x].at /\ error[x].at <= check[c].at})
         /\ n <= Cardinality({x \in Errors : check[c].at - 2 * Window < error[x].at})]_vars

(* Inductive strengthening: a bucket holds the errors counted in it, all of*)
(* them until its time is over, which is when no check looks there.        *)
Held(b) == {x \in Errors : ~Uncounted(x) /\ Bucket(error[x].at) = b}
Ends(b) == (b + 2) * Window
CounterInv ==
  /\ \A x \in Errors : error[x].at <= now
  /\ \A b \in Buckets :
       /\ count[b] <= Cardinality(Held(b))
       /\ now < Ends(b) => count[b] = Cardinality(Held(b))
       /\ expires[b] # Never => Ends(b) <= expires[b]

(* A bucket without an expiry has one on its way, so that no key of the    *)
(* counter stays in Redis for good, unless an increment was cut short.     *)
EveryKeyExpires ==
  \A b \in Buckets :
    count[b] > 0 /\ expires[b] = Never
      => \E x \in Errors : error[x].pc = "expire" /\ Bucket(error[x].at) = b

KeysExpire == lapses = 0 => EveryKeyExpires

(* However many workers check at once, a channel is told of the same       *)
(* problems once in a cooldown, less the time one check may take.          *)
AlertSpaced ==
  \A d, e \in delivered :
    d.problems = e.problems /\ d.channel = e.channel /\ d.at <= e.at
      => d = e \/ d.at + Cooldown - MaxLag <= e.at

(* A check that found problems ends only when every channel was told of    *)
(* them within the cooldown, or another check is telling it.               *)
Heard(problems, ch) ==
  \/ \E d \in delivered' :
       d.problems = problems /\ d.channel = ch /\ now < d.at + Cooldown
  \/ \E x \in Checks :
       /\ check'[x].pc = "send" /\ ch \in check'[x].to
       /\ Problems(check'[x].got) = problems

EndHeard(c) ==
  check[c].pc \in {"claim", "send"} /\ check'[c].pc = "idle"
    => \A ch \in Channels : Heard(Problems(check[c].got), ch)

AlwaysHeard == [][\A c \in Checks : EndHeard(c)]_vars

(* AlwaysHeard while no check and no send fails.                           *)
ProblemHeard == [][lapses' = 0 => \A c \in Checks : EndHeard(c)]_vars

(* The comment of service.ts: a persistent outage alerts once instead of   *)
(* at every check; here, a kind of problem once in a cooldown.             *)
Kinds(d) == {p.signal : p \in d.problems}
OutageAlertsOnce ==
  \A d, e \in delivered :
    Kinds(d) = Kinds(e) /\ d.channel = e.channel /\ d.at <= e.at
      => d = e \/ d.at + Cooldown - MaxLag <= e.at
=============================================================================
