----------------------------- MODULE KillSwitch -----------------------------
(***************************************************************************)
(* The switch that pauses the AI agent: a key in Redis, the requests of    *)
(* the API that set and read it behind their rate limit, and the redis-cli *)
(* failsafe.  The turns that ask for it are in InboundHandler.             *)
(*                                                                         *)
(* One action for each await.  activate writes twice: SET, which takes any *)
(* expiry away, then EXPIRE; status reads twice: GET, then TTL.            *)
(***************************************************************************)
EXTENDS RateLimiter

CONSTANTS
  Requests,    \* requests being served side by side
  MaxTtl,      \* bound: the longest pause asked for, in ticks
  Failsafe,    \* redis-cli commands somebody uses
  Faults,      \* kinds of failure the environment may inject
  MaxFaults,   \* bound: failures injected in one behaviour
  NoRequest    \* the key was not written by a request

ASSUME KillSwitchAssumption ==
  /\ MaxTtl \in Nat \ {0}
  /\ Failsafe \subseteq {"set", "setEx", "del"}
  /\ Faults \subseteq {"redis", "api"}
  /\ MaxFaults \in Nat
  /\ NoRequest \notin Requests

VARIABLES
  key,         \* ops:kill-switch and the ticks left to it, 0 for no expiry
  req,         \* the requests
  setter,      \* history: who wrote the key last, and what became of that
  lapses       \* failures injected so far

switchVars == <<key, req, setter, lapses>>
vars == <<limiterVars, switchVars>>

Off == [on |-> FALSE, left |-> 0]
Forever == [on |-> TRUE, left |-> 0]
For(n) == [on |-> TRUE, left |-> n]

(* A body resumes the agent, or pauses it for some ticks or, with none,    *)
(* until it is resumed.                                                    *)
Nothing == [enabled |-> FALSE, ttl |-> 0]
Bodies == {Nothing} \cup [enabled : {TRUE}, ttl : 0..MaxTtl]
Fresh == [pc |-> "idle", body |-> Nothing, calm |-> FALSE]

(* The last write was to last, or to end ("timed"), or to end but its      *)
(* request broke off before EXPIRE; "none": nothing is paused.             *)
Meanings == {"none", "forever", "timed", "broken"}
Nobody == [how |-> "none", by |-> NoRequest, clean |-> FALSE]

TypeOK ==
  /\ LimiterTypeOK
  /\ key \in [on : BOOLEAN, left : 0..MaxTtl]
  /\ req \in [Requests -> [pc : {"idle", "set", "expire", "del", "get", "ttl"},
                           body : Bodies, calm : BOOLEAN]]
  /\ setter \in [how : Meanings, by : Requests \cup {NoRequest}, clean : BOOLEAN]
  /\ lapses \in 0..MaxFaults

Init ==
  /\ LimiterInit
  /\ key = Off
  /\ req = [r \in Requests |-> Fresh]
  /\ setter = Nobody
  /\ lapses = 0

Lapse(k) == k \in Faults /\ lapses < MaxFaults /\ lapses' = lapses + 1

At(r, step) == req[r].pc = step
Go(r, step) == req' = [req EXCEPT ![r].pc = step]
Leave(R) == req' = [r \in Requests |-> IF r \in R THEN Fresh ELSE req[r]]
Asked(r) == req[r].body

(* A write of r, or of nobody: the other requests are disturbed by it.     *)
Disturb(r, step) ==
  req' = [q \in Requests |->
            IF q = r THEN [req[q] EXCEPT !.pc = step, !.calm = TRUE]
            ELSE [req[q] EXCEPT !.calm = FALSE]]

-----------------------------------------------------------------------------
(* OpsController.  The guard counts a request before the controller looks  *)
(* at the password; GET has no guard.                                      *)

FirstStep(b) == IF b.enabled THEN "set" ELSE "del"

Post(r, c, b) ==
  /\ At(r, "idle")
  /\ Hit(c)
  /\ \/ Admits(c) /\ req' = [req EXCEPT ![r] = [pc |-> FirstStep(b), body |-> b, calm |-> FALSE]]
     \/ UNCHANGED req                     \* 429, or 401
  /\ UNCHANGED <<key, setter, lapses>>

GetStatus(r) ==
  /\ At(r, "idle")
  /\ req' = [req EXCEPT ![r] = [Fresh EXCEPT !.pc = "get"]]
  /\ UNCHANGED <<limiterVars, key, setter, lapses>>

AfterSet_NoExpire(b) == "get"             \* mutant: the expiry is forgotten
AfterSet_Always(b) == "expire"            \* mutant: EXPIRE 0 as well
AfterSet(b) == IF b.ttl > 0 THEN "expire" ELSE "get"
SetKey_KeepTtl(k) == [k EXCEPT !.on = TRUE]   \* mutant: SET ... KEEPTTL
SetKey(k) == Forever

(* No other request is between its two writes.                             *)
Clean(r) == \A q \in Requests : q # r => ~At(q, "expire")

Set(r) ==
  /\ At(r, "set")
  /\ key' = SetKey(key)
  /\ setter' = [how |-> IF Asked(r).ttl > 0 THEN "timed" ELSE "forever", by |-> r,
                clean |-> Clean(r)]
  /\ Disturb(r, AfterSet(Asked(r)))
  /\ UNCHANGED <<limiterVars, lapses>>

(* Only a key that is there takes an expiry; EXPIRE 0 deletes it.          *)
Seconds(b) == b.ttl
Expiring(k, n) == IF k.on /\ n > 0 THEN For(n) ELSE Off

Expire(r) ==
  /\ At(r, "expire")
  /\ key' = Expiring(key, Seconds(Asked(r)))
  /\ req' = [q \in Requests |->
               IF q = r THEN [req[q] EXCEPT !.pc = "get"] ELSE [req[q] EXCEPT !.calm = FALSE]]
  /\ UNCHANGED <<limiterVars, setter, lapses>>

Del(r) ==
  /\ At(r, "del")
  /\ key' = Off
  /\ setter' = Nobody
  /\ Disturb(r, "get")
  /\ UNCHANGED <<limiterVars, lapses>>

(* status: a key that is there is asked for its time; the answer follows.  *)
Get(r) ==
  /\ At(r, "get")
  /\ IF key.on THEN Go(r, "ttl") ELSE Leave({r})
  /\ UNCHANGED <<limiterVars, key, setter, lapses>>

ReadTtl(r) ==
  /\ At(r, "ttl")
  /\ Leave({r})
  /\ UNCHANGED <<limiterVars, key, setter, lapses>>

Serve(r) == Set(r) \/ Expire(r) \/ Del(r) \/ Get(r) \/ ReadTtl(r)

(* The pause that a set of requests leaves half made when they end.        *)
Broken(R) ==
  IF setter.how = "timed" /\ setter.by \in R /\ At(setter.by, "expire")
  THEN [setter EXCEPT !.how = "broken"] ELSE setter

(* Redis refuses a command (a fraction of a second as an expiry, say) or   *)
(* is not reached: the request is answered with an error.                  *)
RedisRefuses(r) ==
  /\ ~At(r, "idle")
  /\ Lapse("redis")
  /\ setter' = Broken({r})
  /\ Leave({r})
  /\ UNCHANGED <<limiterVars, key>>

(* The API process dies with its requests and buckets, and starts again.   *)
ApiDies ==
  /\ Lapse("api")
  /\ LimiterRestart
  /\ setter' = Broken(Requests)
  /\ Leave(Requests)
  /\ UNCHANGED key

-----------------------------------------------------------------------------
(* redis-cli: SET, SET with EX, and DEL are one command each.              *)
Command(k, n) ==
  /\ k \in Failsafe
  /\ key' = CASE k = "set" -> Forever [] k = "setEx" -> For(n) [] k = "del" -> Off
  /\ setter' = [how |-> CASE k = "set" -> "forever" [] k = "setEx" -> "timed" [] k = "del" -> "none",
                by |-> NoRequest, clean |-> Clean(NoRequest)]
  /\ req' = [r \in Requests |-> [req[r] EXCEPT !.calm = FALSE]]
  /\ UNCHANGED <<limiterVars, lapses>>

(* Time passes for buckets and key; Redis drops a key whose time is up.    *)
Tick ==
  /\ LimiterTick
  /\ IF key.left = 1
     THEN /\ key' = Off
          /\ setter' = Nobody
          /\ req' = [r \in Requests |-> [req[r] EXCEPT !.calm = FALSE]]
     ELSE /\ key' = [key EXCEPT !.left = Less(@)]
          /\ UNCHANGED <<setter, req>>
  /\ UNCHANGED lapses

Next ==
  \/ \E r \in Requests :
       \/ \E c \in Clients, b \in Bodies : Post(r, c, b)
       \/ GetStatus(r) \/ Serve(r) \/ RedisRefuses(r)
  \/ ApiDies \/ Tick
  \/ \E k \in Failsafe : \E n \in 1..MaxTtl : Command(k, n)

Spec == Init /\ [][Next]_vars

(* Time passes, and a request that is being served goes on.                *)
FairSpec ==
  /\ Spec
  /\ WF_vars(Tick)
  /\ \A r \in Requests : WF_vars(Serve(r))

-----------------------------------------------------------------------------
(* A pause without an end is one that was asked for, or one whose request  *)
(* is about to give it its end or broke off right there.                   *)
NoStrayPause ==
  key = Forever =>
    \/ setter.how \in {"forever", "broken"}
    \/ setter.how = "timed" /\ setter.by \in Requests /\ At(setter.by, "expire")

(* A pause until resumed is not ended by time, nor by an older activation, *)
(* unless that was between its two writes when the pause was made.         *)
LastingPauseStays ==
  [][setter.how = "forever" /\ setter.clean /\ setter' = setter /\ key = Forever
       => key' = Forever]_vars

(* What a request asked for stands until its status reads, unless some     *)
(* other write, or the end of the pause, came in between.                  *)
AnswerIsTrue ==
  \A r \in Requests : req[r].calm /\ req[r].pc \in {"get", "ttl"} =>
    LET b == Asked(r) IN
    /\ key.on = b.enabled
    /\ key.on => IF b.ttl = 0 THEN key.left = 0 ELSE key.left \in 1..b.ttl

(* A client that stays away for the time its 429 told it is let through.   *)
RetryAfterKept == \A c \in Clients : wait[c] = 0 => Admits(c)

(* A pause that was to end ends, unless somebody pauses again or its       *)
(* request broke off.                                                      *)
TimedPauseEnds ==
  setter.how = "timed" ~> setter.how # "timed" \/ \E r \in Requests : At(r, "set")

=============================================================================
