-------------------------- MODULE KillSwitchProofs --------------------------
(***************************************************************************)
(* Theorems about the kill switch and its rate limit for every number of   *)
(* clients and requests, every limit and window, and every failure budget. *)
(***************************************************************************)
EXTENDS KillSwitch, TLAPS

LEMMA ConfigType ==
  /\ {Limit, Window, MaxTtl} \subseteq Nat \ {0}
  /\ {MaxBuckets, MaxFaults} \subseteq Nat
  /\ NoRequest \notin Requests
BY RateLimiterAssumption, KillSwitchAssumption
   DEF RateLimiterAssumption, KillSwitchAssumption

BucketType == [count : 0..(Limit + 1), left : 0..Window]

(* A sweep forgets only what is over, and a request's bucket is one.       *)
LEMMA SweptType ==
  ASSUME LimiterTypeOK
  PROVE  /\ Swept \in [Clients -> BucketType]
         /\ \A c \in Clients : Swept[c] = bucket[c] \/ (bucket[c].left = 0 /\ Swept[c].left = 0)
<1> USE ConfigType
<1>1. NoBucket \in BucketType
  BY SMT DEF NoBucket, BucketType
<1> QED BY <1>1, SMT DEF Swept, LimiterTypeOK, BucketType, NoBucket

LEMMA HitType ==
  ASSUME LimiterTypeOK, NEW c \in Clients
  PROVE  HitBucket(c) \in BucketType /\ HitBucket(c).left > 0
<1> USE ConfigType
<1>1. Swept[c] \in BucketType
  BY SweptType
<1>2. CASE Swept[c].left = 0
  BY <1>2, SMT DEF HitBucket, Over, Opened, BucketType
<1>3. CASE Swept[c].left # 0
  BY <1>1, <1>3, SMT DEF HitBucket, Over, Counted, BucketType
<1> QED BY <1>2, <1>3

-----------------------------------------------------------------------------
LEMMA HitKeepsType ==
  ASSUME LimiterTypeOK, NEW c \in Clients, Hit(c)
  PROVE  LimiterTypeOK'
<1> USE ConfigType
<1> DEFINE b == HitBucket(c)
<1>1. b \in BucketType /\ b.left > 0
  BY HitType
<1>2. bucket' \in [Clients -> BucketType]
  <2>1. bucket' = [Swept EXCEPT ![c] = b]
    BY DEF Hit
  <2> QED BY <1>1, <2>1, SweptType
<1>3. wait' \in [Clients -> NoWait..Window]
  <2>1. (IF Allowed(b) THEN NoWait ELSE RetryAfter(b)) \in NoWait..Window
    BY <1>1, SMT DEF NoWait, RetryAfter, BucketType
  <2>2. wait' = [wait EXCEPT ![c] = IF Allowed(b) THEN NoWait ELSE RetryAfter(b)]
    BY DEF Hit
  <2> QED BY <2>1, <2>2 DEF LimiterTypeOK
<1>4. admitted' \in [Clients -> [Spans -> Nat]]
  <2>1. admitted' = [admitted EXCEPT ![c][0] = @ + 1] \/ admitted' = admitted
    BY DEF Hit
  <2>2. 0 \in Spans
    BY SMT DEF Spans
  <2>3. admitted[c] \in [Spans -> Nat] /\ admitted[c][0] + 1 \in Nat
    BY <2>2 DEF LimiterTypeOK
  <2>4. [admitted[c] EXCEPT ![0] = admitted[c][0] + 1] \in [Spans -> Nat]
    BY <2>3
  <2> QED BY <2>1, <2>4 DEF LimiterTypeOK
<1> QED BY <1>2, <1>3, <1>4 DEF LimiterTypeOK, BucketType

LEMMA TickKeepsType ==
  ASSUME LimiterTypeOK, LimiterTick
  PROVE  LimiterTypeOK'
<1> USE ConfigType
<1>1. bucket' \in [Clients -> BucketType]
  <2>1. ASSUME NEW c \in Clients PROVE [bucket[c] EXCEPT !.left = Less(@)] \in BucketType
    <3>1. bucket[c] \in BucketType
      BY DEF LimiterTypeOK, BucketType
    <3> QED BY <3>1, SMT DEF Less, BucketType
  <2> QED BY <2>1 DEF LimiterTick
<1>2. wait' \in [Clients -> NoWait..Window]
  BY SMT DEF LimiterTick, LimiterTypeOK, Less, NoWait
<1>3. admitted' \in [Clients -> [Spans -> Nat]]
  <2>1. ASSUME NEW c \in Clients, NEW s \in Spans
        PROVE  (IF s = 0 THEN 0 ELSE admitted[c][s - 1]) \in Nat
    <3>1. s # 0 => s - 1 \in Spans
      BY SMT DEF Spans
    <3> QED BY <3>1 DEF LimiterTypeOK
  <2> QED BY <2>1 DEF LimiterTick
<1> QED BY <1>1, <1>2, <1>3 DEF LimiterTypeOK, BucketType

LEMMA RestartKeepsType ==
  ASSUME LimiterRestart
  PROVE  LimiterTypeOK'
BY ConfigType, SMT DEF LimiterRestart, LimiterTypeOK, NoBucket, NoWait

-----------------------------------------------------------------------------
RequestType ==
  [pc : {"idle", "set", "expire", "del", "get", "ttl"}, body : Bodies, calm : BOOLEAN]
SetterType == [how : Meanings, by : Requests \cup {NoRequest}, clean : BOOLEAN]
KeyType == [on : BOOLEAN, left : 0..MaxTtl]

LEMMA Constants ==
  /\ Fresh \in RequestType /\ Nothing \in Bodies /\ Nobody \in SetterType
  /\ {Off, Forever} \subseteq KeyType
  /\ \A n \in 1..MaxTtl : For(n) \in KeyType
BY ConfigType, SMT
   DEF Fresh, RequestType, Nothing, Bodies, Nobody, SetterType, Meanings, Off, Forever,
       For, KeyType

(* A body is to last or to end; EXPIRE leaves a key, or none.              *)
LEMMA ExpiringType ==
  ASSUME NEW k \in KeyType, NEW b \in Bodies
  PROVE  Expiring(k, Seconds(b)) \in KeyType
<1>1. b.ttl \in 0..MaxTtl
  <2>1. CASE b = Nothing
    BY <2>1, ConfigType, SMT DEF Nothing
  <2>2. CASE b \in [enabled : {TRUE}, ttl : 0..MaxTtl]
    BY <2>2
  <2> QED BY <2>1, <2>2 DEF Bodies
<1>2. CASE k.on /\ b.ttl > 0
  BY <1>1, <1>2, ConfigType, SMT DEF Expiring, Seconds, KeyType, For
<1>3. CASE ~(k.on /\ b.ttl > 0)
  BY <1>3, Constants DEF Expiring, Seconds
<1> QED BY <1>2, <1>3

LEMMA LeaveType ==
  ASSUME TypeOK, NEW R, Leave(R)
  PROVE  req' \in [Requests -> RequestType]
BY Constants DEF Leave, TypeOK, RequestType

LEMMA BrokenType ==
  ASSUME TypeOK, NEW R
  PROVE  Broken(R) \in SetterType
<1>1. setter \in SetterType
  BY DEF TypeOK, SetterType
<1> QED BY <1>1 DEF Broken, SetterType, Meanings

LEMMA CalmType ==
  ASSUME TypeOK, NEW r \in Requests, NEW step \in {"set", "expire", "del", "get", "ttl"}
  PROVE  /\ [req EXCEPT ![r].pc = step] \in [Requests -> RequestType]
         /\ [q \in Requests |-> IF q = r THEN [req[q] EXCEPT !.pc = step, !.calm = TRUE]
                                ELSE [req[q] EXCEPT !.calm = FALSE]] \in [Requests -> RequestType]
         /\ [q \in Requests |-> IF q = r THEN [req[q] EXCEPT !.pc = step]
                                ELSE [req[q] EXCEPT !.calm = FALSE]] \in [Requests -> RequestType]
         /\ [q \in Requests |-> [req[q] EXCEPT !.calm = FALSE]] \in [Requests -> RequestType]
<1>1. req \in [Requests -> RequestType]
  BY DEF TypeOK, RequestType
<1>2. ASSUME NEW q \in Requests
      PROVE  /\ [req[q] EXCEPT !.pc = step] \in RequestType
             /\ [req[q] EXCEPT !.pc = step, !.calm = TRUE] \in RequestType
             /\ [req[q] EXCEPT !.calm = FALSE] \in RequestType
  BY <1>1 DEF RequestType
<1> QED BY <1>1, <1>2

(* Every variable keeps its type.                                          *)
THEOREM SwitchTypeCorrect == Spec => []TypeOK
<1> USE ConfigType
<1>1. Init => TypeOK
  <2> SUFFICES ASSUME Init PROVE TypeOK
    OBVIOUS
  <2>1. LimiterTypeOK
    BY SMT DEF Init, LimiterInit, LimiterTypeOK, NoBucket, NoWait
  <2> QED BY <2>1, Constants DEF Init, TypeOK, RequestType, SetterType, KeyType
<1>2. TypeOK /\ [Next]_vars => TypeOK'
  <2> SUFFICES ASSUME TypeOK, [Next]_vars PROVE TypeOK'
    OBVIOUS
  <2>0. /\ req \in [Requests -> RequestType] /\ key \in KeyType /\ setter \in SetterType
        /\ LimiterTypeOK
        /\ lapses \in 0..MaxFaults
    BY DEF TypeOK, RequestType, SetterType, KeyType
  <2> SUFFICES /\ req' \in [Requests -> RequestType] /\ key' \in KeyType
               /\ setter' \in SetterType /\ LimiterTypeOK'
               /\ lapses' \in 0..MaxFaults
    BY DEF TypeOK, RequestType, SetterType, KeyType
  <2>a. ASSUME UNCHANGED limiterVars PROVE LimiterTypeOK'
    BY <2>0, <2>a DEF LimiterTypeOK, limiterVars
  <2>1. ASSUME NEW r \in Requests, NEW c \in Clients, NEW b \in Bodies, Post(r, c, b)
        PROVE  TypeOK'
    <3>1. LimiterTypeOK'
      BY <2>0, <2>1, HitKeepsType DEF Post
    <3>2. [pc |-> FirstStep(b), body |-> b, calm |-> FALSE] \in RequestType
      BY DEF FirstStep, RequestType
    <3>3. req' \in [Requests -> RequestType]
      BY <2>0, <2>1, <3>2 DEF Post
    <3> QED BY <2>0, <2>1, <3>1, <3>3 DEF Post, TypeOK, RequestType, SetterType, KeyType
  <2>2. ASSUME NEW r \in Requests, GetStatus(r) PROVE TypeOK'
    <3>1. [Fresh EXCEPT !.pc = "get"] \in RequestType
      BY Constants DEF RequestType
    <3>2. req' \in [Requests -> RequestType]
      BY <2>0, <2>2, <3>1 DEF GetStatus
    <3> QED BY <2>0, <2>2, <2>a, <3>2 DEF GetStatus, TypeOK, RequestType, SetterType, KeyType
  <2>3. ASSUME NEW r \in Requests, Set(r) PROVE TypeOK'
    <3>2. req' \in [Requests -> RequestType]
      <4>1. PICK step \in {"expire", "get"} :
              req' = [q \in Requests |-> IF q = r THEN [req[q] EXCEPT !.pc = step, !.calm = TRUE]
                                         ELSE [req[q] EXCEPT !.calm = FALSE]]
        BY <2>3 DEF Set, Disturb, AfterSet
      <4>2. ASSUME NEW q \in Requests
            PROVE  /\ [req[q] EXCEPT !.pc = step, !.calm = TRUE] \in RequestType
                   /\ [req[q] EXCEPT !.calm = FALSE] \in RequestType
        BY <2>0 DEF RequestType
      <4> QED BY <4>1, <4>2
    <3>3. key' \in KeyType
      BY <2>3, Constants DEF Set, SetKey
    <3>4. setter' \in SetterType
      BY <2>3 DEF Set, SetterType, Meanings, Clean
    <3> QED BY <2>0, <2>3, <2>a, <3>2, <3>3, <3>4 DEF Set, TypeOK, RequestType, SetterType, KeyType
  <2>4. ASSUME NEW r \in Requests, Expire(r) PROVE TypeOK'
    <3>1. req' \in [Requests -> RequestType]
      BY <2>4, CalmType DEF Expire
    <3>2. Asked(r) \in Bodies
      BY <2>0 DEF Asked, RequestType
    <3>3. key' \in KeyType
      BY <2>0, <2>4, <3>2, ExpiringType DEF Expire
    <3> QED BY <2>0, <2>4, <2>a, <3>1, <3>3 DEF Expire, TypeOK, RequestType, SetterType, KeyType
  <2>5. ASSUME NEW r \in Requests, Del(r) PROVE TypeOK'
    <3>1. req' \in [Requests -> RequestType]
      BY <2>5, CalmType DEF Del, Disturb
    <3> QED BY <2>0, <2>5, <2>a, <3>1, Constants DEF Del, TypeOK, RequestType, SetterType, KeyType
  <2>6. ASSUME NEW r \in Requests, Get(r) PROVE TypeOK'
    <3>1. req' \in [Requests -> RequestType]
      <4>1. CASE key.on
        <5>1. req' = [req EXCEPT ![r].pc = "ttl"]
          BY <2>6, <4>1 DEF Get, Go
        <5> QED BY <5>1, CalmType
      <4>2. CASE ~key.on
        <5>1. Leave({r})
          BY <2>6, <4>2 DEF Get
        <5> QED BY <5>1, LeaveType
      <4> QED BY <4>1, <4>2
    <3> QED BY <2>0, <2>6, <2>a, <3>1 DEF Get, TypeOK, RequestType, SetterType, KeyType
  <2>7. ASSUME NEW r \in Requests, ReadTtl(r) PROVE TypeOK'
    <3>1. req' \in [Requests -> RequestType]
      BY <2>7, LeaveType DEF ReadTtl
    <3> QED BY <2>0, <2>7, <2>a, <3>1 DEF ReadTtl, TypeOK, RequestType, SetterType, KeyType
  <2>8. ASSUME NEW r \in Requests, RedisRefuses(r) PROVE TypeOK'
    <3>1. req' \in [Requests -> RequestType] /\ setter' \in SetterType
      BY <2>8, LeaveType, BrokenType DEF RedisRefuses
    <3>2. lapses' \in 0..MaxFaults
      BY <2>0, <2>8, SMT DEF RedisRefuses, Lapse
    <3> QED BY <2>0, <2>8, <2>a, <3>1, <3>2
            DEF RedisRefuses, TypeOK, RequestType, SetterType, KeyType
  <2>9. CASE ApiDies
    <3>1. req' \in [Requests -> RequestType] /\ setter' \in SetterType
      BY <2>9, LeaveType, BrokenType DEF ApiDies
    <3>2. lapses' \in 0..MaxFaults
      BY <2>0, <2>9, SMT DEF ApiDies, Lapse
    <3>3. LimiterTypeOK'
      BY <2>9, RestartKeepsType DEF ApiDies
    <3> QED BY <2>0, <2>9, <3>1, <3>2, <3>3 DEF ApiDies, TypeOK, RequestType, SetterType, KeyType
  <2>10. CASE Tick
    <3>1. LimiterTypeOK'
      BY <2>0, <2>10, TickKeepsType DEF Tick
    <3>2. [q \in Requests |-> [req[q] EXCEPT !.calm = FALSE]] \in [Requests -> RequestType]
      BY <2>0 DEF RequestType
    <3>3. [key EXCEPT !.left = Less(@)] \in KeyType
      BY <2>0, SMT DEF Less, KeyType
    <3> QED BY <2>0, <2>10, <3>1, <3>2, <3>3, Constants
            DEF Tick, TypeOK, RequestType, SetterType, KeyType
  <2>11. ASSUME NEW k \in Failsafe, NEW n \in 1..MaxTtl, Command(k, n) PROVE TypeOK'
    <3>1. k \in {"set", "setEx", "del"}
      BY KillSwitchAssumption DEF KillSwitchAssumption
    <3>2. key' \in KeyType
      BY <2>11, <3>1, Constants DEF Command
    <3>3. setter' \in SetterType
      BY <2>11, <3>1 DEF Command, SetterType, Meanings, Clean
    <3>4. req' \in [Requests -> RequestType]
      BY <2>0, <2>11 DEF Command, RequestType
    <3> QED BY <2>0, <2>11, <2>a, <3>2, <3>3, <3>4
            DEF Command, TypeOK, RequestType, SetterType, KeyType
  <2>13. CASE UNCHANGED vars
    BY <2>0, <2>13, <2>a DEF vars, switchVars
  <2> QED BY <2>1, <2>2, <2>3, <2>4, <2>5, <2>6, <2>7, <2>8, <2>9, <2>10, <2>11, <2>13
          DEF Next, Serve, TypeOK, RequestType, SetterType, KeyType
<1> QED BY <1>1, <1>2, PTL DEF Spec

-----------------------------------------------------------------------------
(* The limiter: a client that was told to wait waits at least as long as   *)
(* its window.                                                             *)

WaitInv == \A c \in Clients : wait[c] # NoWait => bucket[c].left <= wait[c]

LEMMA WaitHit ==
  ASSUME LimiterTypeOK, WaitInv, NEW c \in Clients, Hit(c)
  PROVE  WaitInv'
<1> DEFINE b == HitBucket(c)
<1>1. b \in BucketType /\ Swept \in [Clients -> BucketType]
  BY HitType, SweptType
<1>2. bucket' = [Swept EXCEPT ![c] = b]
  BY DEF Hit
<1>3. wait' = [wait EXCEPT ![c] = IF Allowed(b) THEN NoWait ELSE b.left]
  BY DEF Hit, RetryAfter
<1>4. ASSUME NEW d \in Clients, wait'[d] # NoWait PROVE bucket'[d].left <= wait'[d]
  <2>1. CASE d = c
    BY <1>1, <1>2, <1>3, <1>4, <2>1, ConfigType, SMT DEF BucketType, LimiterTypeOK
  <2>2. CASE d # c
    <3>1. bucket'[d] = Swept[d] /\ wait'[d] = wait[d]
      BY <1>1, <1>2, <1>3, <2>2 DEF LimiterTypeOK
    <3>2. bucket[d].left <= wait[d]
      BY <1>4, <3>1 DEF WaitInv
    <3> QED BY <3>1, <3>2, SweptType
  <2> QED BY <2>1, <2>2
<1> QED BY <1>4 DEF WaitInv

LEMMA WaitTick ==
  ASSUME LimiterTypeOK, WaitInv, LimiterTick
  PROVE  WaitInv'
<1>1. ASSUME NEW c \in Clients, wait'[c] # NoWait PROVE bucket'[c].left <= wait'[c]
  <2>1. bucket[c] \in BucketType /\ wait[c] \in NoWait..Window
    BY DEF LimiterTypeOK, BucketType
  <2>2. bucket'[c].left = Less(bucket[c].left) /\ wait'[c] = Less(wait[c])
    BY <2>1 DEF LimiterTick, BucketType
  <2>3. wait[c] # NoWait
    BY <1>1, <2>2, SMT DEF Less, NoWait
  <2> QED BY <2>1, <2>2, <2>3, ConfigType, SMT DEF WaitInv, Less, NoWait, BucketType
<1> QED BY <1>1 DEF WaitInv

(* A client that stayed away for its Retry-After is let through.           *)
THEOREM RetryAfterHonest == Spec => []RetryAfterKept
<1>1. Init => WaitInv
  BY DEF Init, LimiterInit, WaitInv
<1>2. TypeOK /\ WaitInv /\ [Next]_vars => WaitInv'
  <2> SUFFICES ASSUME TypeOK, WaitInv, [Next]_vars PROVE WaitInv'
    OBVIOUS
  <2>0. LimiterTypeOK
    BY DEF TypeOK
  <2>1. ASSUME NEW c \in Clients, Hit(c) PROVE WaitInv'
    BY <2>0, <2>1, WaitHit
  <2>2. CASE LimiterTick
    BY <2>0, <2>2, WaitTick
  <2>3. CASE LimiterRestart
    BY <2>3 DEF LimiterRestart, WaitInv
  <2>4. CASE UNCHANGED limiterVars
    BY <2>4 DEF limiterVars, WaitInv
  <2> QED
    BY <2>1, <2>2, <2>3, <2>4
    DEF Next, Post, GetStatus, Serve, Set, Expire, Del, Get, ReadTtl, RedisRefuses, ApiDies,
        Tick, Command, vars
<1>3. TypeOK /\ WaitInv => RetryAfterKept
  <2> SUFFICES ASSUME TypeOK, WaitInv, NEW c \in Clients, wait[c] = 0 PROVE Admits(c)
    BY DEF RetryAfterKept
  <2>0. LimiterTypeOK
    BY DEF TypeOK
  <2>1. bucket[c].left = 0
    <3>1. bucket[c] \in BucketType /\ bucket[c].left <= 0
      BY <2>0, SMT DEF LimiterTypeOK, BucketType, WaitInv, NoWait
    <3> QED BY <3>1, SMT DEF BucketType
  <2>2. Swept[c].left = 0
    BY <2>0, <2>1, SweptType
  <2> QED BY <2>2, ConfigType, SMT DEF Admits, HitBucket, Over, Opened, Allowed
<1> QED BY <1>1, <1>2, <1>3, SwitchTypeCorrect, PTL DEF Spec

-----------------------------------------------------------------------------
(* The switch.  What a request may be about to do follows from its body,   *)
(* and what it left behind stands while nobody disturbs it.                *)

BodyInv ==
  \A r \in Requests :
    /\ req[r].pc \in {"set", "expire"} => Asked(r).enabled
    /\ req[r].pc = "expire" => Asked(r).ttl > 0
    /\ req[r].pc = "del" => ~Asked(r).enabled
    /\ req[r].calm => req[r].pc \in {"expire", "get", "ttl"}

StandsInv == \A r \in Requests : req[r].calm /\ At(r, "expire") => key = Forever

(* A pause made while no request was between its two writes meets none     *)
(* while it lasts.                                                         *)
AloneInv ==
  setter.how = "forever" /\ setter.clean => \A r \in Requests : ~At(r, "expire")

SwitchInv == BodyInv /\ StandsInv /\ AnswerIsTrue /\ AloneInv /\ NoStrayPause

LEMMA SwitchInit == Init => SwitchInv
<1> SUFFICES ASSUME Init PROVE SwitchInv
  OBVIOUS
<1>1. \A r \in Requests : req[r].pc = "idle" /\ req[r].calm = FALSE
  BY DEF Init, Fresh
<1>2. ~key.on /\ Forever.on
  BY DEF Init, Off, Forever
<1>3. setter.how = "none"
  BY DEF Init, Nobody
<1> QED
  BY <1>1, <1>2, <1>3
  DEF SwitchInv, BodyInv, StandsInv, AnswerIsTrue, AloneInv, NoStrayPause, At

(* Steps that leave the key and its history alone, and move one request to *)
(* the front or towards its end.                                           *)
LEMMA PostKeeps ==
  ASSUME TypeOK, SwitchInv, NEW r \in Requests, NEW c \in Clients, NEW b \in Bodies,
         Post(r, c, b)
  PROVE  SwitchInv'
<1>1. key' = key /\ setter' = setter
  BY DEF Post
<1>2. req' = req \/ req' = [req EXCEPT ![r] = [pc |-> FirstStep(b), body |-> b, calm |-> FALSE]]
  BY DEF Post
<1>3. CASE req' = req
  BY <1>1, <1>3
  DEF SwitchInv, BodyInv, StandsInv, AnswerIsTrue, AloneInv, NoStrayPause, At, Asked
<1>4. CASE req' = [req EXCEPT ![r] = [pc |-> FirstStep(b), body |-> b, calm |-> FALSE]]
  <2>1. ASSUME NEW q \in Requests
        PROVE  req'[q] = IF q = r THEN [pc |-> FirstStep(b), body |-> b, calm |-> FALSE]
                         ELSE req[q]
    BY <1>4 DEF TypeOK
  <2>2. req[r].pc = "idle"
    BY DEF Post, At
  <2>3. BodyInv' /\ StandsInv' /\ AnswerIsTrue'
    BY <1>1, <2>1
    DEF SwitchInv, BodyInv, StandsInv, AnswerIsTrue, At, Asked, FirstStep, Bodies, Nothing
  <2>4. AloneInv' /\ NoStrayPause'
    BY <1>1, <2>1, <2>2 DEF SwitchInv, AloneInv, NoStrayPause, At, FirstStep
  <2> QED BY <2>3, <2>4 DEF SwitchInv
<1> QED BY <1>2, <1>3, <1>4

(* The same for a request that goes on reading or leaves.                  *)
LEMMA ReadKeeps ==
  ASSUME TypeOK, SwitchInv, NEW r \in Requests,
         key' = key, setter' = setter, ~At(r, "expire"),
         \A q \in Requests :
           req'[q] = IF q # r THEN req[q] ELSE req'[r],
         req'[r] = Fresh \/ req'[r] = [Fresh EXCEPT !.pc = "get"]
           \/ (At(r, "get") /\ req'[r] = [req[r] EXCEPT !.pc = "ttl"])
  PROVE  SwitchInv'
<1>1. req[r] \in RequestType
  BY DEF TypeOK, RequestType
<1>2. /\ req'[r].pc \in {"idle", "get", "ttl"}
      /\ req'[r].calm => At(r, "get") /\ req[r].calm /\ Asked(r)' = Asked(r)
  BY <1>1 DEF Fresh, RequestType, Asked
<1>3. BodyInv' /\ StandsInv'
  <2>1. ASSUME NEW q \in Requests
        PROVE  /\ req'[q].pc \in {"set", "expire"} => Asked(q)'.enabled
               /\ req'[q].pc = "expire" => Asked(q)'.ttl > 0
               /\ req'[q].pc = "del" => ~Asked(q)'.enabled
               /\ req'[q].calm => req'[q].pc \in {"expire", "get", "ttl"}
               /\ req'[q].calm /\ req'[q].pc = "expire" => key' = Forever
    <3>1. CASE q = r
      <4>1. req'[r].calm => req'[r].pc \in {"get", "ttl"}
        BY <1>1 DEF Fresh, RequestType
      <4> QED BY <1>2, <3>1, <4>1
    <3>2. CASE q # r
      BY <3>2 DEF SwitchInv, BodyInv, StandsInv, At, Asked
    <3> QED BY <3>1, <3>2
  <2> QED BY <2>1 DEF BodyInv, StandsInv, At
<1>4. AloneInv' /\ NoStrayPause'
  BY <1>2 DEF SwitchInv, AloneInv, NoStrayPause, At
<1>5. AnswerIsTrue'
  <2> SUFFICES ASSUME NEW q \in Requests, req'[q].calm, req'[q].pc \in {"get", "ttl"}
               PROVE  /\ req[q].calm /\ req[q].pc \in {"get", "ttl"}
                      /\ Asked(q)' = Asked(q)
    BY DEF SwitchInv, AnswerIsTrue
  <2>1. CASE q = r
    BY <1>2, <2>1 DEF At
  <2>2. CASE q # r
    BY <2>2 DEF Asked
  <2> QED BY <2>1, <2>2
<1> QED BY <1>3, <1>4, <1>5 DEF SwitchInv

LEMMA AskedType ==
  ASSUME TypeOK, NEW r \in Requests
  PROVE  Asked(r).ttl \in 0..MaxTtl /\ Asked(r).enabled \in BOOLEAN
<1>1. Asked(r) \in Bodies
  BY DEF TypeOK, Asked
<1>2. CASE Asked(r) = Nothing
  BY <1>2, ConfigType, SMT DEF Nothing
<1>3. CASE Asked(r) \in [enabled : {TRUE}, ttl : 0..MaxTtl]
  BY <1>3
<1> QED BY <1>1, <1>2, <1>3 DEF Bodies

(* SET: the pause has no end until the EXPIRE that follows, if one does.   *)
LEMMA SetKeeps ==
  ASSUME TypeOK, SwitchInv, NEW r \in Requests, Set(r)
  PROVE  SwitchInv'
<1>1. key' = Forever /\ req[r].pc = "set" /\ Asked(r).enabled
  BY DEF Set, SetKey, At, SwitchInv, BodyInv
<1>2. ASSUME NEW q \in Requests
      PROVE  /\ Asked(q)' = Asked(q)
             /\ q = r => req'[q].pc = AfterSet(Asked(r))
             /\ q # r => req'[q].pc = req[q].pc /\ req'[q].calm = FALSE
  BY DEF TypeOK, Set, Disturb, Asked
<1>3. Asked(r).ttl \in Nat
  BY AskedType, ConfigType, SMT
<1>4. BodyInv' /\ StandsInv'
  BY <1>1, <1>2 DEF SwitchInv, BodyInv, StandsInv, At, AfterSet
<1>5. AnswerIsTrue'
  <2> SUFFICES ASSUME NEW q \in Requests, req'[q].calm, req'[q].pc \in {"get", "ttl"}
               PROVE  Asked(q)'.enabled /\ Asked(q)'.ttl = 0
    BY <1>1 DEF AnswerIsTrue, Forever
  <2>1. q = r
    BY <1>2
  <2>2. ~(Asked(r).ttl > 0)
    BY <1>2, <2>1 DEF AfterSet
  <2>3. Asked(q)' = Asked(r)
    BY <1>2, <2>1
  <2>4. Asked(r).ttl = 0
    BY <1>3, <2>2, SMT
  <2> QED BY <1>1, <2>3, <2>4
<1>6. setter' = [how |-> IF Asked(r).ttl > 0 THEN "timed" ELSE "forever", by |-> r,
                 clean |-> Clean(r)]
  BY DEF Set
<1>7. AloneInv'
  BY <1>2, <1>6 DEF AloneInv, Clean, At, AfterSet
<1>8. NoStrayPause'
  BY <1>2, <1>6 DEF NoStrayPause, At, AfterSet
<1> QED BY <1>4, <1>5, <1>7, <1>8 DEF SwitchInv

LEMMA ExpireKeeps ==
  ASSUME TypeOK, SwitchInv, NEW r \in Requests, Expire(r)
  PROVE  SwitchInv'
<1>1. setter' = setter /\ req[r].pc = "expire" /\ Asked(r).enabled /\ Asked(r).ttl > 0
  BY DEF Expire, At, SwitchInv, BodyInv
<1>2. ASSUME NEW q \in Requests
      PROVE  /\ Asked(q)' = Asked(q)
             /\ q = r => req'[q].pc = "get" /\ req'[q].calm = req[q].calm
             /\ q # r => req'[q].pc = req[q].pc /\ req'[q].calm = FALSE
  BY DEF TypeOK, Expire, Asked
<1>3. Asked(r).ttl \in 1..MaxTtl
  BY <1>1, AskedType, ConfigType, SMT
<1>4. key' = IF key.on THEN For(Asked(r).ttl) ELSE Off
  BY <1>1 DEF Expire, Expiring, Seconds
<1>5. BodyInv' /\ StandsInv'
  BY <1>2 DEF SwitchInv, BodyInv, StandsInv, At
<1>6. AnswerIsTrue'
  <2> SUFFICES ASSUME NEW q \in Requests, req'[q].calm, req'[q].pc \in {"get", "ttl"}
               PROVE  /\ key'.on = Asked(q)'.enabled
                      /\ key'.on => IF Asked(q)'.ttl = 0 THEN key'.left = 0
                                    ELSE key'.left \in 1..Asked(q)'.ttl
    BY DEF AnswerIsTrue
  <2>1. q = r /\ req[r].calm
    BY <1>2
  <2>2. key' = For(Asked(r).ttl)
    BY <1>1, <1>4, <2>1 DEF SwitchInv, StandsInv, At, Forever
  <2>3. Asked(q)' = Asked(r)
    BY <1>2, <2>1
  <2>4. key'.on = TRUE /\ key'.left = Asked(r).ttl /\ Asked(r).enabled = TRUE
    BY <1>1, <2>2, AskedType DEF For
  <2>5. Asked(r).ttl # 0 /\ Asked(r).ttl \in 1..Asked(r).ttl
    BY <1>3, ConfigType, SMT
  <2> QED BY <2>3, <2>4, <2>5
<1>7. AloneInv' /\ NoStrayPause'
  <2>1. key' # Forever
    BY <1>3, <1>4, ConfigType, SMT DEF For, Off, Forever
  <2>2. AloneInv'
    BY <1>1, <1>2 DEF SwitchInv, AloneInv, At
  <2> QED BY <2>1, <2>2 DEF NoStrayPause
<1> QED BY <1>5, <1>6, <1>7 DEF SwitchInv

LEMMA DelKeeps ==
  ASSUME TypeOK, SwitchInv, NEW r \in Requests, Del(r)
  PROVE  SwitchInv'
<1>1. key' = Off /\ setter' = Nobody /\ req[r].pc = "del" /\ ~Asked(r).enabled
  BY DEF Del, At, SwitchInv, BodyInv
<1>2. ASSUME NEW q \in Requests
      PROVE  /\ Asked(q)' = Asked(q)
             /\ q = r => req'[q].pc = "get"
             /\ q # r => req'[q].pc = req[q].pc /\ req'[q].calm = FALSE
  BY DEF TypeOK, Del, Disturb, Asked
<1>3. BodyInv' /\ StandsInv'
  BY <1>2 DEF SwitchInv, BodyInv, StandsInv, At
<1>4. AnswerIsTrue'
  BY <1>1, <1>2, AskedType DEF AnswerIsTrue, Off
<1>5. AloneInv' /\ NoStrayPause'
  BY <1>1 DEF AloneInv, NoStrayPause, Nobody, Off, Forever
<1> QED BY <1>3, <1>4, <1>5 DEF SwitchInv

(* Requests that end early: a half made pause is remembered as one.        *)
LEMMA EndKeeps ==
  ASSUME TypeOK, SwitchInv, NEW R \in SUBSET Requests,
         Leave(R), key' = key, setter' = Broken(R)
  PROVE  SwitchInv'
<1>1. ASSUME NEW q \in Requests
      PROVE  /\ q \in R => req'[q] = Fresh
             /\ q \notin R => req'[q] = req[q]
  BY DEF Leave
<1>2. Fresh.pc = "idle" /\ Fresh.calm = FALSE
  BY DEF Fresh
<1>3. BodyInv' /\ StandsInv' /\ AnswerIsTrue'
  <2>1. ASSUME NEW q \in Requests, q \in R
        PROVE  req'[q].pc = "idle" /\ req'[q].calm = FALSE
    BY <1>1, <1>2, <2>1
  <2>2. ASSUME NEW q \in Requests, q \notin R
        PROVE  req'[q] = req[q] /\ Asked(q)' = Asked(q)
    BY <1>1, <2>2 DEF Asked
  <2>3. BodyInv'
    BY <2>1, <2>2 DEF SwitchInv, BodyInv
  <2>4. StandsInv'
    BY <2>1, <2>2 DEF SwitchInv, StandsInv, At
  <2>5. AnswerIsTrue'
    <3> SUFFICES ASSUME NEW q \in Requests, (req[q].calm /\ req[q].pc \in {"get", "ttl"})'
                 PROVE  /\ key'.on = Asked(q)'.enabled
                        /\ key'.on => IF Asked(q)'.ttl = 0 THEN key'.left = 0
                                       ELSE key'.left \in 1..Asked(q)'.ttl
      BY DEF AnswerIsTrue
    <3>1. q \notin R
      BY <2>1
    <3>2. req'[q] = req[q] /\ Asked(q)' = Asked(q)
      BY <2>2, <3>1
    <3> QED BY <3>2 DEF SwitchInv, AnswerIsTrue
  <2> QED BY <2>3, <2>4, <2>5
<1>4. AloneInv'
  <2>1. setter'.how = "forever" => setter' = setter
    BY DEF Broken
  <2> QED BY <1>1, <1>2, <2>1 DEF SwitchInv, AloneInv, At
<1>5. NoStrayPause'
  <2> SUFFICES ASSUME key = Forever
               PROVE  \/ setter'.how \in {"forever", "broken"}
                      \/ /\ setter'.how = "timed" /\ setter'.by \in Requests
                         /\ req'[setter'.by].pc = "expire"
    BY DEF NoStrayPause, At
  <2>1. CASE setter.how \in {"forever", "broken"}
    BY <2>1 DEF Broken
  <2>2. CASE setter.how = "timed" /\ setter.by \in Requests /\ At(setter.by, "expire")
    <3>1. CASE setter.by \in R
      <4>1. setter' = [setter EXCEPT !.how = "broken"]
        BY <2>2, <3>1 DEF Broken
      <4> QED BY <4>1 DEF TypeOK
    <3>2. CASE setter.by \notin R
      BY <1>1, <2>2, <3>2 DEF Broken, At
    <3> QED BY <3>1, <3>2
  <2> QED BY <2>1, <2>2 DEF SwitchInv, NoStrayPause
<1> QED BY <1>3, <1>4, <1>5 DEF SwitchInv

LEMMA TickKeeps ==
  ASSUME TypeOK, SwitchInv, Tick
  PROVE  SwitchInv'
<1>1. key \in KeyType
  BY DEF TypeOK, KeyType
<1>2. CASE key.left = 1
  <2>1. key' = Off /\ setter' = Nobody
    BY <1>2 DEF Tick
  <2>2. ASSUME NEW q \in Requests
        PROVE  Asked(q)' = Asked(q) /\ req'[q].pc = req[q].pc /\ req'[q].calm = FALSE
    BY <1>2 DEF Tick, TypeOK, Asked
  <2>3. BodyInv' /\ StandsInv' /\ AnswerIsTrue'
    BY <2>2 DEF SwitchInv, BodyInv, StandsInv, AnswerIsTrue, At
  <2> QED BY <2>1, <2>3 DEF SwitchInv, AloneInv, NoStrayPause, Nobody, Off, Forever
<1>3. CASE key.left # 1
  <2>1. key' = [key EXCEPT !.left = Less(@)] /\ setter' = setter /\ req' = req
    BY <1>3 DEF Tick
  <2>2. /\ key'.on = key.on
        /\ key.left = 0 => key' = key
        /\ key.left # 0 => key'.left = key.left - 1 /\ key'.left \in 1..MaxTtl
    BY <1>1, <1>3, <2>1, ConfigType, SMT DEF KeyType, Less
  <2>3. key = Forever <=> key' = Forever
    <3>1. CASE key.left = 0
      BY <2>2, <3>1
    <3>2. CASE key.left # 0
      <4>1. key'.left # 0
        BY <2>2, <3>2, SMT
      <4> QED BY <3>2, <4>1 DEF Forever
    <3> QED BY <3>1, <3>2
  <2>4. BodyInv' /\ StandsInv' /\ AloneInv' /\ NoStrayPause'
    BY <2>1, <2>3 DEF SwitchInv, BodyInv, StandsInv, AloneInv, NoStrayPause, At, Asked
  <2>5. AnswerIsTrue'
    <3> SUFFICES ASSUME NEW q \in Requests, req'[q].calm, req'[q].pc \in {"get", "ttl"}
                 PROVE  /\ key'.on = Asked(q)'.enabled
                        /\ key'.on => IF Asked(q)'.ttl = 0 THEN key'.left = 0
                                      ELSE key'.left \in 1..Asked(q)'.ttl
      BY DEF AnswerIsTrue
    <3>1. /\ key.on = Asked(q).enabled
          /\ key.on => IF Asked(q).ttl = 0 THEN key.left = 0 ELSE key.left \in 1..Asked(q).ttl
      BY <2>1 DEF SwitchInv, AnswerIsTrue
    <3>2. Asked(q)' = Asked(q)
      BY <2>1 DEF Asked
    <3> QED BY <1>1, <2>2, <3>1, <3>2, AskedType, ConfigType, SMT DEF KeyType
  <2> QED BY <2>4, <2>5 DEF SwitchInv
<1> QED BY <1>2, <1>3

LEMMA CommandKeeps ==
  ASSUME TypeOK, SwitchInv, NEW k \in Failsafe, NEW n \in 1..MaxTtl, Command(k, n)
  PROVE  SwitchInv'
<1>1. k \in {"set", "setEx", "del"}
  BY KillSwitchAssumption DEF KillSwitchAssumption
<1>2. ASSUME NEW q \in Requests
      PROVE  Asked(q)' = Asked(q) /\ req'[q].pc = req[q].pc /\ req'[q].calm = FALSE
  BY DEF Command, TypeOK, Asked
<1>3. BodyInv' /\ StandsInv' /\ AnswerIsTrue'
  BY <1>2 DEF SwitchInv, BodyInv, StandsInv, AnswerIsTrue, At
<1>4. key' = Forever => k = "set"
  BY <1>1, ConfigType, SMT DEF Command, For, Off, Forever
<1>5. setter'.how = "forever" <=> k = "set"
  BY <1>1 DEF Command
<1>6. setter'.clean => \A q \in Requests : ~At(q, "expire")
  BY ConfigType DEF Command, Clean
<1>7. AloneInv'
  BY <1>2, <1>6 DEF AloneInv, At
<1>8. NoStrayPause'
  BY <1>4, <1>5 DEF NoStrayPause
<1> QED BY <1>3, <1>7, <1>8 DEF SwitchInv

LEMMA SwitchNext ==
  ASSUME TypeOK, SwitchInv, [Next]_vars
  PROVE  SwitchInv'
<1>1. ASSUME NEW r \in Requests, NEW c \in Clients, NEW b \in Bodies, Post(r, c, b)
      PROVE  SwitchInv'
  BY <1>1, PostKeeps
<1>2. ASSUME NEW r \in Requests, GetStatus(r) \/ Get(r) \/ ReadTtl(r) PROVE SwitchInv'
  <2>1. key' = key /\ setter' = setter /\ ~At(r, "expire")
    BY <1>2 DEF GetStatus, Get, ReadTtl, At
  <2>2. ASSUME NEW q \in Requests PROVE req'[q] = IF q # r THEN req[q] ELSE req'[r]
    BY <1>2 DEF GetStatus, Get, ReadTtl, Go, Leave, TypeOK
  <2>3. \/ req'[r] = Fresh \/ req'[r] = [Fresh EXCEPT !.pc = "get"]
        \/ (At(r, "get") /\ req'[r] = [req[r] EXCEPT !.pc = "ttl"])
    BY <1>2 DEF GetStatus, Get, ReadTtl, Go, Leave, TypeOK
  <2> QED BY <2>1, <2>2, <2>3, ReadKeeps
<1>3. ASSUME NEW r \in Requests, Set(r) \/ Expire(r) \/ Del(r) PROVE SwitchInv'
  BY <1>3, SetKeeps, ExpireKeeps, DelKeeps
<1>4. ASSUME NEW r \in Requests, RedisRefuses(r) PROVE SwitchInv'
  BY <1>4, EndKeeps DEF RedisRefuses
<1>5. CASE ApiDies
  BY <1>5, EndKeeps DEF ApiDies
<1>6. CASE Tick
  BY <1>6, TickKeeps
<1>7. ASSUME NEW k \in Failsafe, NEW n \in 1..MaxTtl, Command(k, n) PROVE SwitchInv'
  BY <1>7, CommandKeeps
<1>8. CASE UNCHANGED <<key, req, setter>>
  BY <1>8
  DEF SwitchInv, BodyInv, StandsInv, AnswerIsTrue, AloneInv, NoStrayPause, At, Asked
<1>10. CASE UNCHANGED vars
  BY <1>8, <1>10 DEF vars, switchVars
<1> QED BY <1>1, <1>2, <1>3, <1>4, <1>5, <1>6, <1>7, <1>10 DEF Next, Serve

LEMMA SwitchInvariant == Spec => []SwitchInv
<1>1. Init => SwitchInv
  BY SwitchInit
<1>2. TypeOK /\ SwitchInv /\ [Next]_vars => SwitchInv'
  BY SwitchNext
<1> QED BY <1>1, <1>2, SwitchTypeCorrect, PTL DEF Spec

(* A pause without an end was asked for, or its request is about to give   *)
(* it its end or broke off right there.                                    *)
THEOREM NoStray == Spec => []NoStrayPause
<1>1. SwitchInv => NoStrayPause
  BY DEF SwitchInv
<1> QED BY <1>1, SwitchInvariant, PTL

(* What the last request asked for stands until its status reads.          *)
THEOREM AnswersTrue == Spec => []AnswerIsTrue
<1>1. SwitchInv => AnswerIsTrue
  BY DEF SwitchInv
<1> QED BY <1>1, SwitchInvariant, PTL

(* Time and older activations leave a pause until resumed as it is.        *)
THEOREM LastingStays == Spec => LastingPauseStays
<1>1. ASSUME TypeOK, SwitchInv, [Next]_vars
      PROVE  [setter.how = "forever" /\ setter.clean /\ setter' = setter /\ key = Forever
                => key' = Forever]_vars
  <2> SUFFICES ASSUME setter.how = "forever", setter.clean, setter' = setter, key = Forever
               PROVE  key' = Forever
    OBVIOUS
  <2>1. ASSUME NEW r \in Requests PROVE ~At(r, "expire")
    BY <1>1 DEF SwitchInv, AloneInv
  <2>2. setter # Nobody
    BY DEF Nobody
  <2>3. ASSUME NEW r \in Requests, Serve(r) PROVE key' = Forever
    BY <2>1, <2>2, <2>3 DEF Serve, Set, SetKey, Expire, Del, Get, ReadTtl
  <2>4. CASE Tick
    <3>1. key.left = 0
      BY DEF Forever
    <3>2. key' = [key EXCEPT !.left = Less(@)]
      BY <2>4, <3>1, SMT DEF Tick
    <3> QED BY <3>1, <3>2, SMT DEF Less, Forever
  <2>5. ASSUME NEW k \in Failsafe, NEW n \in 1..MaxTtl, Command(k, n) PROVE key' = Forever
    <3>1. k \in {"set", "setEx", "del"}
      BY KillSwitchAssumption DEF KillSwitchAssumption
    <3> QED BY <2>5, <3>1 DEF Command
  <2>6. CASE UNCHANGED key
    BY <2>6
  <2> QED
    BY <1>1, <2>3, <2>4, <2>5, <2>6
    DEF Next, Post, GetStatus, RedisRefuses, ApiDies, vars, switchVars
<1> QED BY <1>1, SwitchTypeCorrect, SwitchInvariant, PTL DEF Spec, LastingPauseStays

-----------------------------------------------------------------------------
(* What a client got, window by window.                                    *)
History == [Spans -> Nat]

LEMMA GotInt ==
  ASSUME NEW f \in History, NEW n \in Spans
  PROVE  Got(f, n) \in Int /\ Got(f, n - 1) \in Int /\ Got(f, n) = Got(f, n - 1) + f[n]
<1>1. n \in Nat /\ \A i \in 0..n : f[i] \in Int
  BY ConfigType, SMT DEF History, Spans
<1>2. IsFiniteSet(0..n)
  BY <1>1, FS_Interval
<1> QED BY <1>1, <1>2, TotalUpTo, TotalInt DEF Got

(* A request let through now counts in every span that ends now.           *)
LEMMA GotOneMore ==
  ASSUME NEW f \in History, NEW n \in Spans
  PROVE  /\ [f EXCEPT ![0] = @ + 1] \in History
         /\ Got([f EXCEPT ![0] = @ + 1], n) = Got(f, n) + 1
<1> DEFINE g == [f EXCEPT ![0] = @ + 1]
<1>1. 0 \in Spans /\ f[0] \in Nat
  BY ConfigType, SMT DEF Spans, History
<1>2. g \in History /\ g[0] = f[0] + 1 /\ \A s \in Spans \ {0} : g[s] = f[s]
  BY <1>1 DEF History
<1>3. 0..n \subseteq Spans /\ 0 \in 0..n /\ n \in Nat
  BY ConfigType, SMT DEF Spans
<1>4. IsFiniteSet(0..n)
  BY <1>3, FS_Interval
<1>5. \A s \in 0..n : f[s] \in Int /\ g[s] \in Int
  BY <1>2, <1>3 DEF History
<1>6. \A s \in (0..n) \ {0} : f[s] = g[s]
  BY <1>2, <1>3
<1> HIDE DEF g
<1>7. Total(g, 0..n) = Total(f, 0..n) + g[0] - f[0] /\ Total(f, 0..n) \in Int
  BY ZenonT(30), <1>3, <1>4, <1>5, <1>6, TotalUpdate, TotalInt
<1>8. Got(g, n) = Got(f, n) + 1
  BY <1>1, <1>2, <1>7 DEF Got
<1> QED BY <1>2, <1>8 DEF g

Older(f) == [s \in Spans |-> IF s = 0 THEN 0 ELSE f[s - 1]]

LEMMA GotOlder ==
  ASSUME NEW f \in History
  PROVE  /\ Older(f) \in History
         /\ \A n \in Spans : Got(Older(f), n) = Got(f, n - 1)
<1>1. Older(f) \in History
  <2>1. ASSUME NEW s \in Spans PROVE (IF s = 0 THEN 0 ELSE f[s - 1]) \in Nat
    <3>1. s # 0 => s - 1 \in Spans
      BY ConfigType, SMT DEF Spans
    <3> QED BY <3>1 DEF History
  <2> QED BY <2>1 DEF Older, History
<1>2. ASSUME NEW n \in Spans PROVE Got(Older(f), n) = Got(f, n - 1)
  <2>1. n \in Nat /\ 0..n \subseteq Spans /\ 0 \in Spans
    BY ConfigType, SMT DEF Spans
  <2>2. \A i \in 0..n : f[i] \in Int /\ Older(f)[i] \in Int
    BY <1>1, <2>1 DEF History
  <2>3. Older(f)[0] = 0 /\ \A i \in 1..n : Older(f)[i] = f[i - 1]
    <3>1. Older(f)[0] = 0
      BY <2>1 DEF Older
    <3>2. ASSUME NEW i \in 1..n PROVE Older(f)[i] = f[i - 1]
      <4>1. i \in Spans /\ i # 0
        BY <2>1, SMT
      <4> QED BY <4>1 DEF Older
    <3> QED BY <3>1, <3>2
  <2> QED BY <2>1, <2>2, <2>3, TotalShift DEF Got
<1> QED BY <1>1, <1>2

LEMMA WindowTick ==
  ASSUME NEW b \in BucketType, NEW f \in History, InWindow(b, f)
  PROVE  InWindow([b EXCEPT !.left = Less(@)], Older(f))
<1> DEFINE n == Less(b.left)
           w == Window - 1
<1>1. b.left \in Nat /\ b.left <= Window /\ b.count \in Nat /\ Window \in Nat \ {0} /\ Limit \in Nat \ {0}
  BY ConfigType, SMT DEF BucketType
<1>2. w \in Spans /\ 0 \in Spans
  BY ConfigType, SMT DEF Spans
<1>3. Got(f, w) \in Int /\ Got(f, w - 1) \in Int /\ Got(f, w) = Got(f, w - 1) + f[w] /\ f[w] \in Nat
  BY <1>2, GotInt DEF History
<1>4. Older(f)[0] = 0 /\ Got(Older(f), w) = Got(f, w - 1)
  BY <1>2, GotOlder DEF Older
<1>5. [b EXCEPT !.left = Less(@)].left = n /\ [b EXCEPT !.left = Less(@)].count = b.count
  BY DEF BucketType
<1>6. CASE b.left = 0
  <2>1. n = 0
    BY <1>6 DEF Less
  <2>2. Got(f, w) <= Limit - 1
    BY <1>6 DEF InWindow
  <2>3. Got(Older(f), w) <= Limit - 1
    BY <1>1, <1>3, <1>4, <2>2
  <2> QED BY <1>4, <1>5, <2>1, <2>3 DEF InWindow
<1>7. CASE b.left # 0
  <2>1. Age(b) \in Spans /\ n = b.left - 1 /\ n \in Nat
    BY <1>1, <1>7, SMT DEF Age, Spans, Less
  <2>2. Got(f, Age(b)) = (IF b.count <= Limit THEN b.count ELSE Limit) /\ f[Age(b)] > 0
        /\ Got(f, w) - Got(f, Age(b)) <= Limit - 1
    BY <1>7 DEF InWindow
  <2>3. CASE b.left = 1
    <3>1. Age(b) = w /\ n = 0
      BY <1>1, <2>1, <2>3 DEF Age
    <3>2. Got(Older(f), w) <= Limit - 1
      BY <1>1, <1>3, <1>4, <2>2, <3>1
    <3> QED BY <1>4, <1>5, <3>1, <3>2 DEF InWindow
  <2>4. CASE b.left # 1
    <3> DEFINE a == Age(b) + 1
    <3>1. a \in Spans /\ a - 1 = Age(b) /\ Window - n = a /\ n # 0
      BY <1>1, <1>7, <2>1, <2>4, SMT DEF Age, Spans
    <3>2. Got(Older(f), a) = Got(f, Age(b)) /\ Older(f)[a] = f[Age(b)] /\ Got(f, Age(b)) \in Int
      <4>1. Got(Older(f), a) = Got(f, a - 1)
        BY <3>1, GotOlder
      <4>2. Older(f)[a] = f[a - 1]
        <5>1. a # 0
          BY <1>1, <2>1, SMT DEF Spans
        <5> HIDE DEF a
        <5> QED BY <3>1, <5>1 DEF Older
      <4> QED BY <2>1, <3>1, <4>1, <4>2, GotInt
    <3>3. Got(Older(f), w) - Got(Older(f), a) <= Limit - 1
      BY <1>1, <1>3, <1>4, <2>2, <3>2
    <3>4. Age([b EXCEPT !.left = Less(@)]) = a
      BY <1>5, <3>1 DEF Age
    <3> HIDE DEF a, n
    <3> QED BY <1>5, <2>2, <3>1, <3>2, <3>3, <3>4 DEF InWindow
  <2> QED BY <2>3, <2>4
<1> QED BY <1>6, <1>7

LEMMA WindowHit ==
  ASSUME NEW s \in BucketType, NEW f \in History, InWindow(s, f),
         NEW b, b = IF Over(s) THEN Opened ELSE Counted(s),
         NEW g, g = IF Allowed(b) THEN [f EXCEPT ![0] = @ + 1] ELSE f
  PROVE  InWindow(b, g)
<1> DEFINE w == Window - 1
           h == [f EXCEPT ![0] = @ + 1]
<1>1. /\ s.left \in Nat /\ s.left <= Window /\ s.count \in Nat /\ s.count <= Limit + 1
      /\ Window \in Nat \ {0} /\ Limit \in Nat \ {0}
  BY ConfigType, SMT DEF BucketType
<1>2. w \in Spans /\ 0 \in Spans /\ f[0] \in Nat
  BY ConfigType, SMT DEF Spans, History
<1>3. h[0] = f[0] + 1 /\ h \in History /\ \A n \in Spans : Got(h, n) = Got(f, n) + 1
  <2>1. h[0] = f[0] + 1
    BY <1>2 DEF History
  <2>2. h \in History
    BY <1>2, GotOneMore
  <2>3. ASSUME NEW n \in Spans PROVE Got(h, n) = Got(f, n) + 1
    BY GotOneMore
  <2> QED BY <2>1, <2>2, <2>3
<1>4. Got(f, w) \in Int
  BY <1>2, GotInt
<1> HIDE DEF h, w
<1>5. CASE s.left = 0
  <2>1. b = Opened /\ b.count = 1 /\ b.left = Window
    BY <1>5 DEF Over, Opened
  <2>2. g = h /\ Age(b) = 0 /\ b.left # 0
    BY <1>1, <2>1 DEF Allowed, Age, h
  <2>3. f[0] = 0 /\ Got(f, w) <= Limit - 1
    BY <1>5 DEF InWindow, w
  <2>4. Got(f, 0) = 0
    <3>1. Got(f, 0) = Got(f, 0 - 1) + f[0] /\ Got(f, 0 - 1) = Total(f, 0..(0 - 1))
      BY <1>2, GotInt DEF Got
    <3>2. 0..(0 - 1) = {}
      BY SMT
    <3>3. Total(f, {}) = 0
      BY TotalEmpty
    <3> QED BY <2>3, <3>1, <3>2, <3>3
  <2>5. Got(h, 0) = 1 /\ h[0] > 0 /\ Got(h, w) - Got(h, 0) <= Limit - 1
    BY <1>1, <1>2, <1>3, <1>4, <2>3, <2>4
  <2>6. (IF b.count <= Limit THEN b.count ELSE Limit) = 1
    BY <1>1, <2>1
  <2> QED BY <2>2, <2>5, <2>6 DEF InWindow, w
<1>6. CASE s.left # 0
  <2>1. b = Counted(s) /\ b.left = s.left /\ b.left # 0 /\ Age(b) = Age(s)
        /\ b.count = IF s.count <= Limit THEN s.count + 1 ELSE s.count
    BY <1>6 DEF Over, Counted, BucketType, Age
  <2>2. Age(s) \in Spans
    BY <1>1, <1>6, SMT DEF Age, Spans
  <2>3. Got(f, Age(s)) = (IF s.count <= Limit THEN s.count ELSE Limit) /\ f[Age(s)] > 0
        /\ Got(f, w) - Got(f, Age(s)) <= Limit - 1
    BY <1>6 DEF InWindow, w
  <2>4. h[Age(s)] > 0
    <3>1. f[Age(s)] \in Nat
      BY <2>2 DEF History
    <3>2. h[Age(s)] = f[Age(s)] \/ h[Age(s)] = f[Age(s)] + 1
      BY <1>2, <2>2 DEF h, History
    <3> QED BY <2>3, <3>1, <3>2
  <2>5. Got(f, Age(s)) \in Int
    BY <2>2, GotInt
  <2>6. CASE Allowed(b)
    <3>1. g = h /\ s.count + 1 <= Limit /\ b.count = s.count + 1
      BY <1>1, <2>1, <2>6 DEF Allowed, h
    <3>2. Got(h, Age(s)) = b.count
      BY <1>1, <1>3, <2>2, <2>3, <3>1
    <3>3. Got(h, w) - Got(h, Age(s)) <= Limit - 1
      BY <1>1, <1>2, <1>3, <1>4, <2>2, <2>3, <2>5
    <3> QED BY <1>1, <2>1, <2>4, <3>1, <3>2, <3>3 DEF InWindow, w
  <2>7. CASE ~Allowed(b)
    <3>1. g = f /\ ~(b.count <= Limit)
      BY <2>7 DEF Allowed
    <3>2. (IF s.count <= Limit THEN s.count ELSE Limit) = Limit
      BY <1>1, <2>1, <3>1
    <3> QED BY <2>1, <2>3, <3>1, <3>2 DEF InWindow, w
  <2> QED BY <2>6, <2>7
<1> QED BY <1>5, <1>6

LEMMA WindowEmpty ==
  ASSUME NEW f, f = [s \in Spans |-> 0]
  PROVE  InWindow(NoBucket, f)
<1>0. Window - 1 \in Int /\ 0 \in Spans /\ Limit - 1 >= 0
  BY ConfigType, SMT DEF Spans
<1>1. IsFiniteSet(0..(Window - 1))
  BY <1>0, FS_Interval
<1>2. \A s \in 0..(Window - 1) : f[s] = 0
  BY DEF Spans
<1>3. Got(f, Window - 1) = 0
  BY <1>1, <1>2, TotalZero DEF Got
<1> QED BY <1>0, <1>3 DEF InWindow, NoBucket

LEMMA WindowStep ==
  ASSUME LimiterTypeOK, WindowInv, [Next]_vars
  PROVE  WindowInv'
<1>1. \A c \in Clients : bucket[c] \in BucketType /\ admitted[c] \in History
  BY DEF LimiterTypeOK, BucketType, History
<1>2. ASSUME NEW c \in Clients, Hit(c) PROVE WindowInv'
  <2> DEFINE b == HitBucket(c)
             g == IF Allowed(b) THEN [admitted[c] EXCEPT ![0] = @ + 1] ELSE admitted[c]
  <2>1. bucket' = [Swept EXCEPT ![c] = b] /\ admitted' = [admitted EXCEPT ![c] = g]
    BY <1>2 DEF Hit, LimiterTypeOK
  <2>2. ASSUME NEW d \in Clients PROVE Swept[d] \in BucketType /\ InWindow(Swept[d], admitted[d])
    <3>1. Swept[d] \in BucketType /\ (Swept[d] = bucket[d] \/ (bucket[d].left = 0 /\ Swept[d].left = 0))
      BY SweptType
    <3> QED BY <3>1 DEF WindowInv, InWindow
  <2>3. b = IF Over(Swept[c]) THEN Opened ELSE Counted(Swept[c])
    BY DEF HitBucket
  <2>4. InWindow(b, g)
    <3>1. Swept[c] \in BucketType /\ admitted[c] \in History /\ InWindow(Swept[c], admitted[c])
      BY <1>1, <2>2
    <3> HIDE DEF b
    <3> QED BY <2>3, <3>1, WindowHit
  <2>5. \A d \in Clients : /\ bucket'[d] = IF d = c THEN b ELSE Swept[d]
                           /\ admitted'[d] = IF d = c THEN g ELSE admitted[d]
    BY <2>1, SweptType DEF LimiterTypeOK
  <2> HIDE DEF b, g
  <2>6. ASSUME NEW d \in Clients PROVE InWindow(bucket'[d], admitted'[d])
    <3>1. CASE d = c
      BY <2>4, <2>5, <3>1
    <3>2. CASE d # c
      BY <2>2, <2>5, <3>2
    <3> QED BY <3>1, <3>2
  <2> QED BY <2>6 DEF WindowInv, InWindow, Age
<1>3. ASSUME LimiterTick PROVE WindowInv'
  <2>1. ASSUME NEW c \in Clients PROVE InWindow(bucket'[c], admitted'[c])
    <3>1. bucket'[c] = [bucket[c] EXCEPT !.left = Less(@)] /\ admitted'[c] = Older(admitted[c])
      BY <1>3 DEF LimiterTick, Older
    <3> QED BY <1>1, <3>1, WindowTick DEF WindowInv
  <2> QED BY <2>1 DEF WindowInv, InWindow, Age
<1>4. ASSUME LimiterRestart PROVE WindowInv'
  <2>1. ASSUME NEW c \in Clients PROVE InWindow(bucket'[c], admitted'[c])
    BY <1>4, WindowEmpty DEF LimiterRestart
  <2> QED BY <2>1 DEF WindowInv, InWindow, Age
<1>5. CASE UNCHANGED limiterVars
  BY <1>5 DEF WindowInv, limiterVars
<1> QED
  BY <1>2, <1>3, <1>4, <1>5
  DEF Next, Post, GetStatus, Serve, Set, Expire, Del, Get, ReadTtl, RedisRefuses, ApiDies,
      Tick, Command, vars

(* In any span as long as a window a client gets through less than twice   *)
(* the limit: fixed windows of RateLimiter.hit, restarts of the process    *)
(* not counted together.                                                   *)
THEOREM BurstsBounded == Spec => []BurstBound
<1>1. Init => WindowInv
  <2> SUFFICES ASSUME Init PROVE WindowInv
    OBVIOUS
  <2>1. ASSUME NEW c \in Clients PROVE InWindow(bucket[c], admitted[c])
    BY WindowEmpty DEF Init, LimiterInit
  <2> QED BY <2>1 DEF WindowInv
<1>2. TypeOK /\ WindowInv /\ [Next]_vars => WindowInv'
  BY WindowStep DEF TypeOK
<1>3. TypeOK /\ WindowInv => BurstBound
  <2> SUFFICES ASSUME TypeOK, WindowInv, NEW c \in Clients
               PROVE  Total(admitted[c], Spans) <= 2 * Limit - 1
    BY DEF BurstBound
  <2> DEFINE f == admitted[c]
             b == bucket[c]
  <2>1. f \in History /\ b \in BucketType /\ InWindow(b, f)
    BY DEF TypeOK, LimiterTypeOK, History, BucketType, WindowInv
  <2>2. Total(f, Spans) = Got(f, Window - 1) /\ Window - 1 \in Spans
        /\ Limit \in Nat \ {0} /\ Window \in Nat
    BY ConfigType, SMT DEF Got, Spans
  <2> HIDE DEF f, b
  <2>3. Got(f, Window - 1) \in Int
    BY <2>1, <2>2, GotInt
  <2>4. CASE b.left = 0
    BY <2>1, <2>2, <2>3, <2>4 DEF InWindow, f
  <2>5. CASE b.left # 0
    <3>1. Age(b) \in Spans
      BY <2>1, <2>2, <2>5, SMT DEF Age, Spans, BucketType
    <3>2. Got(f, Age(b)) \in Int /\ Got(f, Age(b)) <= Limit
          /\ Got(f, Window - 1) - Got(f, Age(b)) <= Limit - 1
      BY <2>1, <2>2, <2>5, <3>1, GotInt DEF InWindow, BucketType
    <3> QED BY <2>2, <2>3, <3>2 DEF f
  <2> QED BY <2>4, <2>5
<1> QED BY <1>1, <1>2, <1>3, SwitchTypeCorrect, PTL DEF Spec
=============================================================================
