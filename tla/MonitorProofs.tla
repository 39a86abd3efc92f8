---------------------------- MODULE MonitorProofs ----------------------------
(***************************************************************************)
(* Theorems about Monitor for every number of rows, failed calls, workers  *)
(* and channels, every configuration, and every failure budget.            *)
(***************************************************************************)
EXTENDS Monitor, FiniteSetTheorems, TLAPS

(* What the assumption on MonitorConfig and the bounds gives.              *)
LEMMA ConfigType ==
  /\ {BacklogAge, MaxLag, MaxRows, MaxFaults, MaxNow} \subseteq Nat
  /\ {Interval, Window, Cooldown} \subseteq Nat \ {0}
  /\ Queries \subseteq SUBSET Signals
  /\ MaxLag < Cooldown
  /\ Window <= MaxNow
BY MonitorAssumption DEF MonitorAssumption

(* Every time up to the bound falls in a bucket; the start of a window is  *)
(* one bucket before its end.                                              *)
LEMMA BucketType ==
  ASSUME NEW t \in Ticks
  PROVE  /\ Bucket(t) \in Buckets
         /\ Bucket(t - Window) \in Buckets
         /\ Bucket(t - Window) = Bucket(t) - 1
<1>1. t \in Nat /\ Window \in Nat \ {0} /\ Window <= t /\ t <= MaxNow /\ MaxNow \in Nat
  BY ConfigType DEF Ticks
<1>2. /\ Bucket(t) \in Int /\ Bucket(MaxNow) \in Int /\ Bucket(0) \in Int
      /\ Bucket(t) <= Bucket(MaxNow)
      /\ Bucket(0) <= Bucket(t)
  BY <1>1, SMT DEF Bucket
<1>3. /\ Bucket(t - Window) = Bucket(t) - 1
      /\ Bucket(0) <= Bucket(t - Window)
  BY <1>1, SMT DEF Bucket
<1> QED
  BY <1>2, <1>3, SMT DEF Buckets

(* A query answers a number, whatever it counts.                           *)
LEMMA CountedType ==
  ASSUME TypeOK, NEW s \in Signals, NEW t \in Ticks
  PROVE  Counted(s, t) \in Nat
<1>1. ASSUME NEW P \in SUBSET Messages PROVE Cardinality(P) \in Nat
  BY <1>1, MonitorAssumption, FS_Subset, FS_CardinalityType DEF MonitorAssumption
<1>2. ASSUME NEW P \in SUBSET RawEvents PROVE Cardinality(P) \in Nat
  BY <1>2, MonitorAssumption, FS_Subset, FS_CardinalityType DEF MonitorAssumption
<1>3. CASE s = "failedMessages"
  <2>1. {m \in Messages : failed[m] # Never /\ failed[m] >= t - Window} \in SUBSET Messages
    OBVIOUS
  <2> QED BY <1>1, <1>3, <2>1 DEF Counted
<1>4. CASE s = "failedEvents"
  BY <1>4 DEF Counted
<1>5. CASE s = "pendingBacklog"
  <2>1. {e \in RawEvents : pending[e] # Never /\ pending[e] < t - BacklogAge} \in SUBSET RawEvents
    OBVIOUS
  <2> QED BY <1>2, <1>5, <2>1 DEF Counted
<1>6. CASE s = "aiErrors"
  <2>1. count[Bucket(t)] \in Nat /\ count[Bucket(t - Window)] \in Nat
    BY BucketType DEF TypeOK
  <2> QED BY <1>6, <2>1 DEF Counted, CounterRead
<1> QED BY <1>3, <1>4, <1>5, <1>6 DEF Signals

LEMMA ProblemsType ==
  ASSUME NEW got \in [Signals -> Nat]
  PROVE  Problems(got) \in SUBSET Problem
BY DEF Problems, Problem

LEMMA IdleType ==
  ASSUME NEW t \in {Never} \cup Ticks
  PROVE  /\ Idle(t) \in [pc : {"idle", "read", "claim", "send"}, at : {Never} \cup Ticks,
                         left : SUBSET Queries, to : SUBSET Channels, got : [Signals -> Nat]]
         /\ Idle(t).pc = "idle" /\ Idle(t).at = t
BY DEF Idle
-----------------------------------------------------------------------------
(* Types.                                                                  *)

CheckType == [pc : {"idle", "read", "claim", "send"}, at : {Never} \cup Ticks,
              left : SUBSET Queries, to : SUBSET Channels, got : [Signals -> Nat]]

(* A check that runs began at most MaxLag ticks ago.                       *)
LagInv ==
  \A c \in Checks : check[c].pc # "idle" =>
    check[c].at \in Ticks /\ check[c].at <= now /\ now <= check[c].at + MaxLag

LEMMA TypeInit == Init => TypeOK
<1> SUFFICES ASSUME Init PROVE TypeOK
  OBVIOUS
<1>1. Window \in Ticks /\ 0 \in 0..MaxFaults
  BY ConfigType DEF Ticks
<1>2. Idle(Never) \in CheckType
  BY IdleType DEF CheckType
<1> QED
  BY <1>1, <1>2 DEF Init, TypeOK, CheckType

LEMMA TypeStep == TypeOK /\ LagInv /\ [Next]_vars => TypeOK'
<1> SUFFICES ASSUME TypeOK, LagInv, [Next]_vars PROVE TypeOK'
  OBVIOUS
<1> USE DEF TypeOK
<1>l. ASSUME NEW k, Lapse(k) PROVE lapses' \in 0..MaxFaults
  BY <1>l, ConfigType DEF Lapse
<1>1. CASE Tick
  <2>1. now' \in Ticks
    BY <1>1, ConfigType DEF Tick, Ticks
  <2>2. count' \in [Buckets -> Nat] /\ expires' \in [Buckets -> {Never} \cup 1..(MaxNow + 2 * Window)]
    BY <1>1, Zenon DEF Tick, Never
  <2> QED
    BY <1>1, <2>1, <2>2 DEF Tick, rowVars
<1>2. CASE \E m \in Messages, t \in Ticks : Fails(m, t)
  BY <1>2 DEF Fails, counterVars
<1>3. CASE \E e \in RawEvents : Captures(e)
  BY <1>3 DEF Captures, counterVars
<1>4. CASE \E x \in Errors : CallFails(x)
  BY <1>4 DEF CallFails, rowVars
<1>5. ASSUME NEW x \in Errors, Incr(x) PROVE TypeOK'
  <2>1. Bucket(error[x].at) \in Buckets
    BY BucketType
  <2> QED BY <1>5, <2>1 DEF Incr, AfterIncr, rowVars
<1>6. ASSUME NEW x \in Errors, Expire(x) PROVE TypeOK'
  <2>1. now + Ttl \in 1..(MaxNow + 2 * Window)
    <3>1. now \in Ticks
      OBVIOUS
    <3> HIDE DEF TypeOK
    <3> QED BY <3>1, ConfigType, SMT DEF Ticks, Ttl
  <2>2. expires' \in [Buckets -> {Never} \cup 1..(MaxNow + 2 * Window)]
    BY <1>6, <2>1 DEF Expire
  <2> QED BY <1>6, <2>2 DEF Expire, rowVars
<1>7. ASSUME NEW x \in Errors, IncFails(x) PROVE TypeOK'
  BY <1>7, <1>l DEF IncFails, rowVars
<1>8. ASSUME NEW c \in Checks, StartCheck(c) PROVE TypeOK'
  <2>1. Idle(now) \in CheckType
    BY IdleType DEF CheckType
  <2>2. [Idle(now) EXCEPT !.pc = "read", !.left = Queries] \in CheckType
    BY <2>1 DEF CheckType
  <2> QED BY <1>8, <2>2 DEF StartCheck, CheckType, rowVars, counterVars
<1>i. ASSUME NEW c \in Checks PROVE Idle(check[c].at) \in CheckType
  BY IdleType DEF CheckType
<1>9. ASSUME NEW c \in Checks, NEW q \in Queries, Read(c, q) PROVE TypeOK'
  <2> DEFINE got == [s \in Signals |-> IF s \in q THEN Counted(s, check[c].at) ELSE check[c].got[s]]
             left == check[c].left \ {q}
             k == [check[c] EXCEPT !.left = left, !.got = got,
                                   !.pc = IF left = {} THEN "claim" ELSE "read"]
  <2>0. check[c].at \in Ticks
    BY <1>9 DEF Read, LagInv
  <2>1. got \in [Signals -> Nat]
    BY <2>0, CountedType
  <2>2. k \in CheckType
    <3> HIDE DEF got
    <3>1. check[c] \in CheckType
      BY DEF CheckType
    <3> QED BY <2>1, <3>1 DEF CheckType
  <2>3. check' = [check EXCEPT ![c] =
          IF left = {} /\ Problems(got) = {} THEN Idle(check[c].at) ELSE k]
    BY <1>9, Zenon DEF Read
  <2>4. check' \in [Checks -> CheckType]
    <3> HIDE DEF k
    <3> QED BY <1>i, <2>2, <2>3 DEF CheckType
  <2> QED
    BY <1>9, <2>4, Zenon DEF Read, CheckType, rowVars, counterVars
<1>10. ASSUME NEW c \in Checks, ClaimAlert(c) PROVE TypeOK'
  <2>1. Slot(Problems(check[c].got)) \in [problems : SUBSET Problem, until : 1..(MaxNow + Cooldown)]
    <3>1. now + Cooldown \in 1..(MaxNow + Cooldown)
      BY ConfigType DEF Ticks
    <3> QED BY <3>1, ProblemsType DEF Slot, Fingerprint
  <2>2. [check[c] EXCEPT !.pc = "send", !.to = Channels] \in CheckType
    BY DEF CheckType
  <2>3. check' \in [Checks -> CheckType]
    BY ZenonT(30), <1>10, <1>i, <2>2 DEF ClaimAlert, CheckType
  <2>4. claims' \subseteq [problems : SUBSET Problem, until : 1..(MaxNow + Cooldown)]
    BY <1>10, <2>1 DEF ClaimAlert
  <2> QED
    BY <1>10, <2>3, <2>4 DEF ClaimAlert, CheckType, rowVars, counterVars
<1>11. ASSUME NEW c \in Checks, NEW ch \in Channels, SendAlert(c, ch) PROVE TypeOK'
  <2>1. [check[c] EXCEPT !.to = check[c].to \ {ch}] \in CheckType
    BY DEF CheckType
  <2>2. check' \in [Checks -> CheckType]
    BY <1>11, <1>i, <2>1 DEF SendAlert, CheckType
  <2>3. [problems |-> Problems(check[c].got), channel |-> ch, at |-> now]
          \in [problems : SUBSET Problem, channel : Channels, at : Ticks]
    BY ProblemsType
  <2>4. delivered' \subseteq [problems : SUBSET Problem, channel : Channels, at : Ticks]
    BY <1>11, <2>3 DEF SendAlert
  <2>5. lapses' \in 0..MaxFaults
    BY <1>11, <1>l DEF SendAlert
  <2> QED
    BY <1>11, <2>2, <2>4, <2>5 DEF SendAlert, CheckType, rowVars, counterVars
<1>12. ASSUME NEW c \in Checks, CheckFails(c) PROVE TypeOK'
  BY <1>12, <1>i, <1>l DEF CheckFails, CheckType, rowVars, counterVars
<1>13. CASE UNCHANGED vars
  BY <1>13 DEF vars, rowVars, counterVars
<1> QED
  BY <1>1, <1>2, <1>3, <1>4, <1>5, <1>6, <1>7, <1>8, <1>9, <1>10, <1>11, <1>12, <1>13 DEF Next

(* What the steps of one check do to it.                                   *)
LEMMA ReadStep ==
  ASSUME check \in [Checks -> CheckType], NEW c \in Checks, NEW q \in Queries, Read(c, q)
  PROVE  /\ check'[c].at = check[c].at /\ check'[c].pc # "send"
         /\ \A x \in Checks \ {c} : check'[x] = check[x]
<1> DEFINE left == check[c].left \ {q}
           got == [s \in Signals |-> IF s \in q THEN Counted(s, check[c].at) ELSE check[c].got[s]]
           k == [check[c] EXCEPT !.left = left, !.got = got,
                                 !.pc = IF left = {} THEN "claim" ELSE "read"]
           i == Idle(check[c].at)
<1>1. check' = [check EXCEPT ![c] = IF left = {} /\ Problems(got) = {} THEN i ELSE k]
  BY Zenon DEF Read
<1>2. k.at = check[c].at /\ i.at = check[c].at /\ i.pc # "send" /\ k.pc # "send"
  BY DEF CheckType, Idle
<1> HIDE DEF k, i
<1> QED BY <1>1, <1>2

LEMMA ClaimStep ==
  ASSUME check \in [Checks -> CheckType], NEW c \in Checks, ClaimAlert(c)
  PROVE  /\ check'[c].at = check[c].at
         /\ \A x \in Checks \ {c} : check'[x] = check[x]
         /\ check'[c].pc = "send" =>
              /\ ~Claimed(Problems(check[c].got))
              /\ check'[c].got = check[c].got /\ check'[c].to = Channels
         /\ check'[c].pc = "idle" => Claimed(Problems(check[c].got)) \/ Channels = {}
         /\ check'[c].pc \in {"idle", "send"}
<1> DEFINE k == [check[c] EXCEPT !.pc = "send", !.to = Channels]
           i == Idle(check[c].at)
<1>1. check' = [check EXCEPT ![c] = IF Claimed(Problems(check[c].got)) \/ Channels = {} THEN i ELSE k]
  BY Zenon DEF ClaimAlert
<1>2. /\ k.at = check[c].at /\ k.pc = "send" /\ k.got = check[c].got /\ k.to = Channels
      /\ i.at = check[c].at /\ i.pc = "idle"
  BY DEF CheckType, Idle
<1> HIDE DEF k, i
<1> QED BY <1>1, <1>2

LEMMA SendStep ==
  ASSUME check \in [Checks -> CheckType], NEW c \in Checks, NEW ch \in Channels, SendAlert(c, ch)
  PROVE  /\ check'[c].at = check[c].at
         /\ \A x \in Checks \ {c} : check'[x] = check[x]
         /\ check'[c].pc = "send" =>
              check'[c].got = check[c].got /\ check'[c].to = check[c].to \ {ch}
         /\ check'[c].pc = "idle" => check[c].to = {ch}
         /\ check'[c].pc \in {"idle", "send"}
<1> DEFINE k == [check[c] EXCEPT !.to = check[c].to \ {ch}]
           i == Idle(check[c].at)
<1>1. check' = [check EXCEPT ![c] = IF check[c].to = {ch} THEN i ELSE k]
  BY Zenon DEF SendAlert
<1>2. /\ k.at = check[c].at /\ k.pc = "send" /\ k.got = check[c].got /\ k.to = check[c].to \ {ch}
      /\ i.at = check[c].at /\ i.pc = "idle"
  BY DEF CheckType, Idle, SendAlert
<1> HIDE DEF k, i
<1> QED BY <1>1, <1>2

LEMMA LagStep == TypeOK /\ LagInv /\ [Next]_vars => LagInv'
<1> SUFFICES ASSUME TypeOK, LagInv, [Next]_vars PROVE LagInv'
  OBVIOUS
<1>c. now \in Int /\ Ticks \subseteq Int /\ MaxLag \in Nat
  BY ConfigType DEF TypeOK, Ticks
<1>t. check \in [Checks -> CheckType]
  BY DEF TypeOK, CheckType
<1>1. CASE Tick
  <2> SUFFICES ASSUME NEW c \in Checks, check[c].pc # "idle"
               PROVE  check[c].at \in Ticks /\ check[c].at <= now' /\ now' <= check[c].at + MaxLag
    BY <1>1 DEF Tick, LagInv
  <2>1. check[c].at \in Ticks /\ check[c].at <= now /\ now < check[c].at + MaxLag
    BY <1>1 DEF Tick, LagInv
  <2>2. now' = now + 1
    BY <1>1 DEF Tick
  <2>3. check[c].at \in Int
    BY <1>c, <2>1
  <2> QED BY <1>c, <2>1, <2>2, <2>3
<1>2. ASSUME NEW c \in Checks, StartCheck(c) PROVE LagInv'
  <2>1. check' = [check EXCEPT ![c] = [Idle(now) EXCEPT !.pc = "read", !.left = Queries]]
    BY <1>2 DEF StartCheck
  <2>2. check'[c].at = now /\ \A x \in Checks \ {c} : check'[x] = check[x]
    BY <2>1, <1>t DEF Idle
  <2> QED BY <1>2, <1>c, <2>2, ConfigType DEF StartCheck, LagInv, TypeOK
<1>3. ASSUME now' = now,
             \A c \in Checks : check'[c].pc # "idle" =>
               check[c].pc # "idle" /\ check'[c].at = check[c].at
      PROVE  LagInv'
  BY <1>3 DEF LagInv
<1>4. ASSUME NEW c \in Checks, now' = now, check[c].pc # "idle",
             \A x \in Checks \ {c} : check'[x] = check[x],
             check'[c].at = check[c].at
      PROVE  LagInv'
  BY <1>3, <1>4
<1>5. CASE \/ \E m \in Messages, t \in Ticks : Fails(m, t)
           \/ \E e \in RawEvents : Captures(e)
           \/ \E x \in Errors : CallFails(x) \/ Incr(x) \/ Expire(x) \/ IncFails(x)
           \/ UNCHANGED vars
  <2>1. now' = now /\ check' = check
    BY <1>5 DEF Fails, Captures, CallFails, Incr, Expire, IncFails, vars
  <2> QED BY <1>3, <2>1
<1>6. ASSUME NEW c \in Checks, NEW q \in Queries, Read(c, q) PROVE LagInv'
  <2>1. now' = now /\ check[c].pc # "idle"
    BY <1>6 DEF Read
  <2> QED BY <1>4, <1>6, <1>t, <2>1, ReadStep
<1>7. ASSUME NEW c \in Checks, ClaimAlert(c) PROVE LagInv'
  <2>1. now' = now /\ check[c].pc # "idle"
    BY <1>7 DEF ClaimAlert
  <2> QED BY <1>4, <1>7, <1>t, <2>1, ClaimStep
<1>8. ASSUME NEW c \in Checks, NEW ch \in Channels, SendAlert(c, ch) PROVE LagInv'
  <2>1. now' = now /\ check[c].pc # "idle"
    BY <1>8 DEF SendAlert
  <2> QED BY <1>4, <1>8, <1>t, <2>1, SendStep
<1>9. ASSUME NEW c \in Checks, CheckFails(c) PROVE LagInv'
  <2>1. now' = now /\ check[c].pc # "idle"
    BY <1>9 DEF CheckFails
  <2>2. check' = [check EXCEPT ![c] = Idle(check[c].at)]
    BY <1>9 DEF CheckFails
  <2> QED BY <1>4, <1>t, <2>1, <2>2 DEF Idle
<1> QED
  BY <1>1, <1>2, <1>5, <1>6, <1>7, <1>8, <1>9, Zenon DEF Next

-----------------------------------------------------------------------------
(* Alerts.                                                                 *)

Sending(c) == check[c].pc = "send"
Telling(c) == Problems(check[c].got)

(* Who sends holds a slot that outlives its check, and no two tell the     *)
(* same problems.                                                          *)
SlotInv ==
  /\ \A k \in claims : now < k.until /\ k.until <= now + Cooldown
  /\ \A c \in Checks : Sending(c) =>
       \E k \in claims : k.problems = Telling(c) /\ check[c].at + Cooldown <= k.until
  /\ \A c, x \in Checks : Sending(c) /\ Sending(x) /\ c # x => Telling(c) # Telling(x)

(* What was told lately is still claimed, and what a check is about to     *)
(* tell was not told lately.                                               *)
ToldInv ==
  /\ \A d \in delivered : d.at <= now
  /\ \A d \in delivered :
       \/ d.at + Cooldown - MaxLag <= now
       \/ \E k \in claims : k.problems = d.problems /\ d.at + Cooldown - MaxLag <= k.until
  /\ \A c \in Checks, d \in delivered :
       Sending(c) /\ d.problems = Telling(c) /\ d.channel \in check[c].to
         => d.at + Cooldown - MaxLag <= now

AlertInv == SlotInv /\ ToldInv /\ AlertSpaced

(* While nothing failed, a claimed problem was told to every channel, or   *)
(* is being told.                                                          *)
HeardInv ==
  lapses = 0 => \A k \in claims, ch \in Channels :
    \/ \E d \in delivered :
         d.problems = k.problems /\ d.channel = ch /\ k.until <= d.at + Cooldown
    \/ \E c \in Checks : Sending(c) /\ ch \in check[c].to /\ Telling(c) = k.problems

LEMMA AlertInit == Init => AlertInv /\ HeardInv
BY DEF Init, AlertInv, SlotInv, ToldInv, AlertSpaced, HeardInv, Sending, Idle

(* A step that touches neither slots nor deliveries and starts no sending  *)
(* keeps the invariant, whatever else it does.                             *)
LEMMA QuietStep ==
  ASSUME AlertInv, UNCHANGED <<now, claims, delivered>>,
         \A x \in Checks : Sending(x)' => Sending(x) /\ check'[x] = check[x]
  PROVE  AlertInv'
<1>1. \A x \in Checks : Sending(x)' => Telling(x)' = Telling(x)
  BY DEF Telling
<1>2. SlotInv'
  <2> HIDE DEF Telling
  <2> QED BY <1>1 DEF AlertInv, SlotInv
<1>3. ToldInv'
  BY <1>1 DEF AlertInv, ToldInv
<1>4. AlertSpaced'
  BY DEF AlertInv, AlertSpaced
<1> QED BY <1>2, <1>3, <1>4 DEF AlertInv

LEMMA QuietHeard ==
  ASSUME HeardInv, UNCHANGED <<now, claims, delivered, lapses>>,
         \A x \in Checks : Sending(x) => Sending(x)' /\ check'[x] = check[x]
  PROVE  HeardInv'
<1>1. \A x \in Checks : Sending(x) => Telling(x)' = Telling(x)
  BY DEF Telling
<1> QED BY <1>1 DEF HeardInv

(* Whoever gets the slot finds nobody telling the same problems, and no    *)
(* late telling of them.                                                   *)
LEMMA ClaimKeeps ==
  ASSUME TypeOK, LagInv, AlertInv, HeardInv, NEW c \in Checks, ClaimAlert(c)
  PROVE  AlertInv' /\ HeardInv'
<1> DEFINE p == Problems(check[c].got)
<1>t. /\ check \in [Checks -> CheckType] /\ now \in Int /\ check[c].at \in Int
      /\ check[c].at <= now /\ ~Sending(c) /\ Cooldown \in Nat \ {0} /\ MaxLag \in Nat
  BY ConfigType DEF TypeOK, CheckType, LagInv, ClaimAlert, Ticks, Sending
<1>1. /\ UNCHANGED <<now, delivered, lapses>>
      /\ \A x \in Checks \ {c} : check'[x] = check[x]
  BY <1>t, ClaimStep DEF ClaimAlert, counterVars
<1>2. CASE Claimed(p)
  <2>1. claims' = claims /\ check'[c].pc = "idle"
    BY <1>2, <1>t, ClaimStep DEF ClaimAlert
  <2>2. ~Sending(c)'
    BY <2>1 DEF Sending
  <2>3. \A x \in Checks : Sending(x) \/ Sending(x)' => x # c
    BY <1>t, <2>2
  <2> QED BY <1>1, <2>1, <2>3, QuietStep, QuietHeard DEF Sending
<1>3. CASE ~Claimed(p)
  <2> DEFINE s == Slot(p)
  <2>1. /\ claims' = claims \cup {s}
        /\ s.problems = p /\ s.until = now + Cooldown
        /\ \A k \in claims : k.problems # p
    BY <1>3 DEF ClaimAlert, Slot, Claimed, Fingerprint
  <2>2. Sending(c)' => Telling(c)' = p /\ check'[c].to = Channels
    BY <1>t, ClaimStep DEF Sending, Telling
  <2>3. \A x \in Checks \ {c} : /\ Sending(x)' = Sending(x) /\ Telling(x)' = Telling(x)
                               /\ check'[x] = check[x]
    BY <1>1 DEF Sending, Telling
  <2>4. check'[c].at = check[c].at
    BY <1>t, ClaimStep
  <2> HIDE DEF s, p
  <2>5. SlotInv'
    <3>1. \A k \in claims' : now' < k.until /\ k.until <= now' + Cooldown
      BY <1>t, <1>1, <2>1 DEF AlertInv, SlotInv
    <3>2. \A x \in Checks : Sending(x)' =>
            \E k \in claims' : k.problems = Telling(x)' /\ check'[x].at + Cooldown <= k.until
      BY <1>t, <2>1, <2>2, <2>3, <2>4 DEF AlertInv, SlotInv
    <3>3. \A x \in Checks \ {c} : Sending(x) => Telling(x) # p
      BY <2>1 DEF AlertInv, SlotInv
    <3>4. \A x, y \in Checks : Sending(x)' /\ Sending(y)' /\ x # y => Telling(x)' # Telling(y)'
      BY <2>2, <2>3, <3>3 DEF AlertInv, SlotInv
    <3> QED BY <3>1, <3>2, <3>4 DEF SlotInv
  <2>6. ToldInv'
    <3>1. \A d \in delivered : d.problems = p => d.at + Cooldown - MaxLag <= now
      BY <2>1 DEF AlertInv, ToldInv
    <3> QED BY <1>1, <2>1, <2>2, <2>3, <3>1 DEF AlertInv, ToldInv
  <2>7. AlertSpaced'
    BY <1>1 DEF AlertInv, AlertSpaced
  <2>8. HeardInv'
    <3> SUFFICES ASSUME lapses = 0, NEW k \in claims', NEW ch \in Channels
                 PROVE  \/ \E d \in delivered' : /\ d.problems = k.problems /\ d.channel = ch
                                                /\ k.until <= d.at + Cooldown
                        \/ \E x \in Checks : /\ Sending(x)' /\ ch \in check'[x].to
                                           /\ Telling(x)' = k.problems
      BY <1>1 DEF HeardInv
    <3>1. CASE k \in claims
      <4>1. CASE \E d \in delivered : /\ d.problems = k.problems /\ d.channel = ch
                                      /\ k.until <= d.at + Cooldown
        BY <1>1, <4>1
      <4>2. CASE \E x \in Checks : Sending(x) /\ ch \in check[x].to /\ Telling(x) = k.problems
        <5>1. PICK x \in Checks : Sending(x) /\ ch \in check[x].to /\ Telling(x) = k.problems
          BY <4>2
        <5>2. x \in Checks \ {c}
          BY <1>t, <5>1
        <5> QED BY <2>3, <5>1, <5>2
      <4> QED BY <3>1, <4>1, <4>2 DEF HeardInv
    <3>2. CASE k = s
      <4>1. Sending(c)'
        BY <1>t, ClaimStep, <1>3 DEF Sending, p
      <4> QED BY <2>1, <2>2, <3>2, <4>1
    <3> QED BY <2>1, <3>1, <3>2
  <2> QED BY <2>5, <2>6, <2>7, <2>8 DEF AlertInv
<1> QED BY <1>2, <1>3

(* A delivery is the first of its problems on its channel within the       *)
(* cooldown: only the sender holds the slot, and it told nobody there yet. *)
LEMMA SendKeeps ==
  ASSUME TypeOK, LagInv, AlertInv, HeardInv,
         NEW c \in Checks, NEW ch \in Channels, SendAlert(c, ch)
  PROVE  AlertInv' /\ HeardInv'
<1> DEFINE p == Problems(check[c].got)
           d0 == [problems |-> p, channel |-> ch, at |-> now]
<1>t. /\ check \in [Checks -> CheckType] /\ now \in Int /\ check[c].at \in Int
      /\ check[c].at <= now /\ now <= check[c].at + MaxLag
      /\ Cooldown \in Nat \ {0} /\ MaxLag \in Nat /\ MaxLag < Cooldown
      /\ Sending(c) /\ Telling(c) = p /\ ch \in check[c].to
      /\ \A k \in claims : k.until \in Int
      /\ \A d \in delivered : d.at \in Int
  BY ConfigType DEF TypeOK, CheckType, LagInv, SendAlert, Ticks, Sending, Telling
<1>1. /\ now' = now /\ claims' = claims
      /\ \A x \in Checks \ {c} : check'[x] = check[x]
      /\ \/ delivered' = delivered \cup {d0} /\ lapses' = lapses
         \/ delivered' = delivered /\ Lapse("send")
  <2>1. \A x \in Checks \ {c} : check'[x] = check[x]
    BY <1>t, SendStep
  <2>2. /\ now' = now /\ claims' = claims
        /\ \/ delivered' = delivered \cup {d0} /\ lapses' = lapses
           \/ delivered' = delivered /\ Lapse("send")
    BY Zenon DEF SendAlert
  <2> QED BY <2>1, <2>2
<1>2. d0.problems = p /\ d0.channel = ch /\ d0.at = now
  OBVIOUS
<1>3. \A x \in Checks \ {c} : /\ Sending(x)' = Sending(x) /\ Telling(x)' = Telling(x)
                             /\ check'[x] = check[x]
  BY <1>1 DEF Sending, Telling
<1>4. Sending(c)' => Telling(c)' = p /\ check'[c].to = check[c].to \ {ch}
  BY <1>t, SendStep DEF Sending, Telling
<1>5. check'[c].at = check[c].at
  BY <1>t, SendStep
<1> HIDE DEF p, d0
<1>6. SlotInv'
  BY <1>t, <1>1, <1>3, <1>4, <1>5 DEF AlertInv, SlotInv
<1>7. PICK k0 \in claims : k0.problems = p /\ check[c].at + Cooldown <= k0.until
  BY <1>t DEF AlertInv, SlotInv
<1>8. \A d \in delivered : d.problems = p /\ d.channel = ch => d.at + Cooldown - MaxLag <= now
  BY <1>t DEF AlertInv, ToldInv
<1>9. ToldInv'
  <2>1. \A d \in delivered' : d.at <= now'
    BY <1>t, <1>1, <1>2 DEF AlertInv, ToldInv
  <2>2. \A d \in delivered' :
          \/ d.at + Cooldown - MaxLag <= now'
          \/ \E k \in claims' : k.problems = d.problems /\ d.at + Cooldown - MaxLag <= k.until
    BY <1>t, <1>1, <1>2, <1>7 DEF AlertInv, ToldInv
  <2>3. \A x \in Checks \ {c} : Sending(x) => Telling(x) # p
    BY <1>t DEF AlertInv, SlotInv
  <2>4. \A x \in Checks, d \in delivered' :
          Sending(x)' /\ d.problems = Telling(x)' /\ d.channel \in check'[x].to
            => d.at + Cooldown - MaxLag <= now'
    <3> SUFFICES ASSUME NEW x \in Checks, NEW d \in delivered', Sending(x)',
                        d.problems = Telling(x)', d.channel \in check'[x].to
                 PROVE  d.at + Cooldown - MaxLag <= now
      BY <1>1
    <3>1. d # d0
      BY <1>2, <1>3, <1>4, <2>3
    <3>2. d \in delivered
      BY <1>1, <3>1
    <3> QED BY <1>3, <1>4, <1>t, <3>2 DEF AlertInv, ToldInv
  <2> QED BY <2>1, <2>2, <2>4 DEF ToldInv
<1>10. AlertSpaced'
  <2> SUFFICES ASSUME NEW d \in delivered', NEW e \in delivered', d.problems = e.problems,
                      d.channel = e.channel, d.at <= e.at, d # e
               PROVE  d.at + Cooldown - MaxLag <= e.at
    BY DEF AlertSpaced
  <2>1. CASE d \in delivered /\ e \in delivered
    BY <2>1 DEF AlertInv, AlertSpaced
  <2>2. CASE e = d0
    BY <1>1, <1>2, <1>8, <2>2
  <2>3. CASE d = d0 /\ e \in delivered
    BY <1>t, <1>2, <1>8, <2>3 DEF AlertInv, ToldInv
  <2> QED BY <1>1, <2>1, <2>2, <2>3
<1>11. HeardInv'
  <2> SUFFICES ASSUME lapses' = 0, NEW k \in claims, NEW h \in Channels
               PROVE  \/ \E d \in delivered' : /\ d.problems = k.problems /\ d.channel = h
                                              /\ k.until <= d.at + Cooldown
                      \/ \E x \in Checks : /\ Sending(x)' /\ h \in check'[x].to
                                         /\ Telling(x)' = k.problems
    BY <1>1 DEF HeardInv
  <2>1. lapses = 0 /\ delivered' = delivered \cup {d0}
    BY <1>1 DEF Lapse, TypeOK
  <2>2. CASE \E d \in delivered : /\ d.problems = k.problems /\ d.channel = h
                                  /\ k.until <= d.at + Cooldown
    BY <2>1, <2>2
  <2>3. CASE \E x \in Checks : Sending(x) /\ h \in check[x].to /\ Telling(x) = k.problems
    <3>1. PICK x \in Checks : Sending(x) /\ h \in check[x].to /\ Telling(x) = k.problems
      BY <2>3
    <3>2. CASE x # c
      BY <1>3, <3>1, <3>2
    <3>3. CASE x = c /\ h = ch
      BY <1>t, <1>2, <2>1, <3>1, <3>3 DEF AlertInv, SlotInv
    <3>4. CASE x = c /\ h # ch
      <4>1. Sending(c)'
        BY <1>t, <3>1, <3>4, SendStep DEF Sending
      <4> QED BY <1>t, <1>4, <3>1, <3>4, <4>1
    <3> QED BY <3>2, <3>3, <3>4
  <2> QED BY <2>1, <2>2, <2>3 DEF HeardInv
<1> QED BY <1>6, <1>9, <1>10, <1>11 DEF AlertInv

(* A slot runs out only when the alerts it stands for are old enough, and  *)
(* not under a check that still sends.                                     *)
LEMMA TickKeeps ==
  ASSUME TypeOK, LagInv, AlertInv, HeardInv, Tick
  PROVE  AlertInv' /\ HeardInv'
<1>t. /\ now \in Int /\ Cooldown \in Nat \ {0} /\ MaxLag \in Nat /\ MaxLag < Cooldown
      /\ \A k \in claims : k.until \in Int
      /\ \A d \in delivered : d.at \in Int
      /\ \A x \in Checks : Sending(x) => check[x].at \in Int /\ now < check[x].at + MaxLag
  BY ConfigType DEF TypeOK, LagInv, Ticks, Tick, Sending
<1>1. /\ now' = now + 1 /\ UNCHANGED <<check, lapses>>
      /\ claims' = {k \in claims : now + 1 < k.until}
      /\ delivered' = {d \in delivered : now + 1 < d.at + Cooldown}
  BY DEF Tick
<1>2. \A x \in Checks : Sending(x)' = Sending(x) /\ Telling(x)' = Telling(x)
  BY <1>1 DEF Sending, Telling
<1>3. SlotInv'
  <2>1. \A k \in claims' : now' < k.until /\ k.until <= now' + Cooldown
    BY <1>t, <1>1 DEF AlertInv, SlotInv
  <2>2. ASSUME NEW x \in Checks, Sending(x)
        PROVE  \E k \in claims' : k.problems = Telling(x) /\ check[x].at + Cooldown <= k.until
    <3>1. PICK k \in claims : k.problems = Telling(x) /\ check[x].at + Cooldown <= k.until
      BY <2>2 DEF AlertInv, SlotInv
    <3>2. now + 1 < k.until
      BY <1>t, <2>2, <3>1
    <3> QED BY <1>1, <3>1, <3>2
  <2>3. \A x, y \in Checks : Sending(x)' /\ Sending(y)' /\ x # y => Telling(x)' # Telling(y)'
    BY <1>2 DEF AlertInv, SlotInv
  <2> QED BY <1>1, <1>2, <2>1, <2>2, <2>3 DEF SlotInv
<1>4. ToldInv'
  <2>1. \A d \in delivered' : d \in delivered /\ d.at <= now'
    BY <1>t, <1>1 DEF AlertInv, ToldInv
  <2>2. ASSUME NEW d \in delivered'
        PROVE  \/ d.at + Cooldown - MaxLag <= now'
               \/ \E k \in claims' : k.problems = d.problems /\ d.at + Cooldown - MaxLag <= k.until
    <3>1. CASE d.at + Cooldown - MaxLag <= now
      BY <1>t, <1>1, <2>1, <3>1
    <3>2. CASE \E k \in claims : k.problems = d.problems /\ d.at + Cooldown - MaxLag <= k.until
      <4>1. PICK k \in claims : k.problems = d.problems /\ d.at + Cooldown - MaxLag <= k.until
        BY <3>2
      <4>2. CASE now + 1 < k.until
        BY <1>1, <4>1, <4>2
      <4>3. CASE ~(now + 1 < k.until)
        BY <1>t, <1>1, <2>1, <4>1, <4>3
      <4> QED BY <4>2, <4>3
    <3> QED BY <2>1, <3>1, <3>2 DEF AlertInv, ToldInv
  <2>3. ASSUME NEW x \in Checks, NEW d \in delivered', Sending(x), d.problems = Telling(x),
               d.channel \in check[x].to
        PROVE  d.at + Cooldown - MaxLag <= now'
    <3>1. d.at + Cooldown - MaxLag <= now
      BY <2>1, <2>3 DEF AlertInv, ToldInv
    <3> QED BY <1>t, <1>1, <2>1, <3>1
  <2> QED BY <1>1, <1>2, <2>1, <2>2, <2>3 DEF ToldInv
<1>5. AlertSpaced'
  BY <1>1 DEF AlertInv, AlertSpaced
<1>6. HeardInv'
  <2> SUFFICES ASSUME lapses = 0, NEW k \in claims', NEW ch \in Channels
               PROVE  \/ \E d \in delivered' : /\ d.problems = k.problems /\ d.channel = ch
                                              /\ k.until <= d.at + Cooldown
                      \/ \E x \in Checks : /\ Sending(x) /\ ch \in check[x].to
                                         /\ Telling(x) = k.problems
    BY <1>1, <1>2 DEF HeardInv
  <2>1. k \in claims /\ now + 1 < k.until
    BY <1>1
  <2>2. CASE \E d \in delivered : /\ d.problems = k.problems /\ d.channel = ch
                                  /\ k.until <= d.at + Cooldown
    <3>1. PICK d \in delivered : /\ d.problems = k.problems /\ d.channel = ch
                                 /\ k.until <= d.at + Cooldown
      BY <2>2
    <3>2. d \in delivered'
      BY <1>t, <1>1, <2>1, <3>1
    <3> QED BY <3>1, <3>2
  <2> QED BY <2>1, <2>2 DEF HeardInv
<1> QED BY <1>3, <1>4, <1>5, <1>6 DEF AlertInv

LEMMA AlertStep ==
  TypeOK /\ LagInv /\ AlertInv /\ HeardInv /\ [Next]_vars => AlertInv' /\ HeardInv'
<1> SUFFICES ASSUME TypeOK, LagInv, AlertInv, HeardInv, [Next]_vars
             PROVE  AlertInv' /\ HeardInv'
  OBVIOUS
<1>t. check \in [Checks -> CheckType]
  BY DEF TypeOK, CheckType
<1>1. ASSUME UNCHANGED <<now, claims, check, delivered, lapses>> PROVE AlertInv' /\ HeardInv'
  BY <1>1, QuietStep, QuietHeard DEF Sending
<1>2. CASE \/ \E m \in Messages, t \in Ticks : Fails(m, t)
           \/ \E e \in RawEvents : Captures(e)
           \/ \E x \in Errors : CallFails(x) \/ Incr(x) \/ Expire(x)
           \/ UNCHANGED vars
  BY <1>1, <1>2 DEF Fails, Captures, CallFails, Incr, Expire, vars
<1>l. ASSUME NEW k, Lapse(k) PROVE HeardInv'
  BY <1>l DEF Lapse, HeardInv, TypeOK
<1>3. ASSUME NEW x \in Errors, IncFails(x) PROVE AlertInv' /\ HeardInv'
  <2>1. UNCHANGED <<now, claims, check, delivered>> /\ Lapse("count")
    BY <1>3 DEF IncFails
  <2> QED BY <1>l, <2>1, QuietStep DEF Sending
<1>4. ASSUME NEW c \in Checks, CheckFails(c) PROVE AlertInv' /\ HeardInv'
  <2>1. UNCHANGED <<now, claims, delivered>> /\ Lapse("check")
    BY <1>4 DEF CheckFails
  <2>2. check' = [check EXCEPT ![c] = Idle(check[c].at)]
    BY <1>4 DEF CheckFails
  <2>3. \A x \in Checks : Sending(x)' => Sending(x) /\ check'[x] = check[x]
    BY <1>t, <2>2 DEF Sending, Idle
  <2> QED BY <1>l, <2>1, <2>3, QuietStep
<1>5. ASSUME NEW c \in Checks, StartCheck(c) PROVE AlertInv' /\ HeardInv'
  <2>1. UNCHANGED <<now, claims, delivered, lapses>> /\ ~Sending(c)
    BY <1>5 DEF StartCheck, Sending
  <2>2. check' = [check EXCEPT ![c] = [Idle(now) EXCEPT !.pc = "read", !.left = Queries]]
    BY <1>5 DEF StartCheck
  <2>3. check'[c].pc = "read" /\ \A x \in Checks \ {c} : check'[x] = check[x]
    BY <1>t, <2>2 DEF Idle
  <2>4. \A x \in Checks : Sending(x) \/ Sending(x)' => x # c
    BY <2>1, <2>3 DEF Sending
  <2> QED BY <2>1, <2>3, <2>4, QuietStep, QuietHeard DEF Sending
<1>6. ASSUME NEW c \in Checks, NEW q \in Queries, Read(c, q) PROVE AlertInv' /\ HeardInv'
  <2>1. UNCHANGED <<now, claims, delivered, lapses>> /\ ~Sending(c)
    BY <1>6 DEF Read, Sending
  <2>2. ~Sending(c)' /\ \A x \in Checks \ {c} : check'[x] = check[x]
    BY <1>6, <1>t, ReadStep DEF Sending
  <2>3. \A x \in Checks : Sending(x) \/ Sending(x)' => x # c
    BY <2>1, <2>2
  <2> QED BY <2>1, <2>2, <2>3, QuietStep, QuietHeard DEF Sending
<1> QED
  BY <1>2, <1>3, <1>4, <1>5, <1>6, ClaimKeeps, SendKeeps, TickKeeps DEF Next

MonitorInv == TypeOK /\ LagInv /\ AlertInv /\ HeardInv

LEMMA MonitorInvariant == Spec => []MonitorInv
<1>1. Init => MonitorInv
  BY TypeInit, AlertInit DEF Init, Idle, LagInv, MonitorInv
<1>2. MonitorInv /\ [Next]_vars => MonitorInv'
  BY TypeStep, LagStep, AlertStep DEF MonitorInv
<1> QED BY <1>1, <1>2, PTL DEF Spec

(* The monitor keeps its types for every configuration: what it counts are *)
(* numbers, and no counter key outlives two windows.                       *)
THEOREM MonitorTypeCorrect == Spec => []TypeOK
<1>1. MonitorInv => TypeOK
  BY DEF MonitorInv
<1> QED BY <1>1, MonitorInvariant, PTL

(* With any number of workers, channels, rows and failures, and whatever a *)
(* cooldown is, alertIfDue never tells a channel the same problems twice   *)
(* within it (less the time a check takes).                                *)
THEOREM AlertsSpaced == Spec => []AlertSpaced
<1>1. MonitorInv => AlertSpaced
  BY DEF MonitorInv, AlertInv
<1> QED BY <1>1, MonitorInvariant, PTL

(* And as long as nothing failed, a check that found problems never ends   *)
(* in silence: each channel was told of them, or is being told.            *)
THEOREM ProblemsHeard == Spec => ProblemHeard
<1>1. MonitorInv /\ [Next]_vars => [lapses' = 0 => \A c \in Checks : EndHeard(c)]_vars
  <2> SUFFICES ASSUME MonitorInv, Next, lapses' = 0, NEW c \in Checks,
                      check[c].pc \in {"claim", "send"}, check'[c].pc = "idle",
                      NEW ch \in Channels
               PROVE  Heard(Problems(check[c].got), ch)
    BY Zenon DEF EndHeard
  <2>t. check \in [Checks -> CheckType] /\ now \in Int /\ \A k \in claims : k.until \in Int
    BY ConfigType DEF MonitorInv, TypeOK, CheckType, Ticks
  <2>i. AlertInv' /\ HeardInv' /\ MonitorInv'
    BY TypeStep, LagStep, AlertStep DEF MonitorInv
  <2>d. \A d \in delivered' : d.at \in Int
    BY <2>i, ConfigType DEF MonitorInv, TypeOK, Ticks
  \* It is enough that a slot of the problems is still there after the step.
  <2>1. ASSUME now' = now, \E k \in claims : k \in claims' /\ k.problems = Problems(check[c].got)
        PROVE  Heard(Problems(check[c].got), ch)
    <3>1. PICK k \in claims : k \in claims' /\ k.problems = Problems(check[c].got)
      BY <2>1
    <3>2. now < k.until
      BY <3>1 DEF MonitorInv, AlertInv, SlotInv
    <3>3. CASE \E d \in delivered' : /\ d.problems = k.problems /\ d.channel = ch
                                     /\ k.until <= d.at + Cooldown
      BY <2>t, <2>d, <3>1, <3>2, <3>3, ConfigType DEF Heard
    <3>4. CASE \E x \in Checks : Sending(x)' /\ ch \in check'[x].to /\ Telling(x)' = k.problems
      BY <3>1, <3>4 DEF Heard, Sending, Telling
    <3> QED BY <2>i, <3>1, <3>3, <3>4 DEF HeardInv
  <2>2. CASE ClaimAlert(c)
    <3>1. Claimed(Problems(check[c].got)) \/ Channels = {}
      BY <2>2, <2>t, ClaimStep
    <3>2. now' = now /\ claims \subseteq claims'
      BY <2>2 DEF ClaimAlert
    <3> QED BY <2>1, <3>1, <3>2 DEF Claimed, Fingerprint
  <2>3. CASE \E h \in Channels : SendAlert(c, h)
    <3>1. now' = now /\ claims' = claims /\ Sending(c)
      BY <2>3 DEF SendAlert, Sending
    <3>2. \E k \in claims : k.problems = Problems(check[c].got)
      BY <3>1 DEF MonitorInv, AlertInv, SlotInv, Telling
    <3> QED BY <2>1, <3>1, <3>2
  \* No other step of a run without failures ends the check.
  <2>4. CASE check'[c] = check[c]
    BY <2>4
  <2>5. CASE StartCheck(c) \/ \E q \in Queries : Read(c, q)
    BY <2>5 DEF StartCheck, Read
  <2>6. ASSUME NEW k, Lapse(k) PROVE FALSE
    BY <2>6 DEF Lapse, MonitorInv, TypeOK
  <2>7. CASE CheckFails(c)
    BY <2>6, <2>7 DEF CheckFails
  <2>8. ASSUME NEW x \in Checks \ {c},
               \/ StartCheck(x) \/ ClaimAlert(x) \/ CheckFails(x)
               \/ \E q \in Queries : Read(x, q)
               \/ \E h \in Channels : SendAlert(x, h)
        PROVE  check'[c] = check[c]
    BY <2>8, <2>t, ReadStep, ClaimStep, SendStep DEF StartCheck, CheckFails
  <2>9. CASE \/ Tick
             \/ \E m \in Messages, t \in Ticks : Fails(m, t)
             \/ \E e \in RawEvents : Captures(e)
             \/ \E x \in Errors : CallFails(x) \/ Incr(x) \/ Expire(x) \/ IncFails(x)
    BY <2>4, <2>9 DEF Tick, Fails, Captures, CallFails, Incr, Expire, IncFails
  <2>10. CASE \E x \in Checks :
               \/ StartCheck(x) \/ ClaimAlert(x) \/ CheckFails(x)
               \/ \E q \in Queries : Read(x, q)
               \/ \E h \in Channels : SendAlert(x, h)
    <3>1. PICK x \in Checks :
            \/ StartCheck(x) \/ ClaimAlert(x) \/ CheckFails(x)
            \/ \E q \in Queries : Read(x, q)
            \/ \E h \in Channels : SendAlert(x, h)
      BY <2>10
    <3>2. CASE x = c
      BY <2>2, <2>3, <2>5, <2>7, <3>1, <3>2
    <3>3. CASE x # c
      BY <2>4, <2>8, <3>1, <3>3
    <3> QED BY <3>2, <3>3
  <2> QED
    BY <2>9, <2>10, Zenon DEF Next
<1> QED BY <1>1, MonitorInvariant, PTL DEF Spec, ProblemHeard

-----------------------------------------------------------------------------
(* The counter's keys.                                                     *)

LEMMA KeysStep == TypeOK /\ KeysExpire /\ [Next]_vars => KeysExpire'
<1> SUFFICES ASSUME TypeOK, KeysExpire, [Next]_vars PROVE KeysExpire'
  OBVIOUS
<1>t. /\ error \in [Errors -> [pc : {"none", "incr", "expire", "done", "lost"}, at : Ticks]]
      /\ count \in [Buckets -> Nat] /\ now \in Nat
      /\ \A x \in Errors : Bucket(error[x].at) \in Buckets
  BY BucketType, ConfigType DEF TypeOK, Ticks
<1> DEFINE Due(b) == \E x \in Errors : error[x].pc = "expire" /\ Bucket(error[x].at) = b
<1>1. CASE Tick
  <2> DEFINE due == {b \in Buckets : expires[b] # Never /\ expires[b] <= now + 1}
  <2>0. /\ count' = [b \in Buckets |-> IF b \in due THEN 0 ELSE count[b]]
        /\ expires' = [b \in Buckets |-> IF b \in due THEN Never ELSE expires[b]]
    BY <1>1, Zenon DEF Tick
  <2>1. \A b \in Buckets : count'[b] > 0 => count'[b] = count[b] /\ expires'[b] = expires[b]
    <3> HIDE DEF due
    <3> QED BY <2>0
  <2> QED BY <1>1, <2>1 DEF Tick, KeysExpire, EveryKeyExpires
<1>2. ASSUME NEW x \in Errors, CallFails(x) PROVE KeysExpire'
  <2>1. \A b \in Buckets : Due(b) => Due(b)'
    BY <1>2, <1>t DEF CallFails
  <2> QED BY <1>2, <2>1 DEF CallFails, KeysExpire, EveryKeyExpires
<1>3. ASSUME NEW x \in Errors, Incr(x) PROVE KeysExpire'
  <2> DEFINE b0 == Bucket(error[x].at)
  <2>1. /\ error' = [error EXCEPT ![x].pc = "expire"]
        /\ count' = [count EXCEPT ![b0] = count[b0] + 1]
        /\ UNCHANGED <<expires, lapses>>
    BY <1>3 DEF Incr, AfterIncr
  <2>2. Due(b0)'
    BY <1>t, <2>1
  <2>3. \A b \in Buckets : Due(b) => Due(b)'
    BY <1>t, <2>1
  <2> QED BY <1>t, <2>1, <2>2, <2>3 DEF KeysExpire, EveryKeyExpires
<1>4. ASSUME NEW x \in Errors, Expire(x) PROVE KeysExpire'
  <2> DEFINE b0 == Bucket(error[x].at)
  <2>1. /\ error' = [error EXCEPT ![x].pc = "done"]
        /\ expires' = [expires EXCEPT ![b0] = IF count[b0] > 0 THEN now + Ttl ELSE expires[b0]]
        /\ UNCHANGED <<count, lapses>>
    BY <1>4 DEF Expire
  <2>2. count[b0] > 0 => expires'[b0] # Never
    <3>1. now + Ttl > 0
      BY <1>t, ConfigType DEF Ttl
    <3> QED BY <1>t, <2>1, <3>1 DEF TypeOK, Never
  <2>3. \A b \in Buckets \ {b0} : Due(b) => Due(b)'
    BY <1>t, <2>1
  <2>4. \A b \in Buckets \ {b0} : expires'[b] = expires[b]
    BY <2>1 DEF TypeOK
  <2> QED BY <2>1, <2>2, <2>3, <2>4 DEF KeysExpire, EveryKeyExpires
<1>l. ASSUME NEW k, Lapse(k) PROVE KeysExpire'
  BY <1>l DEF Lapse, KeysExpire, TypeOK
<1>5. ASSUME NEW x \in Errors, IncFails(x) PROVE KeysExpire'
  BY <1>5, <1>l DEF IncFails
<1>6. ASSUME NEW c \in Checks, CheckFails(c) PROVE KeysExpire'
  BY <1>6, <1>l DEF CheckFails
<1>7. ASSUME UNCHANGED counterVars, lapses' = lapses PROVE KeysExpire'
  BY <1>7 DEF counterVars, KeysExpire, EveryKeyExpires
<1>8. ASSUME NEW c \in Checks, NEW ch \in Channels, SendAlert(c, ch) PROVE KeysExpire'
  <2>1. UNCHANGED counterVars /\ (lapses' = lapses \/ Lapse("send"))
    BY <1>8, Zenon DEF SendAlert
  <2> QED BY <1>7, <1>l, <2>1
<1>9. CASE \/ \E m \in Messages, t \in Ticks : Fails(m, t)
           \/ \E e \in RawEvents : Captures(e)
           \/ \E c \in Checks :
                StartCheck(c) \/ ClaimAlert(c) \/ \E q \in Queries : Read(c, q)
           \/ UNCHANGED vars
  <2>1. UNCHANGED counterVars /\ lapses' = lapses
    BY <1>9, Zenon DEF Fails, Captures, StartCheck, ClaimAlert, Read, vars, counterVars
  <2> QED BY <1>7, <2>1
<1> QED
  BY <1>1, <1>2, <1>3, <1>4, <1>5, <1>6, <1>8, <1>9, Zenon DEF Next

(* RedisCounter leaves no key in Redis for good, for any number of failed  *)
(* calls counted at once, as long as no increment is cut short.            *)
THEOREM NoKeyStays == Spec => []KeysExpire
<1>1. Init => KeysExpire
  BY DEF Init, KeysExpire, EveryKeyExpires
<1>2. MonitorInv => TypeOK
  BY DEF MonitorInv
<1> QED BY <1>1, <1>2, KeysStep, MonitorInvariant, PTL DEF Spec

-----------------------------------------------------------------------------
(* What the counter covers.                                                *)

(* A bucket ends two windows after it begins, and its errors fall in the   *)
(* first of them.                                                          *)
LEMMA EndsBounds ==
  ASSUME NEW t \in Ticks
  PROVE  /\ Ends(Bucket(t)) \in Int /\ t \in Int
         /\ Ends(Bucket(t)) <= t + 2 * Window
         /\ t + Window < Ends(Bucket(t))
<1>1. t \in Nat /\ Window \in Nat \ {0}
  BY ConfigType DEF Ticks
<1>2. PICK b \in Int : b = t \div Window
  BY <1>1, SMT
<1>3. b * Window <= t /\ t < b * Window + Window
  BY ONLY <1>1, <1>2, SMT
<1>4. (b + 2) * Window = b * Window + 2 * Window
  BY <1>1, <1>2, SMT
<1>5. PICK m \in Int : m = b * Window
  BY <1>1, <1>2, SMT
<1>6. Ends(Bucket(t)) = m + 2 * Window
  BY <1>2, <1>4, <1>5 DEF Ends, Bucket
<1> QED BY <1>1, <1>3, <1>5, <1>6

(* A later time falls in no earlier bucket.                                *)
LEMMA BucketOrder ==
  ASSUME NEW s \in Ticks, NEW t \in Ticks
  PROVE  /\ s <= t => Bucket(s) <= Bucket(t)
         /\ t - Window <= s => Bucket(t) - 1 <= Bucket(s)
         /\ s + 2 * Window <= t => Bucket(s) < Bucket(t) - 1
<1>1. s \in Nat /\ t \in Nat /\ Window \in Nat \ {0}
  BY ConfigType DEF Ticks
<1>2. PICK a \in Int, b \in Int : a = s \div Window /\ b = t \div Window
  BY <1>1, SMT
<1>3. a * Window <= s /\ s < a * Window + Window /\ b * Window <= t /\ t < b * Window + Window
  BY ONLY <1>1, <1>2, SMT
<1>4. s <= t => a <= b
  BY ONLY <1>1, <1>2, <1>3, SMT
<1>5. t - Window <= s => b - 1 <= a
  <2> SUFFICES ASSUME ~(b - 1 <= a) PROVE ~(t - Window <= s)
    OBVIOUS
  <2>1. a + 2 <= b
    BY <1>2
  <2>2. (a + 2) * Window <= b * Window
    BY ONLY <1>1, <1>2, <2>1, SMT
  <2>3. (a + 2) * Window = a * Window + 2 * Window
    BY ONLY <1>1, <1>2, SMT
  <2>4. a * Window \in Int /\ b * Window \in Int
    BY ONLY <1>1, <1>2, SMT
  <2> QED BY <1>1, <1>3, <2>2, <2>3, <2>4
<1>6. s + 2 * Window <= t => a < b - 1
  <2> SUFFICES ASSUME ~(a < b - 1) PROVE ~(s + 2 * Window <= t)
    OBVIOUS
  <2>1. b <= a + 1
    BY <1>2
  <2>2. b * Window <= (a + 1) * Window
    BY ONLY <1>1, <1>2, <2>1, SMT
  <2>3. (a + 1) * Window = a * Window + Window
    BY ONLY <1>1, <1>2, SMT
  <2>4. a * Window \in Int /\ b * Window \in Int
    BY ONLY <1>1, <1>2, SMT
  <2> QED BY <1>1, <1>3, <2>2, <2>3, <2>4
<1> QED BY <1>2, <1>4, <1>5, <1>6 DEF Bucket

LEMMA HeldSize ==
  ASSUME NEW b
  PROVE  IsFiniteSet(Held(b)) /\ Cardinality(Held(b)) \in Nat
<1>1. Held(b) \subseteq Errors /\ IsFiniteSet(Errors)
  BY MonitorAssumption DEF Held, MonitorAssumption
<1> QED BY <1>1, FS_Subset, FS_CardinalityType

LEMMA EndsType == \A b \in Buckets : Ends(b) \in Int /\ b \in Int
<1>1. Window \in Int /\ Bucket(0) \in Int /\ Bucket(MaxNow) \in Int
  BY ConfigType, SMT DEF Bucket
<1>2. Buckets \subseteq Int
  BY <1>1 DEF Buckets
<1> QED BY <1>1, <1>2, SMT DEF Ends

ErrorType == [pc : {"none", "incr", "expire", "done", "lost"}, at : Ticks]

LEMMA CounterStep == TypeOK /\ CounterInv /\ [Next]_vars => CounterInv'
<1> SUFFICES ASSUME TypeOK, CounterInv, [Next]_vars PROVE CounterInv'
  OBVIOUS
<1>t. /\ error \in [Errors -> ErrorType] /\ count \in [Buckets -> Nat] /\ now \in Int
      /\ \A b \in Buckets : expires[b] \in Int /\ Ends(b) \in Int /\ Cardinality(Held(b)) \in Nat
      /\ \A x \in Errors : error[x].at \in Int /\ Bucket(error[x].at) \in Buckets
  BY BucketType, EndsType, HeldSize, ConfigType DEF TypeOK, ErrorType, Ticks, Never
<1>1. CASE Tick
  <2> DEFINE due == {b \in Buckets : expires[b] # Never /\ expires[b] <= now + 1}
  <2>0. /\ count' = [b \in Buckets |-> IF b \in due THEN 0 ELSE count[b]]
        /\ expires' = [b \in Buckets |-> IF b \in due THEN Never ELSE expires[b]]
        /\ now' = now + 1 /\ error' = error
    BY <1>1, Zenon DEF Tick
  <2>1. \A b : Held(b)' = Held(b)
    BY <2>0 DEF Held, Uncounted
  <2>2. ASSUME NEW b \in Buckets
        PROVE  /\ count'[b] <= Cardinality(Held(b))
               /\ now' < Ends(b) => count'[b] = Cardinality(Held(b))
               /\ expires'[b] # Never => Ends(b) <= expires'[b]
    <3>0. /\ count[b] <= Cardinality(Held(b))
          /\ now < Ends(b) => count[b] = Cardinality(Held(b))
          /\ expires[b] # Never => Ends(b) <= expires[b]
      BY DEF CounterInv
    <3>1. CASE b \in due
      <4>1. count'[b] = 0 /\ expires'[b] = Never
        BY <2>0, <3>1
      <4>2. expires[b] # Never /\ expires[b] <= now + 1
        BY <3>1
      <4> QED BY <1>t, <2>0, <3>0, <4>1, <4>2
    <3>2. CASE b \notin due
      <4>1. count'[b] = count[b] /\ expires'[b] = expires[b]
        BY <2>0, <3>2
      <4> QED BY <1>t, <2>0, <3>0, <4>1
    <3> QED BY <3>1, <3>2
  <2>3. (\A x \in Errors : error[x].at <= now)'
    BY <1>t, <2>0 DEF CounterInv
  <2> QED BY <2>1, <2>2, <2>3 DEF CounterInv, Ends
<1>2. ASSUME UNCHANGED <<now, count, expires>>, \A x \in Errors : error'[x].at <= now,
             \A b \in Buckets : Held(b)' = Held(b)
      PROVE  CounterInv'
  BY <1>2 DEF CounterInv, Ends
<1>3. ASSUME NEW x \in Errors, CallFails(x) PROVE CounterInv'
  <2>1. error' = [error EXCEPT ![x] = [pc |-> "incr", at |-> now]] /\ error[x].pc = "none"
        /\ UNCHANGED <<now, count, expires>>
    BY <1>3 DEF CallFails
  <2>2. \A y \in Errors : error'[y] = IF y = x THEN [pc |-> "incr", at |-> now] ELSE error[y]
    BY <1>t, <2>1
  <2>3. \A b \in Buckets : Held(b)' = Held(b)
    BY <2>1, <2>2 DEF Held, Uncounted
  <2> QED BY <1>t, <1>2, <2>1, <2>2, <2>3 DEF CounterInv
<1>4. ASSUME NEW x \in Errors, Incr(x) PROVE CounterInv'
  <2>0. PICK c \in Buckets : c = Bucket(error[x].at)
    BY <1>t
  <2>1. /\ error' = [error EXCEPT ![x].pc = "expire"] /\ error[x].pc = "incr"
        /\ count' = [count EXCEPT ![c] = count[c] + 1] /\ UNCHANGED <<now, expires>>
    BY <1>4, <2>0 DEF Incr, AfterIncr
  <2>2. \A y \in Errors : error'[y].at = error[y].at
                          /\ error'[y].pc = IF y = x THEN "expire" ELSE error[y].pc
    BY <1>t, <2>1 DEF ErrorType
  <2>3. Held(c)' = Held(c) \cup {x} /\ x \notin Held(c)
    BY <2>0, <2>1, <2>2 DEF Held, Uncounted
  <2>4. \A b \in Buckets \ {c} : Held(b)' = Held(b)
    BY <2>0, <2>1, <2>2 DEF Held, Uncounted
  <2>5. Cardinality(Held(c) \cup {x}) = Cardinality(Held(c)) + 1
    BY <2>3, HeldSize, FS_AddElement
  <2>7. ASSUME NEW b \in Buckets
        PROVE  (/\ count[b] <= Cardinality(Held(b))
                /\ now < Ends(b) => count[b] = Cardinality(Held(b))
                /\ expires[b] # Never => Ends(b) <= expires[b])'
    <3>1. CASE b = c
      <4>1. count'[b] = count[b] + 1
        BY <1>t, <2>1, <3>1
      <4>2. Cardinality(Held(b))' = Cardinality(Held(b)) + 1
        BY <2>3, <2>5, <3>1
      <4> QED BY <1>t, <2>1, <4>1, <4>2 DEF CounterInv, Ends
    <3>2. CASE b # c
      BY <1>t, <2>1, <2>4, <3>2 DEF CounterInv, Ends
    <3> QED BY <3>1, <3>2
  <2>8. (\A y \in Errors : error[y].at <= now)'
    BY <2>1, <2>2 DEF CounterInv
  <2> QED BY <2>7, <2>8 DEF CounterInv
<1>5. ASSUME NEW x \in Errors, Expire(x) PROVE CounterInv'
  <2> DEFINE c == Bucket(error[x].at)
  <2>1. /\ error' = [error EXCEPT ![x].pc = "done"] /\ error[x].pc = "expire"
        /\ expires' = [expires EXCEPT ![c] = IF count[c] > 0 THEN now + Ttl ELSE expires[c]]
        /\ UNCHANGED <<now, count>>
    BY <1>5 DEF Expire
  <2>2. \A y \in Errors : error'[y].at = error[y].at
                          /\ error'[y].pc = IF y = x THEN "done" ELSE error[y].pc
    BY <1>t, <2>1 DEF ErrorType
  <2>3. \A b \in Buckets : Held(b)' = Held(b)
    BY <2>1, <2>2 DEF Held, Uncounted
  <2>4. Ends(c) <= now + Ttl
    <3>1. error[x].at \in Ticks
      BY <1>t DEF ErrorType
    <3>2. Ends(c) <= error[x].at + 2 * Window /\ Ends(c) \in Int
      BY <3>1, EndsBounds
    <3>3. error[x].at <= now /\ Window \in Int
      BY ConfigType DEF CounterInv
    <3> QED BY <1>t, <3>2, <3>3 DEF Ttl
  <2>5. \A b \in Buckets : expires'[b] # Never => Ends(b) <= expires'[b]
    <3> HIDE DEF c
    <3>1. \A b \in Buckets : expires'[b] = expires[b] \/ (b = c /\ expires'[b] = now + Ttl)
      BY <2>1 DEF TypeOK
    <3> QED BY <2>4, <3>1 DEF CounterInv
  <2> QED BY <2>1, <2>2, <2>3, <2>5 DEF CounterInv, Ends
<1>6. ASSUME NEW x \in Errors, IncFails(x) PROVE CounterInv'
  <2>1. /\ error' = [error EXCEPT ![x].pc = IF error[x].pc = "incr" THEN "lost" ELSE "done"]
        /\ error[x].pc \in {"incr", "expire"} /\ UNCHANGED <<now, count, expires>>
    BY <1>6 DEF IncFails
  <2>2. \A y \in Errors :
          /\ error'[y].at = error[y].at
          /\ error'[y].pc = IF y # x THEN error[y].pc
                            ELSE IF error[x].pc = "incr" THEN "lost" ELSE "done"
    BY <1>t, <2>1 DEF ErrorType
  <2>3. \A b \in Buckets : Held(b)' = Held(b)
    BY <2>1, <2>2 DEF Held, Uncounted
  <2> QED BY <1>2, <2>1, <2>2, <2>3 DEF CounterInv
<1>7. ASSUME now' = now, UNCHANGED counterVars PROVE CounterInv'
  BY <1>7 DEF counterVars, CounterInv, Ends, Held, Uncounted
<1>8. CASE \/ \E m \in Messages, t \in Ticks : Fails(m, t)
           \/ \E e \in RawEvents : Captures(e)
           \/ \E c \in Checks :
                \/ StartCheck(c) \/ ClaimAlert(c) \/ CheckFails(c)
                \/ \E q \in Queries : Read(c, q)
                \/ \E ch \in Channels : SendAlert(c, ch)
           \/ UNCHANGED vars
  <2>1. UNCHANGED counterVars /\ now' = now
    BY <1>8, Zenon
    DEF Fails, Captures, StartCheck, ClaimAlert, CheckFails, Read, SendAlert, vars, counterVars
  <2> QED BY <1>7, <2>1
<1> QED
  BY <1>1, <1>3, <1>4, <1>5, <1>6, <1>8, Zenon DEF Next

(* Whatever a check reads the counter late, it sees every error counted in *)
(* the last window and no error that is two windows old (RedisCounter.read *)
(* over two buckets), for every window, lag and number of failed calls.    *)
THEOREM CounterIsCovering == Spec => CounterCovers
<1>1. Init => CounterInv
  <2> SUFFICES ASSUME Init PROVE CounterInv
    OBVIOUS
  <2>1. \A b : Held(b) = {}
    BY DEF Init, Held, Uncounted
  <2>2. Cardinality({}) = 0
    BY FS_EmptySet
  <2>3. Window \in Int
    BY ConfigType
  <2> QED BY <2>1, <2>2, <2>3 DEF Init, CounterInv
<1>2. MonitorInv => TypeOK
  BY DEF MonitorInv
<1>3. ASSUME MonitorInv, CounterInv, NEW c \in Checks,
             NEW q \in Queries, "aiErrors" \in q, Read(c, q)
      PROVE  LET n == Counted("aiErrors", check[c].at) IN
         /\ n >= Cardinality({x \in Errors :
                   /\ ~Uncounted(x)
                   /\ now - Window <= error[x].at /\ error[x].at <= check[c].at})
         /\ n <= Cardinality({x \in Errors : check[c].at - 2 * Window < error[x].at})
  <2> DEFINE t == check[c].at
             lo == Bucket(t) - 1
             hi == Bucket(t)
             Seen == {x \in Errors : /\ ~Uncounted(x)
                                     /\ now - Window <= error[x].at /\ error[x].at <= t}
             Late == {x \in Errors : t - 2 * Window < error[x].at}
  <2>1. t \in Ticks /\ t <= now /\ now \in Int /\ t \in Int
    BY <1>3, ConfigType DEF MonitorInv, LagInv, TypeOK, Read, Ticks
  <2>2. \A x \in Errors : error[x].at \in Ticks
    BY <1>3 DEF MonitorInv, TypeOK
  <2>w. Window \in Int /\ IsFiniteSet(Errors) /\ \A x \in Ticks : x \in Int
    BY ConfigType, MonitorAssumption DEF MonitorAssumption, Ticks
  <2> HIDE DEF t
  <2>3. /\ lo \in Buckets /\ hi \in Buckets /\ lo # hi /\ lo \in Int /\ hi \in Int
        /\ Counted("aiErrors", t) = count[lo] + count[hi]
    BY <2>1, BucketType, EndsType DEF Counted, CounterRead
  <2>4. /\ count[lo] \in Nat /\ count[hi] \in Nat
        /\ Cardinality(Held(lo)) \in Nat /\ Cardinality(Held(hi)) \in Nat
        /\ Cardinality(Seen \cap Held(lo)) \in Nat /\ Cardinality(Seen \cap Held(hi)) \in Nat
        /\ IsFiniteSet(Held(lo)) /\ IsFiniteSet(Held(hi))
    <3>1. count[lo] \in Nat /\ count[hi] \in Nat
      BY <1>3, <2>3 DEF MonitorInv, TypeOK
    <3>2. IsFiniteSet(Seen \cap Held(lo)) /\ IsFiniteSet(Seen \cap Held(hi))
      BY HeldSize, FS_Subset
    <3> QED BY <3>1, <3>2, HeldSize, FS_CardinalityType
  <2>5. ASSUME NEW b \in {lo, hi} PROVE Cardinality(Seen \cap Held(b)) <= count[b]
    <3>0. b \in Buckets /\ count[b] \in Nat
      BY <2>3, <2>4
    <3>1. CASE Seen \cap Held(b) = {}
      BY <3>0, <3>1, FS_EmptySet
    <3>2. CASE Seen \cap Held(b) # {}
      <4>1. PICK x \in Errors : now - Window <= error[x].at /\ Bucket(error[x].at) = b
        BY <3>2 DEF Held
      <4>2. error[x].at + Window < Ends(b) /\ Ends(b) \in Int /\ error[x].at \in Int
        BY <2>2, <4>1, EndsBounds
      <4>3. now < Ends(b)
        BY <2>1, <2>w, <4>1, <4>2
      <4>4. count[b] = Cardinality(Held(b))
        BY <1>3, <3>0, <4>3 DEF CounterInv
      <4>5. Cardinality(Seen \cap Held(b)) <= Cardinality(Held(b))
        BY HeldSize, FS_Subset
      <4> QED BY <4>4, <4>5
    <3> QED BY <3>1, <3>2
  <2>6. Seen = (Seen \cap Held(lo)) \cup (Seen \cap Held(hi))
    <3> SUFFICES ASSUME NEW x \in Seen PROVE x \in Held(lo) \cup Held(hi)
      OBVIOUS
    <3>1. error[x].at \in Ticks /\ error[x].at <= t /\ t - Window <= error[x].at
      <4>1. x \in Errors /\ now - Window <= error[x].at /\ error[x].at <= t
        OBVIOUS
      <4>2. error[x].at \in Ticks /\ error[x].at \in Int
        BY <2>2, <2>w, <4>1
      <4> QED BY <2>1, <2>w, <4>1, <4>2
    <3>2. Bucket(error[x].at) <= hi /\ lo <= Bucket(error[x].at) /\ Bucket(error[x].at) \in Int
      BY <2>1, <3>1, BucketOrder, BucketType, EndsType
    <3>3. Bucket(error[x].at) = lo \/ Bucket(error[x].at) = hi
      BY <2>3, <3>2
    <3> QED BY <3>3 DEF Held
  <2>7. (Seen \cap Held(lo)) \cap (Seen \cap Held(hi)) = {} /\ Held(lo) \cap Held(hi) = {}
    BY <2>3 DEF Held
  <2>8. Cardinality(Seen) <= count[lo] + count[hi]
    <3>1. Cardinality(Seen) = Cardinality(Seen \cap Held(lo)) + Cardinality(Seen \cap Held(hi))
      <4>1. IsFiniteSet(Seen \cap Held(lo)) /\ IsFiniteSet(Seen \cap Held(hi))
        BY HeldSize, FS_Subset
      <4> DEFINE A == Seen \cap Held(lo)
                 B == Seen \cap Held(hi)
      <4>2. A \cap B = {} /\ Seen = A \cup B
        BY <2>6, <2>7
      <4> HIDE DEF A, B, Seen
      <4>3. IsFiniteSet(A) /\ IsFiniteSet(B)
        BY <4>1 DEF A, B
      <4>4. Cardinality(A \cup B) = Cardinality(A) + Cardinality(B) - Cardinality(A \cap B)
        BY <4>3, FS_Union
      <4>5. Cardinality(A \cap B) = 0 /\ Cardinality(A) \in Nat /\ Cardinality(B) \in Nat
        BY <4>2, <4>3, FS_EmptySet, FS_CardinalityType
      <4> QED BY <4>2, <4>4, <4>5 DEF A, B
    <3> HIDE DEF Seen, lo, hi
    <3>2. Cardinality(Seen \cap Held(lo)) <= count[lo] /\ Cardinality(Seen \cap Held(hi)) <= count[hi]
      BY <2>5
    <3> QED BY <2>4, <3>1, <3>2
  <2>9. count[lo] + count[hi] <= Cardinality(Late)
    <3>1. count[lo] <= Cardinality(Held(lo)) /\ count[hi] <= Cardinality(Held(hi))
      BY <1>3, <2>3 DEF CounterInv
    <3>2. Held(lo) \cup Held(hi) \subseteq Late
      <4> SUFFICES ASSUME NEW x \in Held(lo) \cup Held(hi) PROVE t - 2 * Window < error[x].at
        BY DEF Held
      <4>1. x \in Errors /\ lo <= Bucket(error[x].at)
        BY <2>3 DEF Held
      <4>2. ~(error[x].at + 2 * Window <= t)
        <5>1. error[x].at \in Ticks
          BY <2>2, <4>1
        <5>2. Bucket(error[x].at) \in Int
          BY <5>1, BucketType, EndsType
        <5>3. error[x].at + 2 * Window <= t => Bucket(error[x].at) < lo
          BY <2>1, <5>1, BucketOrder
        <5> QED BY <2>3, <4>1, <5>2, <5>3
      <4>3. error[x].at \in Int
        BY <2>2, <2>w, <4>1
      <4> QED BY <2>1, <2>w, <4>2, <4>3
    <3>3. IsFiniteSet(Late) /\ IsFiniteSet(Held(lo) \cup Held(hi))
      BY <2>w, <2>4, FS_Subset, FS_Union
    <3>4. Cardinality(Held(lo) \cup Held(hi)) <= Cardinality(Late)
      <4> HIDE DEF Late
      <4> QED BY <3>2, <3>3, FS_Subset
    <3>5. Cardinality(Held(lo) \cup Held(hi)) = Cardinality(Held(lo)) + Cardinality(Held(hi))
      <4> HIDE DEF lo, hi
      <4>1. Cardinality(Held(lo) \cup Held(hi)) =
              Cardinality(Held(lo)) + Cardinality(Held(hi)) - Cardinality(Held(lo) \cap Held(hi))
        BY <2>4, FS_Union
      <4>2. Cardinality(Held(lo) \cap Held(hi)) = 0
        BY <2>7, FS_EmptySet
      <4> QED BY <2>4, <4>1, <4>2
    <3>6. Cardinality(Late) \in Nat
      BY <3>3, FS_CardinalityType
    <3> HIDE DEF lo, hi, Late
    <3> QED BY <2>4, <3>1, <3>4, <3>5, <3>6
  <2>10. Cardinality(Seen) \in Nat
    <3>1. IsFiniteSet(Seen)
      BY <2>w, FS_Subset
    <3> QED BY <3>1, FS_CardinalityType
  <2> HIDE DEF Seen, Late, lo, hi
  <2>11. Counted("aiErrors", t) >= Cardinality(Seen) /\ Counted("aiErrors", t) <= Cardinality(Late)
    BY <2>3, <2>4, <2>8, <2>9, <2>10
  <2> QED BY <2>11 DEF Seen, Late, t
<1>4. MonitorInv /\ CounterInv /\ [Next]_vars =>
      [\A c \in Checks :
         (\E q \in Queries : "aiErrors" \in q /\ Read(c, q)) =>
           LET n == Counted("aiErrors", check[c].at) IN
           /\ n >= Cardinality({x \in Errors :
                     /\ ~Uncounted(x)
                     /\ now - Window <= error[x].at /\ error[x].at <= check[c].at})
           /\ n <= Cardinality({x \in Errors : check[c].at - 2 * Window < error[x].at})]_vars
  BY <1>3
<1> QED
  BY <1>1, <1>2, <1>4, CounterStep, MonitorInvariant, PTL DEF Spec, CounterCovers
=============================================================================
