---------------------------- MODULE FollowUpProofs ----------------------------
(***************************************************************************)
(* Theorems about FollowUp for every set of conversations and scans, every *)
(* configuration of delays, cap and quiet hours, and every failure budget. *)
(***************************************************************************)
EXTENDS FollowUp, FiniteSetTheorems, TLAPS

(* What the assumption on FollowUpConfig and the bounds gives.             *)
LEMMA ConfigType ==
  /\ {FirstDelay, SecondDelay, MaxAttempts, MaxLag, MaxDeeds, MaxFaults, MaxAge} \subseteq Nat
  /\ Attempts = 1..(MaxAttempts + 1)
BY FollowUpAssumption DEF FollowUpAssumption, MaxAge, Attempts

(* A scan between the decision for an attempt and the end of it.           *)
Holding(s) == scan[s].pc \in {"claim", "send", "record", "fail"}

(* A scan whose counts were read.                                          *)
Counts(s) == scan[s].pc \in {"next", "claim", "send", "record", "fail"}

ClaimOf(s) == claim[scan[s].chat][scan[s].type][scan[s].attempt]

SameAttempt(s, u) ==
  /\ scan[s].chat = scan[u].chat
  /\ scan[s].type = scan[u].type
  /\ scan[s].attempt = scan[u].attempt

(* A scan works on a conversation, on an attempt under the cap that is the *)
(* next one by its counts.                                                 *)
HoldInv ==
  \A s \in Scans : Holding(s) =>
    /\ scan[s].chat \in Chats
    /\ scan[s].attempt \in 1..MaxAttempts
    /\ scan[s].attempt = scan[s].past[scan[s].chat] + 1

(* Counts may be stale, but the attempts they count are there.  They are   *)
(* the first ones, which CountedPrefix derives from the cap.               *)
CountInv ==
  \A s \in Scans : Counts(s) =>
    \A c \in Chats, k \in Attempts :
      k <= scan[s].past[c] => claim[c][scan[s].type][k] # "none"

(* The attempt of a scan about to send is claimed, unsent, and its own.    *)
SendInv ==
  /\ \A s \in Scans : scan[s].pc = "send" =>
       /\ ClaimOf(s) # "none"
       /\ sends[scan[s].chat][scan[s].type][scan[s].attempt] = 0
       /\ \A u \in Scans \ {s} : scan[u].pc = "send" => ~SameAttempt(s, u)
  /\ \A c \in Chats, t \in Types, n \in Attempts :
       sends[c][t][n] # 0 => claim[c][t][n] # "none" /\ sends[c][t][n] = 1

-----------------------------------------------------------------------------
(* Attempts that are closed under predecessors are as many as their last   *)
(* one, so a count of them names each.                                     *)
LEMMA CountedPrefix ==
  ASSUME NEW S \in SUBSET Attempts,
         \A n \in S : \A k \in 1..(n - 1) : k \in S
  PROVE  /\ Cardinality(S) \in Nat
         /\ \A k \in Attempts : k <= Cardinality(S) => k \in S
<1>1. IsFiniteSet(Attempts)
  BY ConfigType, FS_Interval
<1>2. IsFiniteSet(S) /\ Cardinality(S) \in Nat
  BY <1>1, FS_Subset, FS_CardinalityType
<1>3. ASSUME NEW k \in Attempts, k \notin S
      PROVE  Cardinality(S) < k
  <2>1. S \subseteq 1..(k - 1)
    <3>1. SUFFICES ASSUME NEW n \in S PROVE n < k
      BY ConfigType
    <3>2. n # k /\ ~(k \in 1..(n - 1))
      BY <1>3
    <3> QED
      BY <3>2, ConfigType
  <2>2. IsFiniteSet(1..(k - 1)) /\ Cardinality(1..(k - 1)) = k - 1
    <3>1. k \in Int /\ k >= 1
      BY ConfigType
    <3> QED
      BY <3>1, FS_Interval
  <2>3. Cardinality(S) <= k - 1
    BY ZenonT(30), <2>1, <2>2, FS_Subset
  <2> QED
    BY <1>2, <2>3, ConfigType
<1> QED
  BY <1>2, <1>3, ConfigType

-----------------------------------------------------------------------------
(* Type correctness.                                                       *)
ScanRecords ==
  [pc : ScanSteps, type : Types, chat : Chats \cup {NoChat},
   todo : SUBSET Chats, lag : 0..MaxLag, hour : 0..(Day - 1),
   seen : [Chats -> Nat], past : [Chats -> Nat], attempt : Attempts]

(* Likewise for the clock and the null value.                              *)
LEMMA ConfigDay ==
  /\ Day \in Nat \ {0}
  /\ {QuietStart, QuietEnd} \subseteq 0..(Day - 1)
  /\ NoChat \notin Chats
BY FollowUpAssumption DEF FollowUpAssumption

(* A scan that is over has its type.                                       *)
LEMMA IdleType ==
  ASSUME TypeOK
  PROVE  IdleScan \in ScanRecords
BY ConfigType, ConfigDay DEF TypeOK, IdleScan, ScanRecords, ScanSteps, Types

(* The tables are empty, no scan runs.                                     *)
LEMMA InitType == Init => TypeOK
<1> SUFFICES ASSUME Init PROVE TypeOK
  OBVIOUS
<1>1. IdleScan \in ScanRecords
  BY ConfigType, ConfigDay DEF IdleScan, ScanRecords, ScanSteps, Types
<1>2. scan \in [Scans -> ScanRecords]
  BY <1>1 DEF Init
<1>3. 0 \in 0..MaxAge /\ 0 \in 0..MaxDeeds /\ 0 \in 0..MaxFaults
  BY ConfigType
<1> QED
  BY <1>2, <1>3 DEF Init, TypeOK, ScanRecords

(* Customers and payments leave the engine alone.                          *)
LEMMA ShopType ==
  ASSUME TypeOK, NEW c \in Chats, Writes(c) \/ PaymentEvent(c)
  PROVE  TypeOK'
<1>1. deeds' \in 0..MaxDeeds
  BY ConfigType DEF TypeOK, Writes, PaymentEvent, Deed
<1>2. age' \in [Chats -> 0..MaxAge]
  <2>1. age \in [Chats -> 0..MaxAge] /\ 0 \in 0..MaxAge
    BY ConfigType DEF TypeOK
  <2>2. age' = [age EXCEPT ![c] = 0] \/ age' = age
    BY DEF Writes, PaymentEvent
  <2> QED
    BY <2>1, <2>2
<1>3. /\ open' \in [Chats -> BOOLEAN]
      /\ cart' \in [Chats -> BOOLEAN]
      /\ order' \in [Chats -> {"none", "pending", "failed", "paid"}]
  BY DEF TypeOK, Writes, PaymentEvent
<1> QED
  BY <1>1, <1>2, <1>3 DEF TypeOK, Writes, PaymentEvent, Deed

(* The clock wraps; a running scan grows older.                            *)
LEMMA TickType ==
  ASSUME TypeOK, Tick
  PROVE  TypeOK'
<1>1. hour' \in 0..(Day - 1)
  BY ConfigDay DEF TypeOK, Tick
<1>2. age' \in [Chats -> 0..MaxAge]
  BY SMTT(30), ConfigType DEF TypeOK, Tick
<1>3. ASSUME NEW s \in Scans
      PROVE  scan'[s] \in ScanRecords
  <2>1. scan[s] \in ScanRecords
    BY DEF TypeOK, ScanRecords
  <2>2. CASE scan[s].pc = "idle"
    BY <2>1, <2>2 DEF Tick
  <2>3. CASE scan[s].pc # "idle"
    <3>1. scan[s].lag + 1 \in 0..MaxLag
      BY SMTT(30), <2>1, <2>3, ConfigType DEF Tick, ScanRecords
    <3>2. scan'[s] = [scan[s] EXCEPT !.lag = scan[s].lag + 1]
      BY <2>3 DEF Tick
    <3> QED
      BY <2>1, <3>1, <3>2 DEF ScanRecords
  <2> QED
    BY <2>2, <2>3
<1>4. scan' \in [Scans -> ScanRecords]
  BY <1>3 DEF Tick
<1> QED
  BY <1>1, <1>2, <1>4 DEF TypeOK, Tick, ScanRecords

(* What a step of a scan leaves alone: the shop, and the other scans.      *)
ScanStep(s) ==
  \/ StartScan(s) \/ FindCandidates(s) \/ ReadLastInbound(s) \/ ReadAttempts(s)
  \/ (\E c \in Chats : Consider(s, c)) \/ EndPass(s)
  \/ ClaimAttempt(s) \/ SendNudge(s) \/ RecordNudge(s)
  \/ SendFails(s) \/ MarkFailed(s) \/ WorkerDies(s)

(* The steps by who takes them.                                            *)
LEMMA Steps ==
  ASSUME Next
  PROVE  \/ \E c \in Chats : Writes(c) \/ PaymentEvent(c)
         \/ Tick
         \/ \E s \in Scans : ScanStep(s)
BY DEF Next, Proceed, ScanStep

(* What the steps read and choose has its type.                            *)
LEMMA CountType ==
  ASSUME TypeOK, NEW c \in Chats, NEW t \in Types
  PROVE  Cardinality({n \in Attempts : Counted(claim[c][t][n])}) \in Nat
<1>1. IsFiniteSet(Attempts)
  BY ConfigType, FS_Interval
<1> QED
  BY <1>1, FS_Subset, FS_CardinalityType

(* An attempt that is due is under the cap.                                *)
LEMMA DueAttempt ==
  ASSUME NEW n \in Nat, NEW q, Due(n, q)
  PROVE  n + 1 \in 1..MaxAttempts /\ n + 1 \in Attempts
BY ConfigType DEF Due, Capped

(* Every step of a scan leaves a scan.                                     *)
LEMMA ScanRecordStep ==
  ASSUME TypeOK, NEW s \in Scans, ScanStep(s)
  PROVE  scan' \in [Scans -> ScanRecords]
<1> DEFINE q == scan[s]
<1>1. scan \in [Scans -> ScanRecords] /\ q \in ScanRecords
  BY DEF TypeOK, ScanRecords
<1>2. IdleScan \in ScanRecords
  BY IdleType
<1>3. SUFFICES \E x \in ScanRecords : scan' = [scan EXCEPT ![s] = x]
  BY <1>1
<1>4. CASE StartScan(s)
  <2>1. [IdleScan EXCEPT !.pc = "candidates", !.hour = hour] \in ScanRecords
    BY <1>2 DEF TypeOK, ScanRecords, ScanSteps
  <2> QED
    BY <1>4, <2>1 DEF StartScan
<1>5. CASE FindCandidates(s)
  <2>1. Candidates(q.type) \in SUBSET Chats
    BY DEF Candidates
  <2>2. [q EXCEPT !.pc = "ages", !.todo = Candidates(q.type)] \in ScanRecords
    BY <1>1, <2>1 DEF ScanRecords, ScanSteps
  <2> QED
    BY <1>2, <1>5, <2>2 DEF FindCandidates
<1>6. CASE ReadLastInbound(s)
  <2> DEFINE f == [c \in Chats |-> IF age[c] > q.lag THEN age[c] - q.lag ELSE 0]
  <2>1. f \in [Chats -> Nat]
    <3>1. q.lag \in 0..MaxLag /\ MaxLag \in Nat
      BY <1>1, ConfigType DEF ScanRecords
    <3>2. \A c \in Chats : age[c] \in Nat
      BY ConfigType DEF TypeOK
    <3>3. \A a \in Nat, b \in Nat : (IF a > b THEN a - b ELSE 0) \in Nat
      OBVIOUS
    <3>4. q.lag \in Nat
      BY <3>1
    <3> HIDE DEF q
    <3>5. \A c \in Chats : (IF age[c] > q.lag THEN age[c] - q.lag ELSE 0) \in Nat
      BY <3>2, <3>3, <3>4
    <3> QED
      BY <3>5
  <2>2. [q EXCEPT !.pc = "counts", !.seen = f] \in ScanRecords
    BY <1>1, <2>1 DEF ScanRecords, ScanSteps
  <2>3. scan' = [scan EXCEPT ![s] = [q EXCEPT !.pc = "counts", !.seen = f]]
    BY <1>1, <1>6 DEF ReadLastInbound
  <2> QED
    BY <2>2, <2>3
<1>7. CASE ReadAttempts(s)
  <2> DEFINE f == [c \in Chats |->
                     Cardinality({n \in Attempts : Counted(claim[c][q.type][n])})]
  <2>1. f \in [Chats -> Nat]
    BY <1>1, CountType DEF ScanRecords
  <2>2. [q EXCEPT !.pc = "next", !.past = f] \in ScanRecords
    BY <1>1, <2>1 DEF ScanRecords, ScanSteps
  <2>3. scan' = [scan EXCEPT ![s] = [q EXCEPT !.pc = "next", !.past = f]]
    BY <1>1, <1>7 DEF ReadAttempts
  <2> QED
    BY <2>2, <2>3
<1>8. ASSUME NEW c \in Chats, Consider(s, c)
      PROVE  \E x \in ScanRecords : scan' = [scan EXCEPT ![s] = x]
  <2> DEFINE r == [q EXCEPT !.todo = @ \ {c}]
  <2>1. r \in ScanRecords /\ r.past = q.past /\ r.past[c] \in Nat
    BY <1>1 DEF ScanRecords
  <2>2. CASE Due(r.past[c], r.seen[c]) /\ ~IsQuietHour(r.hour)
    <3> DEFINE x == [r EXCEPT !.pc = "claim", !.chat = c, !.attempt = r.past[c] + 1]
    <3>1. r.past[c] + 1 \in Attempts
      BY <2>1, <2>2, DueAttempt
    <3>2. x \in ScanRecords
      BY <2>1, <3>1 DEF ScanRecords, ScanSteps
    <3>3. scan' = [scan EXCEPT ![s] = x]
      BY <1>8, <2>2 DEF Consider
    <3> QED
      BY <3>2, <3>3
  <2>3. CASE ~(Due(r.past[c], r.seen[c]) /\ ~IsQuietHour(r.hour))
    BY <1>8, <2>1, <2>3 DEF Consider
  <2> QED
    BY <2>2, <2>3
<1>9. CASE EndPass(s)
  <2>1. [q EXCEPT !.pc = "candidates", !.type = "PAYMENT"] \in ScanRecords
    BY <1>1 DEF ScanRecords, ScanSteps, Types
  <2>2. AfterPass(q) \in ScanRecords
    BY <1>2, <2>1 DEF AfterPass
  <2> QED
    BY <1>9, <2>2 DEF EndPass
<1>10. CASE ClaimAttempt(s) \/ RecordNudge(s)
  <2>1. /\ [q EXCEPT !.pc = "send"] \in ScanRecords
        /\ [q EXCEPT !.pc = "next", !.chat = NoChat] \in ScanRecords
    BY <1>1 DEF ScanRecords, ScanSteps
  <2>2. \/ scan' = [scan EXCEPT ![s] = [q EXCEPT !.pc = "send"]]
        \/ scan' = [scan EXCEPT ![s] = [q EXCEPT !.pc = "next", !.chat = NoChat]]
    BY <1>1, <1>10 DEF ClaimAttempt, RecordNudge
  <2> QED
    BY <2>1, <2>2
<1>11. CASE SendNudge(s) \/ SendFails(s)
  <2>1. [q EXCEPT !.pc = "record"] \in ScanRecords /\ [q EXCEPT !.pc = "fail"] \in ScanRecords
    BY <1>1 DEF ScanRecords, ScanSteps
  <2>2. \/ scan' = [scan EXCEPT ![s] = [q EXCEPT !.pc = "record"]]
        \/ scan' = [scan EXCEPT ![s] = [q EXCEPT !.pc = "fail"]]
    BY <1>1, <1>11 DEF SendNudge, SendFails
  <2> QED
    BY <2>1, <2>2
<1>12. CASE MarkFailed(s) \/ WorkerDies(s)
  BY <1>2, <1>12 DEF MarkFailed, WorkerDies
<1> QED
  BY <1>4, <1>5, <1>6, <1>7, <1>8, <1>9, <1>10, <1>11, <1>12 DEF ScanStep

-----------------------------------------------------------------------------
(* What a step of a scan does to the rows and to the other scans.          *)
Kinds == {"none", "SENDING", "SENT", "FAILED"}

Claims(c, t, n, v) == claim' = [claim EXCEPT ![c][t][n] = v]

(* A written row is one row, and is there.                                 *)
LEMMA WrittenClaim ==
  ASSUME TypeOK, NEW d \in Chats, NEW u \in Types, NEW m \in Attempts,
         NEW v \in Kinds \ {"none"}, Claims(d, u, m, v)
  PROVE  /\ claim' \in [Chats -> [Types -> [Attempts -> Kinds]]]
         /\ claim'[d][u][m] = v
         /\ \A c \in Chats, t \in Types, n \in Attempts :
              \/ claim'[c][t][n] = claim[c][t][n]
              \/ claim'[c][t][n] # "none" /\ d = c /\ u = t /\ m = n
BY DEF TypeOK, Kinds, Claims

Sends(c, t, n) == sends' = [sends EXCEPT ![c][t][n] = sends[c][t][n] + 1]

(* A nudge is counted once.                                                *)
LEMMA WrittenSend ==
  ASSUME TypeOK, NEW d \in Chats, NEW u \in Types, NEW m \in Attempts, Sends(d, u, m)
  PROVE  /\ sends' \in [Chats -> [Types -> [Attempts -> Nat]]]
         /\ sends'[d][u][m] = sends[d][u][m] + 1
         /\ \A c \in Chats, t \in Types, n \in Attempts :
              sends'[c][t][n] = sends[c][t][n] \/ (d = c /\ u = t /\ m = n)
<1>1. sends[d][u][m] + 1 \in Nat
  BY DEF TypeOK
<1> QED
  BY <1>1 DEF TypeOK, Sends

(* A scan holds an attempt that exists.                                    *)
LEMMA HeldAttempt ==
  ASSUME TypeOK, HoldInv, NEW s \in Scans, Holding(s)
  PROVE  /\ scan[s].chat \in Chats
         /\ scan[s].type \in Types
         /\ scan[s].attempt \in Attempts
         /\ scan[s].attempt <= MaxAttempts
         /\ scan[s].attempt = scan[s].past[scan[s].chat] + 1
         /\ scan[s].past[scan[s].chat] \in Nat
BY SMTT(30), ConfigType DEF TypeOK, HoldInv

(* A claim is written for the attempt a scan holds, and never removed.     *)
LEMMA ClaimsStay ==
  ASSUME TypeOK, HoldInv, NEW s \in Scans, ScanStep(s)
  PROVE  /\ claim' \in [Chats -> [Types -> [Attempts -> Kinds]]]
         /\ \A c \in Chats, t \in Types, n \in Attempts :
              \/ claim'[c][t][n] = claim[c][t][n]
              \/ /\ claim'[c][t][n] # "none"
                 /\ Holding(s) /\ scan[s].chat = c /\ scan[s].type = t /\ scan[s].attempt = n
                 /\ ClaimAttempt(s) \/ scan[s].pc # "claim"
<1>1. CASE claim' = claim
  BY <1>1 DEF TypeOK, Kinds
<1>2. CASE /\ Holding(s)
           /\ ClaimAttempt(s) \/ scan[s].pc # "claim"
           /\ \E v \in Kinds \ {"none"} :
                Claims(scan[s].chat, scan[s].type, scan[s].attempt, v)
  <2> DEFINE d == scan[s].chat
             u == scan[s].type
             m == scan[s].attempt
  <2>1. d \in Chats /\ u \in Types /\ m \in Attempts
    BY <1>2, HeldAttempt
  <2>2. Holding(s) /\ (ClaimAttempt(s) \/ scan[s].pc # "claim")
    BY <1>2
  <2>3. PICK v \in Kinds \ {"none"} : Claims(d, u, m, v)
    BY <1>2
  <2>4. /\ claim' \in [Chats -> [Types -> [Attempts -> Kinds]]]
        /\ \A c \in Chats, t \in Types, n \in Attempts :
             \/ claim'[c][t][n] = claim[c][t][n]
             \/ claim'[c][t][n] # "none" /\ d = c /\ u = t /\ m = n
    <3> HIDE DEF d, u, m
    <3> QED
      BY <2>1, <2>3, WrittenClaim
  <2> QED
    BY ONLY <2>2, <2>4
<1>3. ClaimAttempt(s) => \/ claim' = claim
                        \/ claim' = [claim EXCEPT ![scan[s].chat][scan[s].type][scan[s].attempt] = "SENDING"]
  BY DEF ClaimAttempt
<1>4. CASE ClaimAttempt(s)
  BY <1>1, <1>2, <1>3, <1>4 DEF ClaimAttempt, Holding, Kinds, Claims
<1>5. CASE RecordNudge(s) \/ MarkFailed(s)
  BY <1>2, <1>5 DEF RecordNudge, MarkFailed, Holding, Kinds, Claims
<1>6. CASE ~ClaimAttempt(s) /\ ~RecordNudge(s) /\ ~MarkFailed(s)
  BY <1>1, <1>6 DEF ScanStep, StartScan, FindCandidates, ReadLastInbound, ReadAttempts,
     Consider, EndPass, SendNudge, SendFails, WorkerDies
<1> QED
  BY <1>4, <1>5, <1>6

(* Scans share rows only, no state of theirs.                              *)
LEMMA OtherScans ==
  ASSUME TypeOK, NEW s \in Scans, ScanStep(s), NEW u \in Scans \ {s}
  PROVE  scan'[u] = scan[u]
BY DEF TypeOK, ScanStep, StartScan, FindCandidates, ReadLastInbound, ReadAttempts,
   Consider, EndPass, ClaimAttempt, SendNudge, RecordNudge, SendFails, MarkFailed, WorkerDies

(* The engine reads the shop, and writes rows of its own.                  *)
LEMMA ShopAlone ==
  ASSUME NEW s \in Scans, ScanStep(s)
  PROVE  /\ UNCHANGED shopVars
         /\ SendNudge(s) \/ sends' = sends
         /\ lapses' = lapses \/ (\E k \in Faults : Lapse(k))
BY DEF ScanStep, StartScan, FindCandidates, ReadLastInbound, ReadAttempts, Lapse,
   Consider, EndPass, ClaimAttempt, SendNudge, RecordNudge, SendFails, MarkFailed, WorkerDies

(* Only SendNudge counts nudges.                                           *)
LEMMA SendsType ==
  ASSUME TypeOK, HoldInv, NEW s \in Scans, ScanStep(s)
  PROVE  sends' \in [Chats -> [Types -> [Attempts -> Nat]]]
<1>1. CASE SendNudge(s)
  <2>1. Holding(s) /\ Sends(scan[s].chat, scan[s].type, scan[s].attempt)
    BY <1>1 DEF SendNudge, Holding, Sends
  <2> QED
    BY <2>1, HeldAttempt, WrittenSend
<1>2. CASE sends' = sends
  BY <1>2 DEF TypeOK
<1> QED
  BY <1>1, <1>2, ShopAlone

(* Type correctness of every step of a scan.                               *)
LEMMA ScanType ==
  ASSUME TypeOK, HoldInv, NEW s \in Scans, ScanStep(s)
  PROVE  TypeOK'
<1>1. lapses' \in 0..MaxFaults
  <2>1. lapses \in 0..MaxFaults /\ MaxFaults \in Nat
    BY ConfigType DEF TypeOK
  <2>2. lapses' = lapses \/ (lapses < MaxFaults /\ lapses' = lapses + 1)
    BY ShopAlone DEF Lapse
  <2> QED
    BY <2>1, <2>2
<1>2. claim' \in [Chats -> [Types -> [Attempts -> {"none", "SENDING", "SENT", "FAILED"}]]]
  BY ClaimsStay DEF Kinds
<1>3. scan' \in [Scans -> ScanRecords]
  BY ScanRecordStep
<1>4. sends' \in [Chats -> [Types -> [Attempts -> Nat]]]
  BY SendsType
<1> QED
  BY <1>1, <1>2, <1>3, <1>4, ShopAlone DEF TypeOK, shopVars, ScanRecords

(* The record of a scan after each of its steps.                           *)
LEMMA OwnRecord ==
  ASSUME TypeOK, NEW s \in Scans
  PROVE  /\ StartScan(s) => scan'[s].pc = "candidates"
         /\ FindCandidates(s) => scan'[s].pc \in {"idle", "ages"}
         /\ ReadLastInbound(s) => scan'[s].pc = "counts"
         /\ ReadAttempts(s) => scan'[s].pc = "next"
         /\ EndPass(s) => scan'[s].pc \in {"idle", "candidates"}
         /\ MarkFailed(s) \/ WorkerDies(s) => scan'[s].pc = "idle"
         /\ ClaimAttempt(s) => scan[s].pc = "claim" /\ scan'[s].pc \in {"send", "next"}
         /\ SendNudge(s) => scan[s].pc = "send" /\ scan'[s].pc = "record"
         /\ RecordNudge(s) => scan[s].pc = "record" /\ scan'[s].pc = "next"
         /\ SendFails(s) => scan[s].pc = "send" /\ scan'[s].pc = "fail"
         /\ ClaimAttempt(s) \/ SendNudge(s) \/ RecordNudge(s) \/ SendFails(s)
              => scan'[s].type = scan[s].type /\ scan'[s].past = scan[s].past
         /\ SendNudge(s) \/ SendFails(s) \/ (ClaimAttempt(s) /\ scan'[s].pc = "send")
              => scan'[s].chat = scan[s].chat /\ scan'[s].attempt = scan[s].attempt
<1>1. scan \in [Scans -> ScanRecords] /\ scan[s] \in ScanRecords
  BY DEF TypeOK, ScanRecords
<1>2. IdleScan.pc = "idle"
  BY DEF IdleScan
<1>3. StartScan(s) => scan'[s].pc = "candidates"
  BY <1>1 DEF StartScan, IdleScan
<1>4. FindCandidates(s) => scan'[s].pc \in {"idle", "ages"}
  BY <1>1, <1>2 DEF FindCandidates, ScanRecords
<1>5. ReadLastInbound(s) => scan'[s].pc = "counts"
  BY <1>1 DEF ReadLastInbound, ScanRecords
<1>6. ReadAttempts(s) => scan'[s].pc = "next"
  BY <1>1 DEF ReadAttempts, ScanRecords
<1>7. EndPass(s) => scan'[s].pc \in {"idle", "candidates"}
  BY <1>1, <1>2 DEF EndPass, AfterPass, ScanRecords
<1>8. MarkFailed(s) \/ WorkerDies(s) => scan'[s].pc = "idle"
  BY <1>1, <1>2 DEF MarkFailed, WorkerDies
<1>9. ClaimAttempt(s) =>
        /\ scan[s].pc = "claim"
        /\ \/ scan'[s] = [scan[s] EXCEPT !.pc = "send"]
           \/ scan'[s] = [scan[s] EXCEPT !.pc = "next", !.chat = NoChat]
  BY <1>1 DEF ClaimAttempt
<1>10. SendNudge(s) => scan[s].pc = "send" /\ scan'[s] = [scan[s] EXCEPT !.pc = "record"]
  BY <1>1 DEF SendNudge
<1>11. RecordNudge(s) =>
         scan[s].pc = "record" /\ scan'[s] = [scan[s] EXCEPT !.pc = "next", !.chat = NoChat]
  BY <1>1 DEF RecordNudge
<1>12. SendFails(s) => scan[s].pc = "send" /\ scan'[s] = [scan[s] EXCEPT !.pc = "fail"]
  BY <1>1 DEF SendFails
<1> QED
  BY <1>1, <1>3, <1>4, <1>5, <1>6, <1>7, <1>8, <1>9, <1>10, <1>11, <1>12 DEF ScanRecords

(* What a step does to the scan that takes it.                             *)
LEMMA OwnHold ==
  ASSUME TypeOK, NEW s \in Scans, ScanStep(s), Holding(s)'
  PROVE  \/ /\ Holding(s)
            /\ scan'[s].chat = scan[s].chat /\ scan'[s].type = scan[s].type
            /\ scan'[s].attempt = scan[s].attempt /\ scan'[s].past = scan[s].past
         \/ /\ scan[s].pc = "next" /\ scan'[s].pc = "claim"
            /\ scan'[s].type = scan[s].type /\ scan'[s].past = scan[s].past
            /\ scan'[s].chat \in Chats
            /\ scan'[s].attempt \in 1..MaxAttempts
            /\ scan'[s].attempt = scan[s].past[scan'[s].chat] + 1
<1> DEFINE q == scan[s]
<1>1. scan \in [Scans -> ScanRecords] /\ q \in ScanRecords
  BY DEF TypeOK, ScanRecords
<1>2. ASSUME NEW c \in Chats, Consider(s, c)
      PROVE  /\ q.pc = "next" /\ scan'[s].pc = "claim"
             /\ scan'[s].type = q.type /\ scan'[s].past = q.past
             /\ scan'[s].chat \in Chats
             /\ scan'[s].attempt \in 1..MaxAttempts
             /\ scan'[s].attempt = q.past[scan'[s].chat] + 1
  <2> DEFINE r == [q EXCEPT !.todo = @ \ {c}]
  <2>1. r.past = q.past /\ r.type = q.type /\ r.pc = q.pc /\ q.pc = "next" /\ q.past[c] \in Nat
    BY <1>1, <1>2 DEF ScanRecords, Consider
  <2>2. CASE ~(Due(r.past[c], r.seen[c]) /\ ~IsQuietHour(r.hour))
    <3>1. scan'[s] = r
      BY <1>1, <1>2, <2>2 DEF Consider
    <3> QED
      BY <2>1, <3>1 DEF Holding
  <2>3. CASE Due(r.past[c], r.seen[c]) /\ ~IsQuietHour(r.hour)
    <3>1. scan'[s] = [r EXCEPT !.pc = "claim", !.chat = c, !.attempt = r.past[c] + 1]
      BY <1>1, <1>2, <2>3 DEF Consider
    <3>2. q.past[c] + 1 \in 1..MaxAttempts
      BY <2>1, <2>3, DueAttempt
    <3> QED
      BY <1>1, <2>1, <3>1, <3>2 DEF ScanRecords
  <2> QED
    BY <2>2, <2>3
<1>3. CASE ClaimAttempt(s) \/ SendNudge(s) \/ RecordNudge(s) \/ SendFails(s)
  BY <1>3, OwnRecord DEF Holding
<1>4. CASE \/ StartScan(s) \/ FindCandidates(s) \/ ReadLastInbound(s) \/ ReadAttempts(s)
           \/ EndPass(s) \/ MarkFailed(s) \/ WorkerDies(s)
  BY <1>4, OwnRecord DEF Holding
<1> QED
  BY <1>2, <1>3, <1>4 DEF ScanStep

(* Counts come from ReadAttempts and are kept for the pass.                *)
LEMMA OwnCounts ==
  ASSUME TypeOK, NEW s \in Scans, ScanStep(s), Counts(s)'
  PROVE  \/ ReadAttempts(s)
         \/ Counts(s) /\ scan'[s].type = scan[s].type /\ scan'[s].past = scan[s].past
<1>1. scan \in [Scans -> ScanRecords] /\ scan[s] \in ScanRecords
  BY DEF TypeOK, ScanRecords
<1>2. ASSUME NEW c \in Chats, Consider(s, c)
      PROVE  Counts(s) /\ scan'[s].type = scan[s].type /\ scan'[s].past = scan[s].past
  BY <1>1, <1>2 DEF ScanRecords, Counts, Consider
<1>3. CASE ClaimAttempt(s) \/ SendNudge(s) \/ RecordNudge(s) \/ SendFails(s)
  BY <1>3, OwnRecord DEF Counts
<1>4. CASE \/ StartScan(s) \/ FindCandidates(s) \/ ReadLastInbound(s)
           \/ EndPass(s) \/ MarkFailed(s) \/ WorkerDies(s)
  BY <1>4, OwnRecord DEF Counts
<1> QED
  BY <1>2, <1>3, <1>4 DEF ScanStep

(* Only the insert of a row nobody had leads to a send.                    *)
LEMMA OwnSend ==
  ASSUME TypeOK, NEW s \in Scans, ScanStep(s), scan'[s].pc = "send"
  PROVE  /\ ClaimAttempt(s) /\ ClaimOf(s) = "none" /\ Holding(s)
         /\ claim' = [claim EXCEPT ![scan[s].chat][scan[s].type][scan[s].attempt] = "SENDING"]
         /\ scan'[s].chat = scan[s].chat /\ scan'[s].type = scan[s].type
         /\ scan'[s].attempt = scan[s].attempt
<1>1. scan \in [Scans -> ScanRecords] /\ scan[s] \in ScanRecords
  BY DEF TypeOK, ScanRecords
<1>2. ASSUME NEW c \in Chats, Consider(s, c)
      PROVE  FALSE
  BY <1>1, <1>2 DEF ScanRecords, Consider
<1>3. CASE ClaimAttempt(s)
  <2>1. Claimable(ClaimOf(s))
    BY <1>1, <1>3 DEF ClaimAttempt, ClaimOf, ScanRecords
  <2>2. /\ ClaimOf(s) = "none"
        /\ claim' = [claim EXCEPT ![scan[s].chat][scan[s].type][scan[s].attempt] = "SENDING"]
    BY <1>3, <2>1 DEF ClaimAttempt, Claimable, ClaimOf
  <2> QED
    BY <1>3, <2>2, OwnRecord DEF Holding
<1>4. CASE \/ SendNudge(s) \/ RecordNudge(s) \/ SendFails(s) \/ ReadAttempts(s)
           \/ StartScan(s) \/ FindCandidates(s) \/ ReadLastInbound(s)
           \/ EndPass(s) \/ MarkFailed(s) \/ WorkerDies(s)
  BY <1>4, OwnRecord
<1> QED
  BY <1>2, <1>3, <1>4 DEF ScanStep

-----------------------------------------------------------------------------
(* The inductive invariant, and that every step keeps each part of it.     *)
IInv == TypeOK /\ HoldInv /\ CountInv /\ SendInv /\ CapHolds

(* Nothing is held, claimed or sent at first.                              *)
LEMMA InitIInv == Init => IInv
<1> SUFFICES ASSUME Init PROVE IInv
  OBVIOUS
<1>1. \A s \in Scans : scan[s].pc = "idle"
  BY DEF Init, IdleScan
<1>2. \A c \in Chats, t \in Types, n \in Attempts :
        claim[c][t][n] = "none" /\ sends[c][t][n] = 0
  BY DEF Init
<1>3. HoldInv /\ CountInv
  BY <1>1 DEF HoldInv, CountInv, Holding, Counts
<1>4. SendInv
  BY <1>1, <1>2 DEF SendInv
<1>5. CapHolds
  BY <1>2 DEF CapHolds
<1> QED
  BY <1>3, <1>4, <1>5, InitType DEF IInv

(* Consider chooses the attempt, no later step changes it.                 *)
LEMMA HoldStep ==
  ASSUME IInv, NEW s \in Scans, ScanStep(s)
  PROVE  HoldInv'
<1>1. SUFFICES ASSUME NEW u \in Scans, Holding(u)'
               PROVE  /\ scan'[u].chat \in Chats
                      /\ scan'[u].attempt \in 1..MaxAttempts
                      /\ scan'[u].attempt = scan'[u].past[scan'[u].chat] + 1
  BY DEF HoldInv
<1>2. CASE u = s
  BY <1>1, <1>2, OwnHold DEF IInv, HoldInv
<1>3. CASE u # s
  BY <1>1, <1>3, OtherScans DEF IInv, HoldInv, Holding
<1> QED
  BY <1>2, <1>3

(* A count names the attempts it counted, by the cap and CountedPrefix.    *)
LEMMA CountsNamed ==
  ASSUME TypeOK, CapHolds, NEW s \in Scans, ReadAttempts(s), NEW c \in Chats
  PROVE  /\ scan'[s].type = scan[s].type /\ claim' = claim
         /\ \A k \in Attempts : k <= scan'[s].past[c] => claim[c][scan[s].type][k] # "none"
<1> DEFINE t == scan[s].type
           S == {n \in Attempts : Counted(claim[c][t][n])}
<1>1. t \in Types
  BY DEF TypeOK
<1>2. \A n \in S : \A k \in 1..(n - 1) : k \in S
  <2>1. SUFFICES ASSUME NEW n \in S, NEW k \in 1..(n - 1)
                 PROVE  k \in S
    OBVIOUS
  <2>2. n \in Attempts /\ claim[c][t][n] # "none" /\ k \in Attempts
    BY ConfigType DEF Counted
  <2>3. claim[c][t][k] # "none"
    BY <1>1, <2>2 DEF CapHolds
  <2> QED
    BY <2>2, <2>3 DEF Counted
<1>3. \A k \in Attempts : k <= Cardinality(S) => k \in S
  BY <1>2, CountedPrefix
<1>4. scan'[s].past[c] = Cardinality(S) /\ scan'[s].type = t /\ claim' = claim
  BY DEF TypeOK, ReadAttempts
<1> HIDE DEF S
<1>5. \A k \in S : claim[c][t][k] # "none"
  BY DEF S, Counted
<1> QED
  BY <1>3, <1>4, <1>5

(* Rows are never removed, so stale counts stay true.                      *)
LEMMA CountStep ==
  ASSUME IInv, NEW s \in Scans, ScanStep(s)
  PROVE  CountInv'
<1>1. SUFFICES ASSUME NEW u \in Scans, Counts(u)', NEW c \in Chats, NEW k \in Attempts,
                      k <= scan'[u].past[c]
               PROVE  claim'[c][scan'[u].type][k] # "none"
  BY DEF CountInv
<1>2. scan[u].type \in Types
  BY DEF IInv, TypeOK
<1>3. CASE Counts(u) /\ scan'[u].type = scan[u].type /\ scan'[u].past = scan[u].past
  <2>1. claim[c][scan[u].type][k] # "none"
    BY <1>1, <1>3 DEF IInv, CountInv
  <2> QED
    BY <1>2, <1>3, <2>1, ClaimsStay DEF IInv
<1>4. CASE u = s /\ ReadAttempts(s)
  BY <1>1, <1>4, CountsNamed DEF IInv
<1>5. CASE u # s
  BY <1>1, <1>3, <1>5, OtherScans DEF IInv, Counts
<1> QED
  BY <1>1, <1>3, <1>4, <1>5, OwnCounts DEF IInv

(* The attempt of a new claim follows those its counts name.               *)
LEMMA CapStep ==
  ASSUME IInv, NEW s \in Scans, ScanStep(s)
  PROVE  CapHolds'
<1>1. SUFFICES ASSUME NEW c \in Chats, NEW t \in Types, NEW n \in Attempts,
                      claim'[c][t][n] # "none"
               PROVE  n <= MaxAttempts /\ \A k \in 1..(n - 1) : claim'[c][t][k] # "none"
  BY DEF CapHolds
<1>2. CASE claim[c][t][n] # "none"
  <2>1. n <= MaxAttempts /\ \A k \in 1..(n - 1) : claim[c][t][k] # "none"
    BY <1>2 DEF IInv, CapHolds
  <2>2. \A k \in 1..(n - 1) : k \in Attempts
    BY ConfigType
  <2> QED
    BY SMTT(30), <2>1, <2>2, ClaimsStay DEF IInv
<1>3. CASE claim[c][t][n] = "none"
  <2>1. /\ Holding(s) /\ scan[s].chat = c /\ scan[s].type = t /\ scan[s].attempt = n
        /\ ClaimAttempt(s) \/ scan[s].pc # "claim"
    BY <1>1, <1>3, ClaimsStay DEF IInv
  <2>2. n <= MaxAttempts /\ n = scan[s].past[c] + 1 /\ scan[s].past[c] \in Nat
    BY <2>1, HeldAttempt DEF IInv
  <2>3. Counts(s)
    BY <2>1 DEF Holding, Counts
  <2>4. \A k \in 1..(n - 1) : claim[c][t][k] # "none"
    <3>1. \A k \in 1..(n - 1) : k \in Attempts /\ k <= scan[s].past[c]
      <4>1. MaxAttempts \in Nat /\ Attempts = 1..(MaxAttempts + 1) /\ n \in Attempts
        BY ConfigType
      <4> QED
        BY SMTT(30), <2>2, <4>1
    <3> QED
      BY <2>1, <2>3, <3>1 DEF IInv, CountInv
  <2>5. \A k \in 1..(n - 1) : k \in Attempts
    BY ConfigType
  <2> QED
    BY <2>2, <2>4, <2>5, ClaimsStay DEF IInv
<1> QED
  BY <1>2, <1>3

(* Of two scans about to send, one has claimed after the other, and found  *)
(* another row free.                                                       *)
LEMMA ApartStep ==
  ASSUME IInv, NEW s \in Scans, ScanStep(s),
         NEW u \in Scans \ {s}, scan'[s].pc = "send", scan'[u].pc = "send"
  PROVE  /\ ~(/\ scan'[s].chat = scan'[u].chat
               /\ scan'[s].type = scan'[u].type
               /\ scan'[s].attempt = scan'[u].attempt)
<1>1. scan'[u] = scan[u]
  BY OtherScans DEF IInv
<1>2. ClaimOf(u) # "none"
  BY <1>1 DEF IInv, SendInv
<1>3. /\ ClaimOf(s) = "none"
      /\ scan'[s].chat = scan[s].chat /\ scan'[s].type = scan[s].type
      /\ scan'[s].attempt = scan[s].attempt
  BY OwnSend DEF IInv
<1> QED
  BY <1>1, <1>2, <1>3 DEF ClaimOf

(* What was nudged was claimed, and nudged once.                           *)
LEMMA SentStep ==
  ASSUME IInv, NEW s \in Scans, ScanStep(s),
         NEW c \in Chats, NEW t \in Types, NEW n \in Attempts, sends'[c][t][n] # 0
  PROVE  claim'[c][t][n] # "none" /\ sends'[c][t][n] = 1
<1>1. CASE sends'[c][t][n] = sends[c][t][n]
  <2>1. claim[c][t][n] # "none" /\ sends[c][t][n] = 1
    BY <1>1 DEF IInv, SendInv
  <2> QED
    BY <1>1, <2>1, ClaimsStay DEF IInv
<1>2. CASE sends'[c][t][n] # sends[c][t][n]
  <2>1. SendNudge(s)
    BY <1>2, ShopAlone
  <2>2. /\ scan[s].pc = "send" /\ claim' = claim
        /\ scan[s].chat \in Chats /\ scan[s].type \in Types /\ scan[s].attempt \in Attempts
        /\ Sends(scan[s].chat, scan[s].type, scan[s].attempt)
    BY <2>1, HeldAttempt DEF SendNudge, Holding, IInv, Sends
  <2>3. scan[s].chat = c /\ scan[s].type = t /\ scan[s].attempt = n
           /\ sends'[c][t][n] = sends[c][t][n] + 1
    BY <1>2, <2>2, WrittenSend DEF IInv
  <2>4. claim[c][t][n] # "none" /\ sends[c][t][n] = 0
    BY <2>2, <2>3 DEF IInv, SendInv, ClaimOf
  <2> QED
    BY <2>2, <2>3, <2>4
<1> QED
  BY <1>1, <1>2

(* The attempt of a scan about to send stays its own.                      *)
LEMMA SendStep ==
  ASSUME IInv, NEW s \in Scans, ScanStep(s)
  PROVE  SendInv'
<1>1. ASSUME NEW u \in Scans, scan'[u].pc = "send"
      PROVE  /\ claim'[scan'[u].chat][scan'[u].type][scan'[u].attempt] # "none"
             /\ sends'[scan'[u].chat][scan'[u].type][scan'[u].attempt] = 0
  <2>1. CASE u = s
    <3>1. /\ ClaimAttempt(s) /\ ClaimOf(s) = "none" /\ Holding(s)
          /\ claim' = [claim EXCEPT ![scan[s].chat][scan[s].type][scan[s].attempt] = "SENDING"]
          /\ scan'[s].chat = scan[s].chat /\ scan'[s].type = scan[s].type
          /\ scan'[s].attempt = scan[s].attempt
      BY <1>1, <2>1, OwnSend DEF IInv
    <3>2. scan[s].chat \in Chats /\ scan[s].type \in Types /\ scan[s].attempt \in Attempts
      BY <3>1, HeldAttempt DEF IInv
    <3>3. sends[scan[s].chat][scan[s].type][scan[s].attempt] = 0 /\ sends' = sends
      BY <3>1, <3>2 DEF IInv, SendInv, ClaimOf, ClaimAttempt
    <3>4. claim'[scan[s].chat][scan[s].type][scan[s].attempt] = "SENDING"
      BY <3>1, <3>2 DEF IInv, TypeOK
    <3> QED
      BY <2>1, <3>1, <3>3, <3>4
  <2>2. CASE u # s
    <3>1. scan'[u] = scan[u]
      BY <2>2, OtherScans DEF IInv
    <3>2. scan[u].chat \in Chats /\ scan[u].type \in Types /\ scan[u].attempt \in Attempts
      BY <1>1, <3>1, HeldAttempt DEF IInv, Holding
    <3>3. ClaimOf(u) # "none" /\ sends[scan[u].chat][scan[u].type][scan[u].attempt] = 0
      BY <1>1, <3>1 DEF IInv, SendInv
    <3>4. claim'[scan[u].chat][scan[u].type][scan[u].attempt] # "none"
      BY <3>2, <3>3, ClaimsStay DEF ClaimOf, IInv
    <3>5. sends'[scan[u].chat][scan[u].type][scan[u].attempt]
            = sends[scan[u].chat][scan[u].type][scan[u].attempt]
      <4>1. CASE SendNudge(s)
        <5>1. scan[s].pc = "send" /\ ~SameAttempt(u, s)
          BY <1>1, <2>2, <3>1, <4>1 DEF SendNudge, IInv, SendInv
        <5>3. Sends(scan[s].chat, scan[s].type, scan[s].attempt)
          BY <4>1 DEF SendNudge, Sends
        <5>2. scan[s].chat \in Chats /\ scan[s].type \in Types /\ scan[s].attempt \in Attempts
          BY <5>1, HeldAttempt DEF IInv, Holding
        <5> QED
          BY <3>2, <5>1, <5>2, <5>3, WrittenSend DEF SameAttempt, IInv
      <4>2. CASE sends' = sends
        BY <4>2
      <4> QED
        BY <4>1, <4>2, ShopAlone
    <3> QED
      BY <3>1, <3>3, <3>4, <3>5
  <2> QED
    BY <2>1, <2>2
<1>2. ASSUME NEW u \in Scans, scan'[u].pc = "send", NEW w \in Scans \ {u}, scan'[w].pc = "send"
      PROVE  ~(/\ scan'[u].chat = scan'[w].chat
               /\ scan'[u].type = scan'[w].type
               /\ scan'[u].attempt = scan'[w].attempt)
  <2>1. CASE u = s \/ w = s
    BY <1>2, <2>1, ApartStep
  <2>2. CASE u # s /\ w # s
    <3>1. scan'[u] = scan[u] /\ scan'[w] = scan[w]
      BY <2>2, OtherScans DEF IInv
    <3>2. ~SameAttempt(u, w)
      BY <1>2, <3>1 DEF IInv, SendInv
    <3> QED
      BY <3>1, <3>2 DEF SameAttempt
  <2> QED
    BY <2>1, <2>2
<1> QED
  BY <1>1, <1>2, SentStep DEF SendInv, ClaimOf, SameAttempt

(* What neither claims nor moves a scan keeps the rest of the invariant.   *)
LEMMA AsideStep ==
  ASSUME IInv, TypeOK', UNCHANGED <<claim, sends>>,
         \A s \in Scans : /\ scan'[s].pc = scan[s].pc
                          /\ scan'[s].chat = scan[s].chat
                          /\ scan'[s].type = scan[s].type
                          /\ scan'[s].attempt = scan[s].attempt
                          /\ scan'[s].past = scan[s].past
  PROVE  IInv'
<1>1. HoldInv'
  BY DEF IInv, HoldInv, Holding
<1>2. CountInv'
  BY DEF IInv, CountInv, Counts
<1>3. SendInv'
  BY DEF IInv, SendInv, ClaimOf, SameAttempt
<1>4. CapHolds'
  BY DEF IInv, CapHolds
<1> QED
  BY <1>1, <1>2, <1>3, <1>4 DEF IInv

(* Every step keeps the invariant.                                         *)
LEMMA StepIInv ==
  ASSUME IInv, [Next]_vars
  PROVE  IInv'
<1>1. ASSUME NEW c \in Chats, Writes(c) \/ PaymentEvent(c)
      PROVE  IInv'
  <2>1. TypeOK'
    BY <1>1, ShopType DEF IInv
  <2>2. UNCHANGED <<claim, sends, scan>>
    BY <1>1 DEF Writes, PaymentEvent, Deed
  <2> QED
    BY <2>1, <2>2, AsideStep
<1>2. CASE Tick
  <2>1. TypeOK'
    BY <1>2, TickType DEF IInv
  <2>2. UNCHANGED <<claim, sends>>
    BY <1>2 DEF Tick
  <2>3. ASSUME NEW s \in Scans
        PROVE  /\ scan'[s].pc = scan[s].pc
               /\ scan'[s].chat = scan[s].chat
               /\ scan'[s].type = scan[s].type
               /\ scan'[s].attempt = scan[s].attempt
               /\ scan'[s].past = scan[s].past
    <3>1. scan[s] \in ScanRecords
      BY DEF IInv, TypeOK, ScanRecords
    <3>2. scan'[s] = scan[s] \/ scan'[s] = [scan[s] EXCEPT !.lag = @ + 1]
      BY <1>2 DEF Tick
    <3> QED
      BY <3>1, <3>2 DEF ScanRecords
  <2> QED
    BY <2>1, <2>2, <2>3, AsideStep
<1>3. ASSUME NEW s \in Scans, ScanStep(s)
      PROVE  IInv'
  BY <1>3, ScanType, HoldStep, CountStep, CapStep, SendStep DEF IInv
<1>4. CASE UNCHANGED vars
  <2>1. TypeOK'
    BY <1>4 DEF IInv, TypeOK, vars, shopVars
  <2> QED
    BY <1>4, <2>1, AsideStep DEF vars, shopVars
<1> QED
  BY <1>1, <1>2, <1>3, <1>4, Steps

(* The invariant holds in every reachable state.                           *)
LEMMA Invariant == Spec => []IInv
<1>1. Init => IInv
  BY InitIInv
<1>2. IInv /\ [Next]_vars => IInv'
  BY StepIInv
<1> QED
  BY <1>1, <1>2, PTL DEF Spec

(* Every state a scan, the shop or the clock can reach has its type; in    *)
(* particular a scan never holds an attempt beyond those that exist.       *)
THEOREM FollowUpTypeCorrect == Spec => []TypeOK
<1>1. IInv => TypeOK
  BY DEF IInv
<1> QED
  BY <1>1, Invariant, PTL

(* runScan never claims an attempt over the cap and never skips one, with  *)
(* any number of scans that count from rows the others go on to change.    *)
THEOREM CapRespected == Spec => []CapHolds
<1>1. IInv => CapHolds
  BY DEF IInv
<1> QED
  BY <1>1, Invariant, PTL

(* The unique claim before the send makes every attempt reach its customer *)
(* at most once, whichever scans race for it, die or are started again.    *)
THEOREM NudgedAtMostOnce == Spec => []NudgedOnce
<1>1. IInv => NudgedOnce
  <2>1. SUFFICES ASSUME IInv, NEW c \in Chats, NEW t \in Types, NEW n \in Attempts
                 PROVE  sends[c][t][n] <= 1
    BY DEF NudgedOnce
  <2>2. sends[c][t][n] # 0 => sends[c][t][n] = 1
    BY <2>1 DEF IInv, SendInv
  <2> QED
    BY <2>2
<1> QED
  BY <1>1, Invariant, PTL

-----------------------------------------------------------------------------
(* The clock and the quiet hours.                                          *)

(* Twice round the clock at most.                                          *)
LEMMA Wraps ==
  ASSUME NEW a \in 0..(2 * Day - 1)
  PROVE  a % Day = IF a < Day THEN a ELSE a - Day
<1>1. ASSUME NEW d \in Nat \ {0}, NEW b \in 0..(2 * d - 1)
      PROVE  b % d = IF b < d THEN b ELSE b - d
  <2>1. CASE b \in 0..(d - 1)
    BY <2>1, SMT
  <2>2. CASE b \in d..(2 * d - 1)
    BY <2>2, SMT
  <2> QED
    BY <2>1, <2>2
<1> QED
  BY <1>1, ConfigDay

(* Any number of times round the clock.                                    *)
LEMMA WrapsAround ==
  ASSUME NEW n \in Nat, NEW h \in 0..(Day - 1)
  PROVE  (h + Day * n) % Day = h
<1>1. ASSUME NEW d \in Nat \ {0}, NEW q \in Nat, NEW r \in 0..(d - 1),
             NEW a \in Nat, a = d * q + r
      PROVE  a % d = r
  BY <1>1, SMTT(30)
<1>2. h + Day * n \in Nat /\ h + Day * n = Day * n + h
  BY ConfigDay
<1> QED
  BY <1>1, <1>2, ConfigDay

(* isQuietHour, by cases of the two ends, is the walk round the clock from *)
(* the window's start to its end.                                          *)
LEMMA QuietHoursAre ==
  ASSUME NEW h \in 0..(Day - 1)
  PROVE  IsQuietHour(h) <=> h \in QuietHours
<1> DEFINE w == (QuietEnd + Day - QuietStart) % Day
           From(k) == (QuietStart + k) % Day
<1>1. Day \in Nat \ {0} /\ QuietStart \in 0..(Day - 1) /\ QuietEnd \in 0..(Day - 1)
  BY ConfigDay
<1>2. w = IF QuietEnd < QuietStart THEN QuietEnd + Day - QuietStart ELSE QuietEnd - QuietStart
  <2> DEFINE a == QuietEnd + Day - QuietStart
  <2>1. a \in 0..(2 * Day - 1) /\ a - Day = QuietEnd - QuietStart
        /\ (a < Day <=> QuietEnd < QuietStart)
    BY <1>1
  <2>2. w = a % Day
    OBVIOUS
  <2> HIDE DEF a, w
  <2>3. w = IF a < Day THEN a ELSE a - Day
    BY <2>1, <2>2, Wraps
  <2> QED
    BY <2>1, <2>3 DEF a
<1>3. ASSUME NEW k \in 0..(Day - 1)
      PROVE  From(k) = IF QuietStart + k < Day THEN QuietStart + k ELSE QuietStart + k - Day
  <2> DEFINE a == QuietStart + k
  <2>1. a \in 0..(2 * Day - 1)
    BY <1>1
  <2>2. From(k) = a % Day
    OBVIOUS
  <2> HIDE DEF a, From
  <2>3. From(k) = IF a < Day THEN a ELSE a - Day
    BY <2>1, <2>2, Wraps
  <2> QED
    BY <1>1, <2>3 DEF a
<1>4. h \in QuietHours <=> \E k \in 0..(Day - 1) : k < w /\ h = From(k)
  BY DEF QuietHours
<1>5. /\ QuietStart = QuietEnd => ~IsQuietHour(h)
      /\ QuietStart < QuietEnd => (IsQuietHour(h) <=> h >= QuietStart /\ h < QuietEnd)
      /\ QuietStart > QuietEnd => (IsQuietHour(h) <=> h >= QuietStart \/ h < QuietEnd)
  <2>0. /\ QuietStart = QuietEnd => ~(QuietStart < QuietEnd) /\ ~(QuietStart > QuietEnd)
        /\ QuietStart < QuietEnd => QuietStart # QuietEnd /\ ~(QuietStart > QuietEnd)
        /\ QuietStart > QuietEnd => QuietStart # QuietEnd /\ ~(QuietStart < QuietEnd)
    BY <1>1
  <2>1. ASSUME QuietStart = QuietEnd PROVE ~IsQuietHour(h)
    BY <2>0, <2>1, Zenon DEF IsQuietHour
  <2>2. ASSUME QuietStart < QuietEnd
        PROVE  IsQuietHour(h) <=> h >= QuietStart /\ h < QuietEnd
    BY <2>0, <2>2, Zenon DEF IsQuietHour
  <2>3. ASSUME QuietStart > QuietEnd
        PROVE  IsQuietHour(h) <=> h >= QuietStart \/ h < QuietEnd
    BY <2>0, <2>3, Zenon DEF IsQuietHour
  <2> QED
    BY <2>1, <2>2, <2>3
<1> HIDE DEF w, From
<1>6. ASSUME NEW k \in 0..(Day - 1), k < w, h = From(k)
      PROVE  IsQuietHour(h)
  <2>1. h = IF QuietStart + k < Day THEN QuietStart + k ELSE QuietStart + k - Day
    BY <1>3, <1>6
  <2>2. CASE QuietStart < QuietEnd
    BY <1>1, <1>2, <1>5, <1>6, <2>1, <2>2
  <2>3. CASE QuietStart > QuietEnd
    BY <1>1, <1>2, <1>5, <1>6, <2>1, <2>3
  <2>4. CASE QuietStart = QuietEnd
    BY <1>1, <1>2, <1>6, <2>4
  <2> QED
    BY <1>1, <2>2, <2>3, <2>4
<1>7. ASSUME IsQuietHour(h)
      PROVE  \E k \in 0..(Day - 1) : k < w /\ h = From(k)
  <2>1. CASE h < QuietStart
    <3> DEFINE k == h + Day - QuietStart
    <3>1. k \in 0..(Day - 1) /\ QuietStart + k = h + Day /\ ~(QuietStart + k < Day)
      BY <1>1, <2>1
    <3>2. k < w
      BY <1>1, <1>2, <1>5, <1>7, <2>1
    <3>3. From(k) = h
      <4> HIDE DEF k
      <4>1. From(k) = QuietStart + k - Day
        BY <1>3, <3>1
      <4> QED
        BY <1>1, <3>1, <4>1
    <3> QED
      BY <3>1, <3>2, <3>3
  <2>2. CASE ~(h < QuietStart)
    <3> DEFINE k == h - QuietStart
    <3>1. k \in 0..(Day - 1) /\ QuietStart + k = h /\ QuietStart + k < Day
      BY <1>1, <2>2
    <3>2. k < w
      BY <1>1, <1>2, <1>5, <1>7, <2>2
    <3>3. From(k) = h
      <4> HIDE DEF k
      <4> QED
        BY <1>3, <3>1
    <3> QED
      BY <3>1, <3>2, <3>3
  <2> QED
    BY <2>1, <2>2
<1> QED
  BY <1>4, <1>6, <1>7

(* The hour a scan took for now and the hours it has run make the hour it  *)
(* is, and one that is about to write took an hour that is not quiet.      *)
ClockInv ==
  \A s \in Scans : scan[s].pc # "idle" =>
    \E n \in Nat : scan[s].hour + scan[s].lag = hour + Day * n

WakingInv == \A s \in Scans : scan[s].pc \in {"claim", "send"} => ~IsQuietHour(scan[s].hour)

QuietInv == TypeOK /\ ClockInv /\ WakingInv

(* What a step of a scan makes of the hour it took.                        *)
LEMMA OwnHour ==
  ASSUME TypeOK, NEW s \in Scans, ScanStep(s)
  PROVE  /\ \/ scan'[s].pc = "idle"
            \/ scan[s].pc = "idle" /\ scan'[s].hour = hour /\ scan'[s].lag = 0
            \/ /\ scan[s].pc # "idle"
               /\ scan'[s].hour = scan[s].hour /\ scan'[s].lag = scan[s].lag
         /\ scan'[s].pc \in {"claim", "send"} =>
              \/ scan[s].pc = "claim" /\ scan'[s].hour = scan[s].hour
              \/ ~IsQuietHour(scan'[s].hour)
<1> DEFINE q == scan[s]
<1>1. scan \in [Scans -> ScanRecords] /\ q \in ScanRecords
  BY DEF TypeOK, ScanRecords
<1>2. CASE StartScan(s)
  BY <1>1, <1>2 DEF StartScan, IdleScan
<1>3. CASE FindCandidates(s)
  BY <1>1, <1>3 DEF FindCandidates, IdleScan, ScanRecords
<1>4. CASE ReadLastInbound(s)
  BY <1>1, <1>4 DEF ReadLastInbound, ScanRecords
<1>5. CASE ReadAttempts(s)
  BY <1>1, <1>5 DEF ReadAttempts, ScanRecords
<1>6. ASSUME NEW c \in Chats, Consider(s, c)
      PROVE  /\ q.pc # "idle" /\ scan'[s].hour = q.hour /\ scan'[s].lag = q.lag
             /\ scan'[s].pc \in {"claim", "send"} => ~IsQuietHour(scan'[s].hour)
  <2> DEFINE r == [q EXCEPT !.todo = @ \ {c}]
  <2>1. q.pc = "next" /\ r.pc = "next" /\ r.hour = q.hour /\ r.lag = q.lag
    BY <1>1, <1>6 DEF ScanRecords, Consider
  <2>2. CASE ~(Due(r.past[c], r.seen[c]) /\ ~IsQuietHour(r.hour))
    <3>1. scan'[s] = r
      BY <1>1, <1>6, <2>2 DEF Consider
    <3> QED
      BY <2>1, <3>1
  <2>3. CASE Due(r.past[c], r.seen[c]) /\ ~IsQuietHour(r.hour)
    <3>1. scan'[s] = [r EXCEPT !.pc = "claim", !.chat = c, !.attempt = r.past[c] + 1]
      BY <1>1, <1>6, <2>3 DEF Consider
    <3>2. scan'[s].hour = q.hour /\ scan'[s].lag = q.lag
      BY <1>1, <2>1, <3>1 DEF ScanRecords
    <3> QED
      BY <2>1, <2>3, <3>2
  <2> QED
    BY <2>2, <2>3
<1>7. CASE EndPass(s)
  BY <1>1, <1>7 DEF EndPass, AfterPass, IdleScan, ScanRecords
<1>8. CASE ClaimAttempt(s)
  <2>1. \/ scan'[s] = [q EXCEPT !.pc = "send"]
        \/ scan'[s] = [q EXCEPT !.pc = "next", !.chat = NoChat]
    BY <1>1, <1>8 DEF ClaimAttempt
  <2>2. q.pc = "claim"
    BY <1>8 DEF ClaimAttempt
  <2> QED
    BY <1>1, <2>1, <2>2 DEF ScanRecords
<1>9. CASE SendNudge(s) \/ RecordNudge(s) \/ SendFails(s)
  <2>1. \/ scan'[s] = [q EXCEPT !.pc = "record"] \/ scan'[s] = [q EXCEPT !.pc = "fail"]
        \/ scan'[s] = [q EXCEPT !.pc = "next", !.chat = NoChat]
    BY <1>1, <1>9 DEF SendNudge, RecordNudge, SendFails
  <2>2. q.pc # "idle"
    BY <1>9 DEF SendNudge, RecordNudge, SendFails
  <2> QED
    BY <1>1, <2>1, <2>2 DEF ScanRecords
<1>10. CASE MarkFailed(s) \/ WorkerDies(s)
  BY <1>1, <1>10 DEF MarkFailed, WorkerDies, IdleScan
<1> QED
  BY <1>2, <1>3, <1>4, <1>5, <1>6, <1>7, <1>8, <1>9, <1>10 DEF ScanStep

(* Time passes for the clock and for every scan that runs.                 *)
LEMMA TickClock ==
  ASSUME TypeOK, ClockInv, Tick
  PROVE  ClockInv'
<1> SUFFICES ASSUME NEW s \in Scans, scan'[s].pc # "idle"
             PROVE  \E n \in Nat : scan'[s].hour + scan'[s].lag = hour' + Day * n
  BY DEF ClockInv
<1>1. /\ scan[s] \in ScanRecords /\ hour \in 0..(Day - 1) /\ Day \in Nat \ {0}
      /\ hour' = (hour + 1) % Day
  BY ConfigDay DEF TypeOK, ScanRecords, Tick
<1>2. /\ scan[s].pc # "idle" /\ scan'[s].hour = scan[s].hour
      /\ scan'[s].lag = scan[s].lag + 1
  <2>1. scan'[s] = IF scan[s].pc = "idle" THEN scan[s]
                   ELSE [scan[s] EXCEPT !.lag = scan[s].lag + 1]
    BY DEF Tick
  <2> QED
    BY <1>1, <2>1 DEF ScanRecords
<1>3. scan[s].hour \in Nat /\ scan[s].lag \in Nat
  BY <1>1, ConfigType DEF ScanRecords
<1>4. PICK n \in Nat : scan[s].hour + scan[s].lag = hour + Day * n
  BY <1>2 DEF ClockInv
<1>5. hour' = IF hour + 1 < Day THEN hour + 1 ELSE 0
  <2> DEFINE a == hour + 1
  <2>1. a \in 0..(2 * Day - 1) /\ (a < Day \/ a = Day)
    BY <1>1
  <2>2. hour' = a % Day
    BY <1>1
  <2> HIDE DEF a
  <2>3. hour' = IF a < Day THEN a ELSE a - Day
    BY <2>1, <2>2, Wraps
  <2> QED
    BY <1>1, <2>1, <2>3 DEF a
<1> DEFINE m == Day * n
<1>6. m \in Nat /\ Day * (n + 1) = m + Day
  BY <1>1
<1>7. scan[s].hour + scan[s].lag = hour + m
  BY <1>4
<1>8. \/ scan'[s].hour + scan'[s].lag = hour' + m
      \/ scan'[s].hour + scan'[s].lag = hour' + (m + Day)
  <2> HIDE DEF m
  <2> QED
    BY <1>1, <1>2, <1>3, <1>5, <1>6, <1>7
<1>9. CASE scan'[s].hour + scan'[s].lag = hour' + Day * n
  BY <1>9
<1>10. CASE scan'[s].hour + scan'[s].lag = hour' + Day * (n + 1)
  BY <1>10
<1> QED
  BY <1>6, <1>8, <1>9, <1>10

(* Every step keeps what is known of the hours scans took.                 *)
LEMMA StepQuiet ==
  ASSUME QuietInv, TypeOK', [Next]_vars
  PROVE  QuietInv'
<1>1. CASE UNCHANGED <<hour, scan>>
  BY <1>1 DEF QuietInv, ClockInv, WakingInv
<1>2. CASE Tick
  <2>1. ASSUME NEW s \in Scans
        PROVE  scan'[s].pc = scan[s].pc /\ scan'[s].hour = scan[s].hour
    <3>1. scan[s] \in ScanRecords
      BY DEF QuietInv, TypeOK, ScanRecords
    <3>2. scan'[s] = scan[s] \/ scan'[s] = [scan[s] EXCEPT !.lag = @ + 1]
      BY <1>2 DEF Tick
    <3> QED
      BY <3>1, <3>2 DEF ScanRecords
  <2>2. WakingInv'
    BY <2>1 DEF QuietInv, WakingInv
  <2> QED
    BY <1>2, <2>2, TickClock DEF QuietInv
<1>3. ASSUME NEW s \in Scans, ScanStep(s)
      PROVE  QuietInv'
  <2>1. hour' = hour
    BY <1>3, ShopAlone DEF shopVars
  <2>2. ASSUME NEW u \in Scans \ {s}
        PROVE  scan'[u] = scan[u]
    BY <1>3, <2>2, OtherScans DEF QuietInv
  <2>3. ClockInv'
    <3>1. ASSUME scan'[s].pc # "idle"
          PROVE  \E n \in Nat : scan'[s].hour + scan'[s].lag = hour + Day * n
      <4>1. CASE scan'[s].hour = hour /\ scan'[s].lag = 0
        <5>1. hour + 0 = hour + Day * 0
          BY ConfigDay DEF QuietInv, TypeOK
        <5> QED
          BY <4>1, <5>1
      <4>2. CASE scan[s].pc # "idle" /\ scan'[s].hour = scan[s].hour
                 /\ scan'[s].lag = scan[s].lag
        BY <4>2 DEF QuietInv, ClockInv
      <4> QED
        BY <1>3, <3>1, <4>1, <4>2, OwnHour DEF QuietInv
    <3> QED
      BY <2>1, <2>2, <3>1 DEF QuietInv, ClockInv
  <2>4. WakingInv'
    <3>1. scan'[s].pc \in {"claim", "send"} => ~IsQuietHour(scan'[s].hour)
      BY <1>3, OwnHour DEF QuietInv, WakingInv
    <3> QED
      BY <2>2, <3>1 DEF QuietInv, WakingInv
  <2> QED
    BY <2>3, <2>4 DEF QuietInv
<1>4. ASSUME NEW c \in Chats, Writes(c) \/ PaymentEvent(c)
      PROVE  UNCHANGED <<hour, scan>>
  BY <1>4 DEF Writes, PaymentEvent, Deed
<1>5. CASE UNCHANGED vars
  BY <1>1, <1>5 DEF vars, shopVars
<1> QED
  BY <1>1, <1>2, <1>3, <1>4, <1>5, Steps

(* A nudge goes out at an hour that is at most MaxLag after one that is    *)
(* not quiet.                                                              *)
NudgeAfterWaking ==
  \A c \in Chats, t \in Types : NewNudge(c, t) =>
    \E h \in 0..(Day - 1), k \in 0..MaxLag : h \notin QuietHours /\ hour = (h + k) % Day

LEMMA NudgeHour ==
  ASSUME QuietInv, IInv, [Next]_vars
  PROVE  NudgeAfterWaking
<1> SUFFICES ASSUME NEW c \in Chats, NEW t \in Types, NewNudge(c, t)
             PROVE  \E h \in 0..(Day - 1), k \in 0..MaxLag :
                      h \notin QuietHours /\ hour = (h + k) % Day
  BY DEF NudgeAfterWaking
<1>1. PICK n \in Attempts : sends'[c][t][n] > sends[c][t][n]
  BY DEF NewNudge
<1>2. sends' # sends
  <2>1. sends[c][t][n] \in Nat
    BY DEF IInv, TypeOK
  <2> QED
    BY <1>1, <2>1
<1>3. PICK s \in Scans : SendNudge(s)
  <2>1. Next
    BY <1>2 DEF vars
  <2>2. ~Tick /\ ~(\E d \in Chats : Writes(d) \/ PaymentEvent(d))
    BY <1>2 DEF Tick, Writes, PaymentEvent, Deed
  <2> QED
    BY <1>2, <2>1, <2>2, Steps, ShopAlone
<1>4. /\ scan[s].pc = "send" /\ scan[s] \in ScanRecords
      /\ scan[s].hour \in 0..(Day - 1) /\ scan[s].lag \in 0..MaxLag
  BY <1>3 DEF SendNudge, IInv, TypeOK, ScanRecords
<1>5. scan[s].hour \notin QuietHours
  <2>1. ~IsQuietHour(scan[s].hour)
    BY <1>4 DEF QuietInv, WakingInv
  <2> QED
    BY <1>4, <2>1, QuietHoursAre
<1>6. PICK q \in Nat : scan[s].hour + scan[s].lag = hour + Day * q
  BY <1>4 DEF QuietInv, ClockInv
<1>7. hour = (scan[s].hour + scan[s].lag) % Day
  <2>1. hour \in 0..(Day - 1)
    BY DEF IInv, TypeOK
  <2> QED
    BY <1>6, <2>1, WrapsAround
<1> QED
  BY <1>4, <1>5, <1>7

(* The business is written for at an hour that is not quiet, and no nudge  *)
(* of runScan goes out later than the scan that decided it may run.        *)
THEOREM NudgesFollowWaking == Spec => [][NudgeAfterWaking]_vars
<1>1. Init => QuietInv
  <2>1. Init => TypeOK
    BY InitType
  <2>2. Init => \A s \in Scans : scan[s].pc = "idle"
    BY DEF Init, IdleScan
  <2> QED
    BY <2>1, <2>2 DEF QuietInv, ClockInv, WakingInv
<1>2. QuietInv /\ IInv /\ IInv' /\ [Next]_vars => QuietInv'
  BY StepQuiet DEF IInv
<1>3. QuietInv /\ IInv /\ [Next]_vars => [NudgeAfterWaking]_vars
  BY NudgeHour
<1> QED
  BY <1>1, <1>2, <1>3, Invariant, PTL DEF Spec

(* timing.ts: a scan that is over before the hour is never writes late at  *)
(* night, wherever the window starts and ends.                             *)
THEOREM SilentAtNight ==
  ASSUME MaxLag = 0
  PROVE  Spec => SilentInQuietHours
<1>1. TypeOK /\ [NudgeAfterWaking]_vars
        => [\A c \in Chats, t \in Types : NewNudge(c, t) => hour \notin QuietHours]_vars
  <2> SUFFICES ASSUME TypeOK, NudgeAfterWaking, NEW c \in Chats, NEW t \in Types, NewNudge(c, t)
               PROVE  hour \notin QuietHours
    OBVIOUS
  <2>1. PICK h \in 0..(Day - 1), k \in 0..MaxLag : h \notin QuietHours /\ hour = (h + k) % Day
    BY DEF NudgeAfterWaking
  <2>2. k = 0 /\ h + k = h /\ h \in 0..(2 * Day - 1) /\ h < Day
    BY <2>1, ConfigDay
  <2>3. hour = h
    BY <2>1, <2>2, Wraps
  <2> QED
    BY <2>1, <2>3
<1> QED
  BY <1>1, NudgesFollowWaking, FollowUpTypeCorrect, PTL DEF SilentInQuietHours

=============================================================================
