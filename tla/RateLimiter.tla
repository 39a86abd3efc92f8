----------------------------- MODULE RateLimiter -----------------------------
(***************************************************************************)
(* RateLimiter of the API: one bucket for each client key in the memory of *)
(* the process, a fixed window that a client's first request opens.        *)
(*                                                                         *)
(* Time is counted down: a bucket holds the ticks left until its resetAt,  *)
(* and stays where it is when they are over, until a request of the same   *)
(* client replaces it or a sweep finds it.                                 *)
(***************************************************************************)
EXTENDS Integers, FiniteSets, Sums

CONSTANTS
  Clients,     \* client keys
  Limit,       \* requests a window admits
  Window,      \* ticks of a window
  MaxBuckets   \* more buckets than that are swept (1000 in the code)

ASSUME RateLimiterAssumption ==
  /\ {Limit, Window} \subseteq Nat \ {0}
  /\ MaxBuckets \in Nat

VARIABLES
  bucket,      \* count and remaining ticks; a count of 0 is no bucket
  wait,        \* history: ticks left of the last Retry-After a client got
  admitted     \* history: requests admitted by the ticks gone by since

limiterVars == <<bucket, wait, admitted>>

NoBucket == [count |-> 0, left |-> 0]
NoWait == -1
Spans == 0..(Window - 1)

(* Counts above the limit are told apart by nothing: they stop at the      *)
(* first one over it.                                                      *)
LimiterTypeOK ==
  /\ bucket \in [Clients -> [count : 0..(Limit + 1), left : 0..Window]]
  /\ wait \in [Clients -> NoWait..Window]
  /\ admitted \in [Clients -> [Spans -> Nat]]

LimiterInit ==
  /\ bucket = [c \in Clients |-> NoBucket]
  /\ wait = [c \in Clients |-> NoWait]
  /\ admitted = [c \in Clients |-> [s \in Spans |-> 0]]

Buckets == {c \in Clients : bucket[c].count > 0}
Swept ==
  IF Cardinality(Buckets) <= MaxBuckets THEN bucket
  ELSE [c \in Clients |-> IF bucket[c].left = 0 THEN NoBucket ELSE bucket[c]]

Over(b) == b.left = 0

Opened == [count |-> 1, left |-> Window]
Counted(b) == [b EXCEPT !.count = IF @ <= Limit THEN @ + 1 ELSE @]

(* hit: the bucket of a request and whether it is let through.             *)
HitBucket(c) == IF Over(Swept[c]) THEN Opened ELSE Counted(Swept[c])
Allowed_OffByOne(b) == b.count <= Limit + 1
Allowed(b) == b.count <= Limit

(* Retry-After, rounded up to whole seconds.                               *)
RetryAfter_Floor(b) == b.left - 1        \* mutant: rounded down
RetryAfter(b) == b.left

Hit(c) ==
  LET b == HitBucket(c) IN
  /\ bucket' = [Swept EXCEPT ![c] = b]
  /\ wait' = [wait EXCEPT ![c] = IF Allowed(b) THEN NoWait ELSE RetryAfter(b)]
  /\ admitted' = IF Allowed(b) THEN [admitted EXCEPT ![c][0] = @ + 1] ELSE admitted

Admits(c) == Allowed(HitBucket(c))

Less(n) == IF n > 0 THEN n - 1 ELSE n

LimiterTick ==
  /\ bucket' = [c \in Clients |-> [bucket[c] EXCEPT !.left = Less(@)]]
  /\ wait' = [c \in Clients |-> Less(wait[c])]
  /\ admitted' = [c \in Clients |->
                    [s \in Spans |-> IF s = 0 THEN 0 ELSE admitted[c][s - 1]]]

(* The process starts again with no buckets.                               *)
LimiterRestart ==
  /\ bucket' = [c \in Clients |-> NoBucket]
  /\ wait' = [c \in Clients |-> NoWait]
  /\ admitted' = [c \in Clients |-> [s \in Spans |-> 0]]

-----------------------------------------------------------------------------
(* Windows are fixed, so a client may use up one and then the next: in any *)
(* span as long as a window a process lets through no more than twice the  *)
(* limit, less the request that opened the first of the two.               *)
BurstBound == \A c \in Clients : Total(admitted[c], Spans) <= 2 * Limit - 1

(* What a client got since its window opened is what the bucket counts, up *)
(* to the limit; of the windows before, the request that opened the last   *)
(* one is out of the span.                                                 *)
Age(b) == Window - b.left
Got(f, n) == Total(f, 0..n)
InWindow(b, f) ==
  IF b.left = 0
  THEN f[0] = 0 /\ Got(f, Window - 1) <= Limit - 1
  ELSE /\ Got(f, Age(b)) = IF b.count <= Limit THEN b.count ELSE Limit
       /\ f[Age(b)] > 0
       /\ Got(f, Window - 1) - Got(f, Age(b)) <= Limit - 1
WindowInv == \A c \in Clients : InWindow(bucket[c], admitted[c])

=============================================================================
