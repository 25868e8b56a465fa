------------------------------- MODULE Limits -------------------------------
(***************************************************************************)
(* The rate limiter (RateLimiter and tokenBucket of                        *)
(* internal/limits/limits.go): one token bucket per key, shared by every   *)
(* goroutine that calls Allow.                                             *)
(*                                                                         *)
(* Granularity.  Allow reads the clock and then takes the lock, two steps: *)
(* while a caller waits for the lock others read a later clock and get     *)
(* there first, so a bucket may be handed a time older than its last.      *)
(*                                                                         *)
(* Tokens are counted in what one tick of the clock refills, and an event  *)
(* costs Cost of these units: the refill of perMinute tokens a minute is   *)
(* the same for every bucket of a limiter, so only its ratio to the cost   *)
(* matters.                                                                *)
(***************************************************************************)
EXTENDS Integers

CONSTANTS
    Caller,       \* goroutines that call Allow
    BucketKey,    \* keys: channel names and "ip:" addresses
    Burst,        \* tokens a full bucket holds
    Cost,         \* units in one token
    NoBucket,     \* a key that is not in the map
    MaxNow        \* bound: the clock

ASSUME LimitsAssumption ==
    /\ Burst \in Nat \ {0}
    /\ Cost \in Nat \ {0}
    /\ MaxNow \in Nat
    /\ NoBucket \notin [tokens : Nat, last : Nat]

VARIABLES
    now,       \* limits.now()
    buckets,   \* RateLimiter.buckets
    reading,   \* per caller: the t of the Allow it is in, or NotCalling
    opened,    \* history: the last a bucket was created with
    spent      \* history: units a bucket has handed out

limitVars == <<now, buckets, reading, opened, spent>>

Capacity == Burst * Cost
NotCalling == -1
TokenBucket == [tokens : 0..Capacity, last : Nat]

LimitsTypeOK ==
    /\ now \in Nat
    /\ buckets \in [BucketKey -> TokenBucket \cup {NoBucket}]
    /\ reading \in [Caller -> Nat \cup {NotCalling}]
    /\ opened \in [BucketKey -> Nat]
    /\ spent \in [BucketKey -> Nat]

LimitsInit ==
    /\ now = 0
    /\ buckets = [k \in BucketKey |-> NoBucket]
    /\ reading = [c \in Caller |-> NotCalling]
    /\ opened = [k \in BucketKey |-> 0]
    /\ spent = [k \in BucketKey |-> 0]

\* t := now(), before the lock.
ReadClock(c) ==
    /\ reading[c] = NotCalling
    /\ reading' = [reading EXCEPT ![c] = now]
    /\ UNCHANGED <<now, buckets, opened, spent>>

\* Seeded fault (RefusedAfterBurst): a new bucket starts empty.
FoundEmpty(k, t) ==
    IF buckets[k] = NoBucket THEN [tokens |-> 0, last |-> t] ELSE buckets[k]

\* The bucket Allow works on: the one of the key, or a new one that is full.
Found(k, t) ==
    IF buckets[k] = NoBucket THEN [tokens |-> Capacity, last |-> t]
                             ELSE buckets[k]

\* Seeded fault (PostedWithinRate): last follows t even when t is older.
RefilledRewinds(b, t) ==
    [tokens |-> IF t <= b.last THEN b.tokens
                ELSE IF b.tokens + (t - b.last) > Capacity THEN Capacity
                ELSE b.tokens + (t - b.last),
     last   |-> t]

\* tokenBucket.allow refills for the time since last, if it has moved on.
Refilled(b, t) ==
    IF t <= b.last THEN b
    ELSE [tokens |-> IF b.tokens + (t - b.last) > Capacity THEN Capacity
                     ELSE b.tokens + (t - b.last),
          last   |-> t]

\* Seeded fault (TypeOK): a refused caller is charged as well.
AllowCharges(c, k, granted) ==
    LET b == Refilled(Found(k, reading[c]), reading[c]) IN
    /\ reading[c] # NotCalling
    /\ granted <=> b.tokens >= Cost
    /\ buckets' = [buckets EXCEPT ![k] = [b EXCEPT !.tokens = @ - Cost]]
    /\ reading' = [reading EXCEPT ![c] = NotCalling]
    /\ UNCHANGED <<now, opened, spent>>

\* The locked part of Allow answers granted: a token is spent if there is one,
\* and the bucket keeps the refill either way.
Allow(c, k, granted) ==
    LET b == Refilled(Found(k, reading[c]), reading[c])
        cost == IF granted THEN Cost ELSE 0
    IN
    /\ reading[c] # NotCalling
    /\ granted <=> b.tokens >= Cost
    /\ buckets' = [buckets EXCEPT ![k] = [b EXCEPT !.tokens = @ - cost]]
    /\ spent' = [spent EXCEPT ![k] = @ + cost]
    /\ opened' = [opened EXCEPT ![k] =
                     IF buckets[k] = NoBucket THEN reading[c] ELSE @]
    /\ reading' = [reading EXCEPT ![c] = NotCalling]
    /\ UNCHANGED now

Tick ==
    /\ now < MaxNow
    /\ now' = now + 1
    /\ UNCHANGED <<buckets, reading, opened, spent>>
=============================================================================
