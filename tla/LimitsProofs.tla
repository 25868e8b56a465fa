---------------------------- MODULE LimitsProofs ----------------------------
(***************************************************************************)
(* Facts about the token buckets of Limits, for any callers, keys, burst   *)
(* and refill rate.                                                        *)
(*                                                                         *)
(* The argument.  What a bucket holds and what it has handed out never     *)
(* exceed a burst and the refill of the time since it was made, and never  *)
(* fall below a burst: a clock reading that is older than the bucket's     *)
(* last changes neither, as Refilled then leaves the bucket alone.         *)
(***************************************************************************)
EXTENDS Limits, TLAPS

\* What is true of one bucket whatever the callers do.
Fair(k) ==
    /\ buckets[k] = NoBucket => spent[k] = 0
    /\ buckets[k] # NoBucket =>
          /\ opened[k] <= buckets[k].last /\ buckets[k].last <= now
          /\ buckets[k].tokens + spent[k] <= Capacity + (buckets[k].last - opened[k])
          /\ buckets[k].tokens + spent[k] >= Capacity

\* No caller has read a time that is still to come.
RateInv ==
    /\ \A c \in Caller : reading[c] # NotCalling => reading[c] <= now
    /\ \A k \in BucketKey : Fair(k)

LEMMA CapacityType == Capacity \in Nat /\ Cost \in Nat \ {0} /\ Cost <= Capacity
<1>1. Burst \in Nat \ {0} /\ Cost \in Nat \ {0}
  BY LimitsAssumption
<1>2. Burst * Cost \in Nat /\ Burst * Cost >= Cost
  BY <1>1
<1> QED
  BY <1>1, <1>2 DEF Capacity

LEMMA BucketFields ==
    ASSUME LimitsTypeOK, NEW k \in BucketKey, buckets[k] # NoBucket
    PROVE  /\ buckets[k].tokens \in 0..Capacity /\ buckets[k].last \in Nat
           /\ buckets[k] \in TokenBucket
<1>1. buckets[k] \in TokenBucket
  BY DEF LimitsTypeOK
<1> QED
  BY <1>1 DEF TokenBucket

LEMMA NoBucketIsNone == NoBucket \notin TokenBucket
<1>1. TokenBucket \subseteq [tokens : Nat, last : Nat]
  BY CapacityType DEF TokenBucket
<1> QED
  BY <1>1, LimitsAssumption

\* The bucket Allow works on is refilled for no more than the time that passed,
\* and loses nothing to a reading that comes late.
LEMMA RefilledIsFair ==
    ASSUME LimitsTypeOK, RateInv, NEW k \in BucketKey, NEW t \in Nat, t <= now,
           NEW b, b = Refilled(Found(k, t), t),
           NEW o, o = (IF buckets[k] = NoBucket THEN t ELSE opened[k])
    PROVE  /\ b \in TokenBucket
           /\ b.tokens \in 0..Capacity /\ b.last \in Nat
           /\ o \in Nat /\ o <= b.last /\ b.last <= now
           /\ b.tokens + spent[k] <= Capacity + (b.last - o)
           /\ b.tokens + spent[k] >= Capacity
<1>0. /\ spent[k] \in Nat /\ opened[k] \in Nat /\ now \in Nat
      /\ Capacity \in Nat
  BY CapacityType DEF LimitsTypeOK
<1>1. CASE buckets[k] = NoBucket
  <2>1. Found(k, t) = [tokens |-> Capacity, last |-> t]
    BY <1>1 DEF Found
  <2>2. b = [tokens |-> Capacity, last |-> t]
    BY <2>1 DEF Refilled
  <2>3. spent[k] = 0
    BY <1>1 DEF RateInv, Fair
  <2>4. o = t
    BY <1>1
  <2>5. b.tokens = Capacity /\ b.last = t /\ b \in TokenBucket
    BY <2>2, <1>0 DEF TokenBucket
  <2> QED
    BY <2>3, <2>4, <2>5, <1>0
<1>2. CASE buckets[k] # NoBucket
  <2>1. Found(k, t) = buckets[k] /\ o = opened[k]
    BY <1>2 DEF Found
  <2>2. /\ buckets[k].tokens \in 0..Capacity /\ buckets[k].last \in Nat
        /\ buckets[k] \in TokenBucket
    BY <1>2, BucketFields
  <2>3. /\ opened[k] <= buckets[k].last /\ buckets[k].last <= now
        /\ buckets[k].tokens + spent[k] <= Capacity + (buckets[k].last - opened[k])
        /\ buckets[k].tokens + spent[k] >= Capacity
    BY <1>2 DEF RateInv, Fair
  <2>4. CASE t <= buckets[k].last
    <3>1. b = buckets[k]
      BY <2>1, <2>4 DEF Refilled
    <3> QED
      BY <3>1, <2>1, <2>2, <2>3, <1>0
  <2>5. CASE ~ t <= buckets[k].last
    <3> DEFINE full == buckets[k].tokens + (t - buckets[k].last)
               tok  == IF full > Capacity THEN Capacity ELSE full
    <3>1. b = [tokens |-> tok, last |-> t]
      BY <2>1, <2>5 DEF Refilled
    <3>2. b.tokens = tok /\ b.last = t
      BY <3>1
    <3>3. tok \in 0..Capacity
      BY <2>2, <2>5, <1>0
    <3>4. b \in TokenBucket
      BY <3>1, <3>3 DEF TokenBucket
    <3>5. /\ tok + spent[k] <= Capacity + (t - opened[k])
          /\ tok + spent[k] >= Capacity
      BY <2>2, <2>3, <2>5, <1>0
    <3>6. opened[k] <= t
      BY <2>2, <2>3, <2>5, <1>0
    <3> QED
      BY <2>1, <3>2, <3>3, <3>4, <3>5, <3>6, <1>0
  <2> QED
    BY <2>4, <2>5
<1> QED
  BY <1>1, <1>2

-----------------------------------------------------------------------------
(* What Allow does *)

\* The caller is answered, its bucket pays for what it is granted, no other
\* bucket changes, and one that is refused had handed out its burst.
LEMMA AllowOutcome ==
    ASSUME LimitsTypeOK, RateInv, NEW c \in Caller, NEW k \in BucketKey,
           NEW granted \in BOOLEAN, Allow(c, k, granted)
    PROVE  /\ LimitsTypeOK' /\ RateInv'
           /\ reading[c] # NotCalling /\ reading'[c] = NotCalling
           /\ \A d \in Caller \ {c} : reading'[d] = reading[d]
           /\ \A j \in BucketKey \ {k} : spent'[j] = spent[j]
           /\ spent'[k] = spent[k] + (IF granted THEN Cost ELSE 0)
           /\ ~ granted => spent[k] + Cost > Capacity
<1> DEFINE t == reading[c]
           b == Refilled(Found(k, t), t)
           o == IF buckets[k] = NoBucket THEN t ELSE opened[k]
           cost == IF granted THEN Cost ELSE 0
           left == [b EXCEPT !.tokens = @ - cost]
<1>1. /\ t # NotCalling /\ (granted <=> b.tokens >= Cost)
      /\ buckets' = [buckets EXCEPT ![k] = left]
      /\ spent' = [spent EXCEPT ![k] = @ + cost]
      /\ opened' = [opened EXCEPT ![k] = o]
      /\ reading' = [reading EXCEPT ![c] = NotCalling]
      /\ now' = now
  BY DEF Allow
<1>2. /\ buckets \in [BucketKey -> TokenBucket \cup {NoBucket}]
      /\ reading \in [Caller -> Nat \cup {NotCalling}]
      /\ opened \in [BucketKey -> Nat] /\ spent \in [BucketKey -> Nat]
      /\ now \in Nat
  BY DEF LimitsTypeOK
<1>3. Capacity \in Nat /\ Cost \in Nat \ {0}
  BY CapacityType
<1>4. t \in Nat /\ t <= now
  BY <1>1, <1>2 DEF RateInv
<1>5. /\ b \in TokenBucket /\ b.tokens \in 0..Capacity /\ b.last \in Nat
      /\ o \in Nat /\ o <= b.last /\ b.last <= now
      /\ b.tokens + spent[k] <= Capacity + (b.last - o)
      /\ b.tokens + spent[k] >= Capacity
  <2> HIDE DEF t
  <2> QED
    BY <1>4, RefilledIsFair
<1> HIDE DEF t, b, o
<1>6. cost \in Nat /\ b.tokens - cost \in 0..Capacity
  BY <1>1, <1>3, <1>5
<1>7. left \in TokenBucket /\ left.tokens = b.tokens - cost /\ left.last = b.last
  <2>1. b \in [tokens : 0..Capacity, last : Nat]
    BY <1>5 DEF TokenBucket
  <2> QED
    BY <2>1, <1>6 DEF TokenBucket
<1>8. /\ buckets'[k] = left /\ opened'[k] = o /\ spent'[k] = spent[k] + cost
      /\ \A j \in BucketKey \ {k} : /\ buckets'[j] = buckets[j]
                                    /\ opened'[j] = opened[j]
                                    /\ spent'[j] = spent[j]
  BY <1>1, <1>2
<1>9. reading'[c] = NotCalling /\ \A d \in Caller \ {c} : reading'[d] = reading[d]
  BY <1>1, <1>2
<1>10. LimitsTypeOK'
  <2>1. buckets' \in [BucketKey -> TokenBucket \cup {NoBucket}]
    <3> HIDE DEF left
    <3> QED
      BY <1>1, <1>2, <1>7
  <2>2. spent' \in [BucketKey -> Nat]
    BY <1>1, <1>2, <1>3
  <2>3. opened' \in [BucketKey -> Nat]
    BY <1>1, <1>2, <1>5
  <2>4. reading' \in [Caller -> Nat \cup {NotCalling}]
    BY <1>1, <1>2
  <2>5. now' \in Nat
    BY <1>1, <1>2
  <2> QED
    BY <2>1, <2>2, <2>3, <2>4, <2>5 DEF LimitsTypeOK
<1>11. RateInv'
  <2>1. ASSUME NEW d \in Caller, reading'[d] # NotCalling PROVE reading'[d] <= now'
    BY <2>1, <1>1, <1>9 DEF RateInv
  <2>2. ASSUME NEW j \in BucketKey PROVE Fair(j)'
    <3>1. CASE j = k
      <4>1. left # NoBucket
        BY <1>7, NoBucketIsNone
      <4>2. spent[k] \in Nat /\ b.tokens \in Nat
        BY <1>2, <1>5
      <4>3. left.tokens + (spent[k] + cost) = b.tokens + spent[k]
        BY <1>3, <1>7, <4>2
      <4> HIDE DEF left, cost
      <4>4. /\ o <= left.last /\ left.last <= now
            /\ left.tokens + (spent[k] + cost) <= Capacity + (left.last - o)
            /\ left.tokens + (spent[k] + cost) >= Capacity
        BY <1>5, <1>7, <4>3
      <4>5. /\ buckets'[j] = left /\ opened'[j] = o /\ spent'[j] = spent[k] + cost
            /\ now' = now
        BY <3>1, <1>1, <1>8
      <4> QED
        BY <4>1, <4>4, <4>5 DEF Fair
    <3>2. CASE j # k
      <4>1. Fair(j)
        BY DEF RateInv
      <4>2. /\ buckets'[j] = buckets[j] /\ opened'[j] = opened[j]
            /\ spent'[j] = spent[j] /\ now' = now
        BY <3>2, <1>1, <1>8
      <4> QED
        BY <4>1, <4>2 DEF Fair
    <3> QED
      BY <3>1, <3>2
  <2> QED
    BY <2>1, <2>2 DEF RateInv
<1>12. ~ granted => spent[k] + Cost > Capacity
  <2>1. spent[k] \in Nat
    BY <1>2
  <2> QED
    BY <2>1, <1>1, <1>3, <1>5
<1> QED
  BY <1>1, <1>8, <1>9, <1>10, <1>11, <1>12 DEF t

\* Reading the clock, and the clock.
LEMMA ReadClockOutcome ==
    ASSUME LimitsTypeOK, RateInv, NEW c \in Caller, ReadClock(c)
    PROVE  /\ LimitsTypeOK' /\ RateInv' /\ spent' = spent
           /\ \A d \in Caller : reading'[d] = NotCalling => reading[d] = NotCalling
<1>1. /\ reading' = [reading EXCEPT ![c] = now]
      /\ now' = now /\ buckets' = buckets /\ opened' = opened /\ spent' = spent
  BY DEF ReadClock
<1>2. now \in Nat /\ reading \in [Caller -> Nat \cup {NotCalling}]
  BY DEF LimitsTypeOK
<1>3. LimitsTypeOK'
  BY <1>1 DEF LimitsTypeOK
<1>4. \A d \in Caller : reading'[d] # NotCalling => reading'[d] <= now'
  BY <1>1, <1>2 DEF RateInv
<1>5. \A k \in BucketKey : Fair(k)'
  BY <1>1 DEF RateInv, Fair
<1>6. now # NotCalling
  BY <1>2 DEF NotCalling
<1> QED
  BY <1>1, <1>2, <1>3, <1>4, <1>5, <1>6 DEF RateInv

LEMMA TickOutcome ==
    ASSUME LimitsTypeOK, RateInv, Tick
    PROVE  LimitsTypeOK' /\ RateInv' /\ spent' = spent /\ reading' = reading
<1>1. /\ now' = now + 1
      /\ reading' = reading /\ buckets' = buckets /\ opened' = opened
      /\ spent' = spent
  BY DEF Tick
<1>2. now \in Nat /\ reading \in [Caller -> Nat \cup {NotCalling}]
  BY DEF LimitsTypeOK
<1>3. LimitsTypeOK'
  BY <1>1 DEF LimitsTypeOK
<1>4. \A d \in Caller : reading'[d] # NotCalling => reading'[d] <= now'
  BY <1>1, <1>2 DEF RateInv, NotCalling
<1>5. ASSUME NEW k \in BucketKey PROVE Fair(k)'
  <2>1. Fair(k)
    BY DEF RateInv
  <2>2. buckets[k] # NoBucket => buckets[k].last \in Nat
    BY BucketFields
  <2> QED
    BY <2>1, <2>2, <1>1, <1>2 DEF Fair
<1> QED
  BY <1>1, <1>3, <1>4, <1>5 DEF RateInv

LEMMA LimitsStutter ==
    ASSUME LimitsTypeOK, RateInv, UNCHANGED limitVars
    PROVE  LimitsTypeOK' /\ RateInv' /\ spent' = spent /\ reading' = reading
  BY DEF LimitsTypeOK, RateInv, Fair, limitVars

LEMMA LimitsStart == LimitsInit => LimitsTypeOK /\ RateInv
  BY DEF LimitsInit, LimitsTypeOK, RateInv, Fair, NotCalling
=============================================================================
