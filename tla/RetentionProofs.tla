-------------------------- MODULE RetentionProofs --------------------------
(***************************************************************************)
(* Theorems about Retention, for any channels, owners, limits, sizes,      *)
(* quota and number of faults.                                             *)
(*                                                                         *)
(* The argument.  The slack of a counter is what it shows beyond what is   *)
(* stored and what the sweeper has deleted and not yet taken off.  No step *)
(* lowers the slack of any counter, and only a fault raises it             *)
(* (SlackStep).  It starts at zero, so without faults every counter is     *)
(* exact and with them none is too low.  The quota is compared with the    *)
(* account's counter, which is never below what is stored.                 *)
(***************************************************************************)
EXTENDS Retention, FiniteSetTheorems, TLAPS

-----------------------------------------------------------------------------
(* Counting the bytes of a set of messages *)

LEMMA ProductOfOne ==
    ASSUME NEW x, NEW S, IsFiniteSet(S)
    PROVE  IsFiniteSet({x} \X S) /\ Cardinality({x} \X S) = Cardinality(S)
<1>1. IsFiniteSet({x}) /\ Cardinality({x}) = 1
  BY FS_Singleton
<1>2. Cardinality(S) \in Nat
  BY FS_CardinalityType
<1> QED
  BY <1>1, <1>2, FS_Product

\* Two finite sets that have no element in common.
LEMMA DisjointUnion ==
    ASSUME NEW S, NEW T, IsFiniteSet(S), IsFiniteSet(T), S \cap T = {}
    PROVE  /\ IsFiniteSet(S \cup T)
           /\ Cardinality(S \cup T) = Cardinality(S) + Cardinality(T)
           /\ Cardinality(S) \in Nat /\ Cardinality(T) \in Nat
<1>1. Cardinality(S \cap T) = 0
  BY FS_EmptySet
<1>2. Cardinality(S) \in Nat /\ Cardinality(T) \in Nat
  BY FS_CardinalityType
<1>3. /\ IsFiniteSet(S \cup T)
      /\ Cardinality(S \cup T) = Cardinality(S) + Cardinality(T) - Cardinality(S \cap T)
  BY FS_Union
<1> QED
  BY <1>1, <1>2, <1>3

LEMMA MessageFields ==
    /\ \A e \in Message : e.seq \in Nat /\ e.exp \in Nat /\ e.size \in Nat
    /\ NoMessage.size = 0
  BY RetentionAssumption DEF Message, NoMessage

LEMMA UpTo ==
    ASSUME NEW n \in Nat
    PROVE  IsFiniteSet(1 .. n) /\ Cardinality(1 .. n) = n
<1>1. 1 \in Int /\ n \in Int
  OBVIOUS
<1>2. IsFiniteSet(1 .. n) /\ Cardinality(1 .. n) = IF 1 > n THEN 0 ELSE n - 1 + 1
  BY <1>1, FS_Interval, Zenon
<1> QED
  BY <1>2

LEMMA BytesOfOne ==
    ASSUME NEW e \in Message
    PROVE  IsFiniteSet(Bytes({e})) /\ TotalSize({e}) = e.size
<1>1. Bytes({e}) = {e} \X (1 .. e.size)
  BY DEF Bytes
<1>2. e.size \in Nat
  BY MessageFields
<1>3. IsFiniteSet(1 .. e.size) /\ Cardinality(1 .. e.size) = e.size
  BY <1>2, UpTo, Zenon
<1> QED
  BY <1>1, <1>3, ProductOfOne DEF TotalSize

LEMMA BytesFinite ==
    ASSUME NEW S \in SUBSET Message, IsFiniteSet(S)
    PROVE  IsFiniteSet(Bytes(S)) /\ TotalSize(S) \in Nat
<1> DEFINE f == [e \in S |-> {e} \X (1 .. e.size)]
           T == {{e} \X (1 .. e.size) : e \in S}
<1>1. f \in Surjection(S, T)
  BY DEF Surjection
<1>2. IsFiniteSet(T)
  BY <1>1, FS_Surjection
<1>3. \A B \in T : IsFiniteSet(B)
  <2>1. SUFFICES ASSUME NEW e \in S PROVE IsFiniteSet({e} \X (1 .. e.size))
    OBVIOUS
  <2>2. IsFiniteSet(1 .. e.size)
    BY MessageFields, UpTo, Zenon
  <2> QED
    BY <2>2, ProductOfOne
<1>4. IsFiniteSet(UNION T)
  BY <1>2, <1>3, FS_UNION
<1> QED
  BY <1>4, FS_CardinalityType DEF Bytes, TotalSize

LEMMA BytesDisjoint ==
    ASSUME NEW S, NEW T, S \cap T = {}
    PROVE  Bytes(S \cup T) = Bytes(S) \cup Bytes(T) /\ Bytes(S) \cap Bytes(T) = {}
<1>1. Bytes(S \cup T) = Bytes(S) \cup Bytes(T)
  BY DEF Bytes
<1>2. ASSUME NEW b \in Bytes(S), b \in Bytes(T) PROVE FALSE
  <2>1. PICK e \in S : b \in {e} \X (1 .. e.size)
    BY DEF Bytes
  <2>2. PICK d \in T : b \in {d} \X (1 .. d.size)
    BY <1>2 DEF Bytes
  <2> QED
    BY <2>1, <2>2
<1> QED
  BY <1>1, <1>2

LEMMA SizeAdded ==
    ASSUME NEW S \in SUBSET Message, IsFiniteSet(S), NEW e \in Message, e \notin S
    PROVE  /\ S \cup {e} \in SUBSET Message /\ IsFiniteSet(S \cup {e})
           /\ Cardinality(S \cup {e}) = Cardinality(S) + 1
           /\ TotalSize(S \cup {e}) = TotalSize(S) + e.size
<1>1. IsFiniteSet(S \cup {e}) /\ Cardinality(S \cup {e}) = Cardinality(S) + 1
  BY FS_AddElement
<1>2. S \cap {e} = {}
  OBVIOUS
<1>3. Cardinality(Bytes(S) \cup Bytes({e})) = Cardinality(Bytes(S)) + Cardinality(Bytes({e}))
  BY <1>2, BytesFinite, BytesOfOne, BytesDisjoint, DisjointUnion
<1>4. TotalSize(S \cup {e}) = TotalSize(S) + TotalSize({e})
  BY <1>2, <1>3, BytesDisjoint DEF TotalSize
<1> QED
  BY <1>1, <1>4, BytesOfOne

LEMMA SizeTaken ==
    ASSUME NEW S \in SUBSET Message, IsFiniteSet(S), NEW P \in SUBSET S
    PROVE  /\ IsFiniteSet(P) /\ IsFiniteSet(S \ P)
           /\ Cardinality(P) \in Nat /\ TotalSize(P) \in Nat
           /\ Cardinality(S \ P) = Cardinality(S) - Cardinality(P)
           /\ TotalSize(S \ P) = TotalSize(S) - TotalSize(P)
           /\ Cardinality(S \ P) \in Nat /\ TotalSize(S \ P) \in Nat
<1>1. IsFiniteSet(P) /\ IsFiniteSet(S \ P)
  BY FS_Subset, FS_Difference
<1>2. P \cap (S \ P) = {} /\ P \cup (S \ P) = S
  OBVIOUS
<1>3. Cardinality(S) = Cardinality(P) + Cardinality(S \ P)
      /\ Cardinality(P) \in Nat /\ Cardinality(S \ P) \in Nat
  BY <1>1, <1>2, DisjointUnion
<1>4. /\ IsFiniteSet(Bytes(P)) /\ TotalSize(P) \in Nat
      /\ IsFiniteSet(Bytes(S \ P)) /\ TotalSize(S \ P) \in Nat
  BY <1>1, BytesFinite
<1>5. Bytes(S) = Bytes(P) \cup Bytes(S \ P) /\ Bytes(P) \cap Bytes(S \ P) = {}
  BY <1>2, BytesDisjoint
<1>6. TotalSize(S) = TotalSize(P) + TotalSize(S \ P)
  BY <1>4, <1>5, DisjointUnion DEF TotalSize
<1> QED
  BY <1>1, <1>3, <1>4, <1>6

\* The bytes stored in the channels of D, by a function from channels to their
\* messages.
BytesOf(f, D) == UNION {{d} \X Bytes(f[d]) : d \in D}

LEMMA BytesOfFinite ==
    ASSUME NEW f \in [Channel -> SUBSET Message], \A c \in Channel : IsFiniteSet(f[c]),
           NEW D \in SUBSET Channel
    PROVE  IsFiniteSet(BytesOf(f, D)) /\ Cardinality(BytesOf(f, D)) \in Nat
<1> DEFINE g == [d \in D |-> {d} \X Bytes(f[d])]
           T == {{d} \X Bytes(f[d]) : d \in D}
<1>1. g \in Surjection(D, T)
  BY DEF Surjection
<1>2. IsFiniteSet(D)
  BY FS_Subset, RetentionAssumption
<1>3. IsFiniteSet(T)
  BY <1>1, <1>2, FS_Surjection
<1>4. \A B \in T : IsFiniteSet(B)
  <2>1. SUFFICES ASSUME NEW d \in D PROVE IsFiniteSet({d} \X Bytes(f[d]))
    OBVIOUS
  <2>2. IsFiniteSet(Bytes(f[d]))
    BY BytesFinite
  <2> QED
    BY <2>2, ProductOfOne
<1>5. IsFiniteSet(UNION T)
  BY <1>3, <1>4, FS_UNION
<1> QED
  BY <1>5, FS_CardinalityType DEF BytesOf

\* One channel of several counts for its size.
LEMMA BytesOfOneMore ==
    ASSUME NEW f \in [Channel -> SUBSET Message], \A c \in Channel : IsFiniteSet(f[c]),
           NEW D \in SUBSET Channel, NEW c \in D
    PROVE  Cardinality(BytesOf(f, D)) = Cardinality(BytesOf(f, D \ {c})) + TotalSize(f[c])
<1> DEFINE R == BytesOf(f, D \ {c})
           B == {c} \X Bytes(f[c])
<1>1. BytesOf(f, D) = R \cup B
  BY DEF BytesOf
<1>2. R \cap B = {}
  <2>1. ASSUME NEW b \in R, b \in B PROVE FALSE
    <3>1. PICK d \in D \ {c} : b \in {d} \X Bytes(f[d])
      BY DEF BytesOf
    <3> QED
      BY <2>1, <3>1
  <2> QED
    BY <2>1
<1>3. IsFiniteSet(R)
  BY BytesOfFinite
<1>4. IsFiniteSet(B) /\ Cardinality(B) = TotalSize(f[c])
  <2>1. IsFiniteSet(Bytes(f[c]))
    BY BytesFinite
  <2> QED
    BY <2>1, ProductOfOne DEF TotalSize
<1>5. Cardinality(R \cup B) = Cardinality(R) + Cardinality(B)
  BY <1>2, <1>3, <1>4, DisjointUnion
<1> QED
  BY <1>1, <1>4, <1>5

LEMMA StoredIs == \A o : Stored(o) = Cardinality(BytesOf(stream, Owned(o)))
  BY DEF Stored, BytesOf

Finite == \A c \in Channel : IsFiniteSet(stream[c])

\* What an account has stored changes with the channel that changes.
LEMMA StoredChange ==
    ASSUME stream \in [Channel -> SUBSET Message], Finite,
           NEW c \in Channel, NEW X \in SUBSET Message, IsFiniteSet(X),
           stream' = [stream EXCEPT ![c] = X]
    PROVE  \A o \in Account :
              /\ Stored(o) \in Nat /\ Stored(o)' \in Nat
              /\ Stored(o)' = IF owner[c] = o
                                THEN Stored(o) - TotalSize(stream[c]) + TotalSize(X)
                                ELSE Stored(o)
<1> SUFFICES ASSUME NEW o \in Account
             PROVE  /\ Stored(o) \in Nat /\ Stored(o)' \in Nat
                    /\ Stored(o)' = IF owner[c] = o
                                      THEN Stored(o) - TotalSize(stream[c]) + TotalSize(X)
                                      ELSE Stored(o)
  OBVIOUS
<1> DEFINE D == Owned(o)
<1>1. /\ stream' \in [Channel -> SUBSET Message] /\ stream'[c] = X
      /\ \A d \in Channel : IsFiniteSet(stream[d]) /\ IsFiniteSet(stream'[d])
      /\ D \in SUBSET Channel
  BY DEF Finite, Owned
<1>2. Stored(o) = Cardinality(BytesOf(stream, D)) /\ Stored(o)' = Cardinality(BytesOf(stream', D))
  BY DEF Stored, BytesOf, Owned
<1>3. Cardinality(BytesOf(stream, D)) \in Nat /\ Cardinality(BytesOf(stream', D)) \in Nat
  BY <1>1, BytesOfFinite
<1>4. \A E \in SUBSET Channel : c \notin E => BytesOf(stream', E) = BytesOf(stream, E)
  <2>1. SUFFICES ASSUME NEW E \in SUBSET Channel, c \notin E
        PROVE BytesOf(stream', E) = BytesOf(stream, E)
    OBVIOUS
  <2>2. \A d \in E : {d} \X Bytes(stream'[d]) = {d} \X Bytes(stream[d])
    BY <2>1
  <2> QED
    BY <2>2 DEF BytesOf
<1>5. CASE owner[c] = o
  <2>1. c \in D /\ D \ {c} \in SUBSET Channel
    BY <1>5 DEF Owned
  <2>2. Cardinality(BytesOf(stream, D))
          = Cardinality(BytesOf(stream, D \ {c})) + TotalSize(stream[c])
    BY <1>1, <2>1, BytesOfOneMore
  <2>3. Cardinality(BytesOf(stream', D))
          = Cardinality(BytesOf(stream', D \ {c})) + TotalSize(X)
    BY <1>1, <2>1, BytesOfOneMore
  <2>4. Cardinality(BytesOf(stream', D \ {c})) = Cardinality(BytesOf(stream, D \ {c}))
    BY <1>4, <2>1
  <2>5. /\ Cardinality(BytesOf(stream, D \ {c})) \in Nat
        /\ TotalSize(stream[c]) \in Nat /\ TotalSize(X) \in Nat
    BY <1>1, <2>1, BytesOfFinite, BytesFinite
  <2> QED
    BY <1>2, <1>3, <1>5, <2>2, <2>3, <2>4, <2>5
<1>6. CASE owner[c] # o
  BY <1>1, <1>2, <1>3, <1>4, <1>6 DEF Owned
<1> QED
  BY <1>5, <1>6

-----------------------------------------------------------------------------
(* Type correctness *)

LEMMA LimitFields ==
    \A lim \in AnyLimit : lim.ttl \in Nat /\ lim.maxBytes \in Nat /\ lim.maxMsgs \in Nat
<1>1. AnyLimit \subseteq [ttl : Nat, maxBytes : Nat, maxMsgs : Nat]
  BY RetentionAssumption DEF AnyLimit
<1> QED
  BY <1>1

LEMMA CallFields ==
    ASSUME TypeOK, NEW a \in Appender, call[a].busy
    PROVE  call[a].chan \in Channel /\ call[a].lim \in AnyLimit /\ call[a].size \in Size
<1>1. call[a] \in Call \cup {Idle}
  BY DEF TypeOK
<1>2. call[a] # Idle
  BY DEF Idle
<1>3. call[a] \in Call
  BY <1>1, <1>2
<1> QED
  BY <1>3 DEF Call

\* What an accepted append does: it adds one entry that was not there and evicts
\* a run of the oldest, and the counters change by what was added and evicted.
AppendDoes(a, c, e, P) ==
    LET S == stream[c] \cup {e} IN
    /\ call[a].busy /\ c = call[a].chan
    /\ e.seq = nextSeq[c] /\ e.size = call[a].size
    /\ ~ OverQuota(c, e.size)
    /\ Oldest(S, P)
    /\ EvictionStops(call[a].lim, bytes[c] + e.size, msgs[c] + 1, S, P)
    /\ stream' = [stream EXCEPT ![c] = S \ P]
    /\ bytes' = [bytes EXCEPT ![c] = @ + e.size - TotalSize(P)]
    /\ msgs' = [msgs EXCEPT ![c] = @ + 1 - Cardinality(P)]
    /\ AddToAccount(c, e.size - TotalSize(P))
    /\ nextSeq' = [nextSeq EXCEPT ![c] = @ + 1]
    /\ call' = [call EXCEPT ![a] = Idle]
    /\ UNCHANGED <<now, limits, sweepVars, faults>>

LEMMA AppendOutcome ==
    ASSUME TypeOK, NEW a \in Appender, NEW t \in 0..now, AppendStores(a, t)
    PROVE  \E c \in Channel, e \in Message :
              \E P \in SUBSET (stream[c] \cup {e}) :
                 e \notin stream[c] /\ AppendDoes(a, c, e, P)
<1> DEFINE c == call[a].chan
           lim == call[a].lim
           e == [seq |-> nextSeq[c], exp |-> IF lim.ttl > 0 THEN t + lim.ttl ELSE 0,
                 size |-> call[a].size]
           S == stream[c] \cup {e}
<1>1. call[a].busy
  BY DEF AppendStores
<1>2. c \in Channel /\ lim \in AnyLimit /\ call[a].size \in Size
  BY <1>1, CallFields
<1>3. nextSeq[c] \in Nat
  BY <1>2 DEF TypeOK
<1>4. t + lim.ttl \in Nat
  BY <1>2, LimitFields DEF TypeOK
<1>5. e \in Message
  BY <1>2, <1>3, <1>4 DEF Message
<1>6. e.seq = nextSeq[c] /\ e.size = call[a].size
  OBVIOUS
<1>7. e \notin stream[c]
  BY <1>2, <1>3, <1>6 DEF TypeOK
<1>8. PICK P \in SUBSET S :
          /\ Evicted(lim, bytes[c] + e.size, msgs[c] + 1, S, P)
          /\ stream' = [stream EXCEPT ![c] = S \ P]
          /\ bytes' = [bytes EXCEPT ![c] = @ + e.size - TotalSize(P)]
          /\ msgs' = [msgs EXCEPT ![c] = @ + 1 - Cardinality(P)]
          /\ AddToAccount(c, e.size - TotalSize(P))
  BY DEF AppendStores
<1>9. /\ ~ OverQuota(c, e.size)
      /\ nextSeq' = [nextSeq EXCEPT ![c] = @ + 1]
      /\ call' = [call EXCEPT ![a] = Idle]
      /\ UNCHANGED <<now, limits, sweepVars, faults>>
  BY DEF AppendStores, Issue
<1>10. /\ Oldest(S, P)
       /\ EvictionStops(lim, bytes[c] + e.size, msgs[c] + 1, S, P)
  BY <1>8 DEF Evicted
<1> HIDE DEF e
<1>11. AppendDoes(a, c, e, P)
  BY <1>1, <1>6, <1>8, <1>9, <1>10 DEF AppendDoes
<1> QED
  BY <1>2, <1>5, <1>7, <1>11

LEMMA StepCases ==
    ASSUME [Next]_vars
    PROVE  \/ \E a \in Appender, c \in Channel, size \in Size : AppendReads(a, c, size)
           \/ \E a \in Appender, t \in 0..now : AppendStores(a, t)
           \/ \E a \in Appender : AppendRejected(a)
           \/ SweepStart
           \/ \E c \in Channel : SweepChannel(c)
           \/ \E e \in expired : SweepDelete(e)
           \/ SweepBytes
           \/ SweepMsgs
           \/ SweepAcct
           \/ SweepAdvance
           \/ SweepReadFails \/ SweepUpdateFails
           \/ \E e \in expired, executed \in BOOLEAN : SweepDeleteFails(e, executed)
           \/ BrokerCrash
           \/ \E c \in Channel : \E lim \in Limit[c] : SetChannelLimits(c, lim)
           \/ Tick
           \/ UNCHANGED vars
  BY DEF Next, AppendStep, SweepStep, FaultStep

\* The sweeper works on what was past its expiry when it read the clock.
SweepInv ==
    /\ sweepNow <= now
    /\ \A e \in expired : e.exp # 0 /\ e.exp <= sweepNow
    /\ sweep \in {"idle", "chan"} => expired = {}

Inv == TypeOK /\ Finite /\ SweepInv

LEMMA AccountStep ==
    ASSUME acct \in [Account -> Int], NEW c \in Channel, NEW n \in Int, AddToAccount(c, n)
    PROVE  /\ acct' \in [Account -> Int]
           /\ \A o \in Account : acct'[o] = IF owner[c] = o THEN acct[o] + n ELSE acct[o]
<1>1. owner[c] \in Account \cup {NoAccount} /\ NoAccount \notin Account
  BY RetentionAssumption
<1>2. CASE HasOwner(c)
  <2>1. owner[c] \in Account /\ acct' = [acct EXCEPT ![owner[c]] = @ + n]
    BY <1>1, <1>2 DEF AddToAccount, HasOwner
  <2> QED
    BY <2>1
<1>3. CASE ~ HasOwner(c)
  BY <1>1, <1>3 DEF AddToAccount, HasOwner
<1> QED
  BY <1>2, <1>3

\* The clock and the limits, whatever the step.
LEMMA ClockStep ==
    ASSUME Inv, [Next]_vars
    PROVE  /\ now' \in 0..MaxNow /\ now <= now'
           /\ limits' \in [Channel -> AnyLimit]
           /\ \A c \in Channel : limits'[c] \in Limit[c]
           /\ faults' \in 0..MaxFaults
<1>0. /\ now \in 0..MaxNow /\ MaxNow \in Nat
      /\ limits \in [Channel -> AnyLimit]
      /\ \A c \in Channel : limits[c] \in Limit[c]
      /\ faults \in 0..MaxFaults /\ MaxFaults \in Nat
  BY RetentionAssumption DEF Inv, TypeOK
<1>1. CASE Tick
  BY <1>0, <1>1 DEF Tick, storeVars
<1>2. ASSUME NEW c \in Channel, NEW lim \in Limit[c], SetChannelLimits(c, lim)
      PROVE  /\ now' \in 0..MaxNow /\ now <= now'
             /\ limits' \in [Channel -> AnyLimit]
             /\ \A d \in Channel : limits'[d] \in Limit[d]
             /\ faults' \in 0..MaxFaults
  <2>1. limits' = [limits EXCEPT ![c] = lim] /\ now' = now /\ faults' = faults
    BY <1>2 DEF SetChannelLimits
  <2>2. lim \in AnyLimit
    BY DEF AnyLimit
  <2> QED
    BY <1>0, <2>1, <2>2
<1>3. CASE faults' = faults /\ now' = now /\ limits' = limits
  BY <1>0, <1>3
<1>4. CASE Fault /\ now' = now /\ limits' = limits
  BY <1>0, <1>4 DEF Fault
<1>5. ASSUME NEW a \in Appender, NEW t \in 0..now, AppendStores(a, t)
      PROVE  faults' = faults /\ now' = now /\ limits' = limits
  BY <1>5 DEF AppendStores
<1>6. ASSUME NEW a \in Appender,
             \/ \E c \in Channel, size \in Size : AppendReads(a, c, size)
             \/ AppendRejected(a)
      PROVE  faults' = faults /\ now' = now /\ limits' = limits
  BY <1>6 DEF AppendReads, AppendRejected, storeVars
<1>7. CASE \/ SweepStart \/ SweepBytes \/ SweepMsgs \/ SweepAcct \/ SweepAdvance
           \/ \E c \in Channel : SweepChannel(c)
           \/ \E e \in expired : SweepDelete(e)
  <2>1. faults' = faults /\ now' = now /\ limits' = limits
    BY <1>7 DEF SweepStart, SweepBytes, SweepMsgs, SweepAcct, SweepAdvance,
                SweepChannel, SweepDelete, storeVars
  <2> QED
    BY <1>3, <2>1
<1>8. CASE \/ SweepReadFails \/ SweepUpdateFails \/ BrokerCrash
           \/ \E e \in expired, executed \in BOOLEAN : SweepDeleteFails(e, executed)
  <2>1. Fault /\ now' = now /\ limits' = limits
    BY <1>8 DEF SweepReadFails, SweepUpdateFails, BrokerCrash, SweepDeleteFails, storeVars
  <2> QED
    BY <1>4, <2>1
<1>9. CASE UNCHANGED vars
  BY <1>3, <1>9 DEF vars, storeVars
<1> QED
  BY <1>1, <1>2, <1>3, <1>5, <1>6, <1>7, <1>8, <1>9, StepCases

\* The entries of the streams and their seqs.
StreamTypeOK ==
    /\ stream \in [Channel -> SUBSET Message]
    /\ nextSeq \in [Channel -> Nat \ {0}]
    /\ \A c \in Channel : \A e \in stream[c] : e.seq < nextSeq[c]
    /\ Finite

CounterTypeOK ==
    /\ bytes \in [Channel -> Int]
    /\ msgs \in [Channel -> Int]
    /\ acct \in [Account -> Int]

LEMMA StreamsShrink ==
    ASSUME StreamTypeOK, nextSeq' = nextSeq,
           \/ stream' = stream
           \/ \E c \in Channel, e \in Message :
                 stream' = [stream EXCEPT ![c] = @ \ {e}]
    PROVE  StreamTypeOK'
<1>1. CASE stream' = stream
  BY <1>1 DEF StreamTypeOK, Finite
<1>2. ASSUME NEW c \in Channel, NEW e \in Message,
             stream' = [stream EXCEPT ![c] = @ \ {e}]
      PROVE  StreamTypeOK'
  <2>1. /\ stream' \in [Channel -> SUBSET Message]
        /\ \A d \in Channel : stream'[d] \subseteq stream[d]
    BY <1>2 DEF StreamTypeOK
  <2>2. \A d \in Channel : IsFiniteSet(stream'[d])
    BY <2>1, FS_Subset DEF StreamTypeOK, Finite
  <2> QED
    BY <2>1, <2>2 DEF StreamTypeOK, Finite
<1> QED
  BY <1>1, <1>2

LEMMA AppendTypes ==
    ASSUME Inv, NEW c \in Channel, NEW e \in Message, e \notin stream[c],
           NEW P \in SUBSET (stream[c] \cup {e}), NEW a \in Appender,
           AppendDoes(a, c, e, P)
    PROVE  StreamTypeOK' /\ CounterTypeOK'
<1> DEFINE S == stream[c] \cup {e}
<1>1. /\ stream' = [stream EXCEPT ![c] = S \ P]
      /\ bytes' = [bytes EXCEPT ![c] = @ + e.size - TotalSize(P)]
      /\ msgs' = [msgs EXCEPT ![c] = @ + 1 - Cardinality(P)]
      /\ AddToAccount(c, e.size - TotalSize(P))
      /\ nextSeq' = [nextSeq EXCEPT ![c] = @ + 1]
      /\ e.seq = nextSeq[c]
  BY DEF AppendDoes
<1>2. /\ stream \in [Channel -> SUBSET Message] /\ nextSeq \in [Channel -> Nat \ {0}]
      /\ \A d \in Channel : IsFiniteSet(stream[d])
      /\ \A d \in Channel : \A x \in stream[d] : x.seq < nextSeq[d]
      /\ bytes \in [Channel -> Int] /\ msgs \in [Channel -> Int]
      /\ acct \in [Account -> Int]
  BY DEF Inv, TypeOK, Finite
<1>3. S \in SUBSET Message /\ IsFiniteSet(S)
  BY <1>2, SizeAdded
<1>4. /\ IsFiniteSet(S \ P) /\ Cardinality(P) \in Nat /\ TotalSize(P) \in Nat
  BY <1>3, SizeTaken
<1>5. e.size \in Nat /\ \A x \in Message : x.seq \in Nat
  BY MessageFields
<1>6. StreamTypeOK'
  <2>1. stream' \in [Channel -> SUBSET Message] /\ nextSeq' \in [Channel -> Nat \ {0}]
    BY <1>1, <1>2, <1>3
  <2>2. Finite'
    BY <1>1, <1>2, <1>4 DEF Finite
  <2>3. \A x \in S : x.seq < nextSeq[c] + 1
    BY <1>1, <1>2, <1>5
  <2>4. \A d \in Channel : \A x \in stream'[d] : x.seq < nextSeq'[d]
    BY <1>1, <1>2, <2>3
  <2> QED
    BY <2>1, <2>2, <2>4 DEF StreamTypeOK
<1>7. e.size - TotalSize(P) \in Int
  BY <1>4, <1>5
<1>8. CounterTypeOK'
  BY <1>1, <1>2, <1>4, <1>5, <1>7, AccountStep DEF CounterTypeOK
<1> QED
  BY <1>6, <1>8

SweepTypeOK ==
    /\ sweep \in {"idle", "chan", "entry", "bytes", "msgs", "acct"}
    /\ sweepNow \in 0..MaxNow
    /\ todo \subseteq Channel
    /\ at \in Channel
    /\ expired \subseteq Message
    /\ victim \in Message \cup {NoMessage}

CallTypeOK == call \in [Appender -> Call \cup {Idle}]

LEMMA VictimSize == ASSUME SweepTypeOK PROVE victim.size \in Nat
  BY MessageFields DEF SweepTypeOK

LEMMA AppendStepTypes ==
    ASSUME Inv, NEW a \in Appender,
           \/ \E c \in Channel, size \in Size : AppendReads(a, c, size)
           \/ \E t \in 0..now : AppendStores(a, t)
           \/ AppendRejected(a)
    PROVE  /\ StreamTypeOK' /\ CounterTypeOK' /\ CallTypeOK'
           /\ UNCHANGED sweepVars
<1>0. /\ CallTypeOK /\ StreamTypeOK /\ CounterTypeOK
      /\ Idle \in Call \cup {Idle}
  BY DEF Inv, TypeOK, CallTypeOK, StreamTypeOK, CounterTypeOK
<1>1. ASSUME NEW c \in Channel, NEW size \in Size, AppendReads(a, c, size)
      PROVE  /\ CallTypeOK' /\ UNCHANGED <<storeVars, sweepVars>>
  <2>1. limits[c] \in AnyLimit
    BY DEF Inv, TypeOK
  <2>2. [busy |-> TRUE, chan |-> c, lim |-> limits[c], size |-> size] \in Call
    BY <2>1 DEF Call
  <2> QED
    BY <1>0, <1>1, <2>2 DEF AppendReads, CallTypeOK
<1>2. CASE AppendRejected(a)
  BY <1>0, <1>2 DEF AppendRejected, storeVars, sweepVars, CallTypeOK, StreamTypeOK,
                    CounterTypeOK, Finite
<1>3. ASSUME NEW t \in 0..now, AppendStores(a, t)
      PROVE  /\ StreamTypeOK' /\ CounterTypeOK' /\ CallTypeOK'
             /\ UNCHANGED sweepVars
  <2>1. PICK c \in Channel, e \in Message :
               \E P \in SUBSET (stream[c] \cup {e}) :
                  e \notin stream[c] /\ AppendDoes(a, c, e, P)
    BY <1>3, AppendOutcome DEF Inv
  <2>2. PICK P \in SUBSET (stream[c] \cup {e}) :
               e \notin stream[c] /\ AppendDoes(a, c, e, P)
    BY <2>1
  <2>3. StreamTypeOK' /\ CounterTypeOK'
    BY <2>2, AppendTypes
  <2>4. call' = [call EXCEPT ![a] = Idle] /\ UNCHANGED sweepVars
    BY <2>2 DEF AppendDoes
  <2>5. CallTypeOK'
    BY <1>0, <2>4 DEF CallTypeOK
  <2> QED
    BY <2>3, <2>4, <2>5
<1> QED
  BY <1>0, <1>1, <1>2, <1>3 DEF storeVars, sweepVars, StreamTypeOK, CounterTypeOK, Finite

\* What the sweeper's own steps and its faults do to the store.
LEMMA SweepStoreTypes ==
    ASSUME Inv,
           \/ SweepStart \/ SweepBytes \/ SweepMsgs \/ SweepAcct \/ SweepAdvance
           \/ SweepReadFails \/ SweepUpdateFails \/ BrokerCrash
           \/ \E c \in Channel : SweepChannel(c)
           \/ \E e \in expired : SweepDelete(e)
           \/ \E e \in expired, executed \in BOOLEAN : SweepDeleteFails(e, executed)
    PROVE  StreamTypeOK' /\ CounterTypeOK' /\ CallTypeOK'
<1>0. /\ CallTypeOK /\ StreamTypeOK /\ CounterTypeOK /\ SweepTypeOK
      /\ victim.size \in Nat /\ at \in Channel /\ expired \subseteq Message
  BY VictimSize DEF Inv, TypeOK, CallTypeOK, StreamTypeOK, CounterTypeOK, SweepTypeOK
<1>1. CASE \/ SweepStart \/ SweepAdvance
           \/ SweepReadFails \/ SweepUpdateFails \/ BrokerCrash
           \/ \E c \in Channel : SweepChannel(c)
  <2>1. UNCHANGED <<stream, nextSeq, bytes, msgs, acct>>
    BY <1>1 DEF SweepStart, SweepAdvance, SweepReadFails, SweepUpdateFails, BrokerCrash,
                SweepChannel, storeVars
  <2>2. CallTypeOK'
    BY <1>0, <1>1 DEF SweepStart, SweepAdvance, SweepReadFails, SweepUpdateFails,
                      BrokerCrash, SweepChannel, CallTypeOK
  <2> QED
    BY <1>0, <2>1, <2>2 DEF StreamTypeOK, CounterTypeOK, Finite
<1>2. CASE \/ \E e \in expired : SweepDelete(e)
           \/ \E e \in expired, executed \in BOOLEAN : SweepDeleteFails(e, executed)
  <2>1. /\ nextSeq' = nextSeq /\ UNCHANGED <<bytes, msgs, acct, call>>
        /\ \/ stream' = stream
           \/ \E e \in Message : stream' = [stream EXCEPT ![at] = @ \ {e}]
    BY <1>0, <1>2 DEF SweepDelete, SweepDeleteFails
  <2>2. StreamTypeOK'
    BY <1>0, <2>1, StreamsShrink
  <2> QED
    BY <1>0, <2>1, <2>2 DEF CounterTypeOK, CallTypeOK
<1>3. CASE SweepBytes \/ SweepMsgs
  <2>1. /\ nextSeq' = nextSeq /\ stream' = stream /\ acct' = acct /\ call' = call
        /\ \/ bytes' = [bytes EXCEPT ![at] = @ - victim.size] /\ msgs' = msgs
           \/ msgs' = [msgs EXCEPT ![at] = @ - 1] /\ bytes' = bytes
    BY <1>3 DEF SweepBytes, SweepMsgs
  <2> QED
    BY <1>0, <2>1 DEF CounterTypeOK, CallTypeOK, StreamTypeOK, Finite
<1>4. CASE SweepAcct
  <2>1. /\ nextSeq' = nextSeq /\ stream' = stream /\ bytes' = bytes /\ msgs' = msgs
        /\ call' = call /\ AddToAccount(at, - victim.size)
    BY <1>4 DEF SweepAcct
  <2>2. acct' \in [Account -> Int]
    BY <1>0, <2>1, AccountStep DEF CounterTypeOK
  <2> QED
    BY <1>0, <2>1, <2>2 DEF CounterTypeOK, CallTypeOK, StreamTypeOK, Finite
<1> QED
  BY <1>1, <1>2, <1>3, <1>4

LEMMA SweeperTypes ==
    ASSUME Inv, now' \in 0..MaxNow, now <= now',
           \/ SweepStart \/ SweepBytes \/ SweepMsgs \/ SweepAcct \/ SweepAdvance
           \/ SweepReadFails \/ SweepUpdateFails \/ BrokerCrash
           \/ \E c \in Channel : SweepChannel(c)
           \/ \E e \in expired : SweepDelete(e)
           \/ \E e \in expired, executed \in BOOLEAN : SweepDeleteFails(e, executed)
    PROVE  SweepTypeOK' /\ SweepInv'
<1>0. /\ SweepTypeOK /\ SweepInv /\ now \in Nat /\ now \in 0..MaxNow /\ MaxNow \in Nat
      /\ \A c \in Channel : stream[c] \subseteq Message
      /\ \A e \in Message : e.exp \in Nat
  BY MessageFields, RetentionAssumption DEF Inv, TypeOK, SweepTypeOK
<1>1. CASE SweepStart
  BY <1>0, <1>1 DEF SweepStart, SweepTypeOK, SweepInv
<1>2. CASE SweepBytes \/ SweepMsgs \/ SweepAcct \/ SweepReadFails \/ SweepUpdateFails
  BY <1>0, <1>2 DEF SweepBytes, SweepMsgs, SweepAcct, SweepReadFails,
                    SweepUpdateFails, SweepTypeOK, SweepInv
<1>3. CASE SweepAdvance \/ BrokerCrash
  BY <1>0, <1>3 DEF SweepAdvance, BrokerCrash, SweepTypeOK, SweepInv
<1>4. ASSUME NEW c \in Channel, SweepChannel(c)
      PROVE  SweepTypeOK' /\ SweepInv'
  BY <1>0, <1>4 DEF SweepChannel, SweepTypeOK, SweepInv
<1>5. ASSUME NEW e \in expired,
             SweepDelete(e) \/ \E executed \in BOOLEAN : SweepDeleteFails(e, executed)
      PROVE  SweepTypeOK' /\ SweepInv'
  BY <1>0, <1>5 DEF SweepDelete, SweepDeleteFails, SweepTypeOK, SweepInv
<1> QED
  BY <1>1, <1>2, <1>3, <1>4, <1>5

LEMMA InvStep == ASSUME Inv, [Next]_vars PROVE Inv'
<1>0. /\ now' \in 0..MaxNow /\ now <= now'
      /\ limits' \in [Channel -> AnyLimit]
      /\ \A c \in Channel : limits'[c] \in Limit[c]
      /\ faults' \in 0..MaxFaults
  BY ClockStep
<1>1. /\ CallTypeOK /\ StreamTypeOK /\ CounterTypeOK /\ SweepTypeOK /\ SweepInv
      /\ now \in 0..MaxNow /\ MaxNow \in Nat
  BY RetentionAssumption
     DEF Inv, TypeOK, CallTypeOK, StreamTypeOK, CounterTypeOK, SweepTypeOK
<1>2. UNCHANGED sweepVars => SweepTypeOK' /\ SweepInv'
  BY <1>0, <1>1 DEF sweepVars, SweepTypeOK, SweepInv
<1>3. StreamTypeOK' /\ CounterTypeOK' /\ CallTypeOK' /\ SweepTypeOK' /\ SweepInv'
  <2>1. ASSUME NEW a \in Appender,
               \/ \E c \in Channel, size \in Size : AppendReads(a, c, size)
               \/ \E t \in 0..now : AppendStores(a, t)
               \/ AppendRejected(a)
        PROVE  StreamTypeOK' /\ CounterTypeOK' /\ CallTypeOK' /\ SweepTypeOK' /\ SweepInv'
    BY <1>2, <2>1, AppendStepTypes
  <2>2. CASE \/ SweepStart \/ SweepBytes \/ SweepMsgs \/ SweepAcct \/ SweepAdvance
             \/ SweepReadFails \/ SweepUpdateFails \/ BrokerCrash
             \/ \E c \in Channel : SweepChannel(c)
             \/ \E e \in expired : SweepDelete(e)
             \/ \E e \in expired, executed \in BOOLEAN : SweepDeleteFails(e, executed)
    BY <1>0, <2>2, SweepStoreTypes, SweeperTypes
  <2>3. CASE \/ \E c \in Channel : \E lim \in Limit[c] : SetChannelLimits(c, lim)
             \/ Tick
             \/ UNCHANGED vars
    <3>1. UNCHANGED <<stream, bytes, msgs, nextSeq, acct, call, sweepVars>>
      BY <2>3 DEF SetChannelLimits, Tick, vars, storeVars
    <3> QED
      BY <1>1, <1>2, <3>1 DEF CallTypeOK, StreamTypeOK, CounterTypeOK, Finite
  <2> QED
    BY <2>1, <2>2, <2>3, StepCases
<1> QED
  BY <1>0, <1>3 DEF Inv, TypeOK, CallTypeOK, StreamTypeOK, CounterTypeOK, SweepTypeOK

LEMMA Start == Init => Inv
<1> SUFFICES ASSUME Init PROVE Inv
  OBVIOUS
<1> USE RetentionAssumption
<1>1. limits \in [Channel -> AnyLimit] /\ \A c \in Channel : limits[c] \in Limit[c]
  BY DEF Init
<1>2. at \in Channel
  BY DEF Init
<1>3. Finite
  BY FS_EmptySet DEF Init, Finite
<1>4. SweepInv
  BY DEF Init, SweepInv
<1>5. /\ now \in 0..MaxNow
      /\ stream \in [Channel -> SUBSET Message]
      /\ bytes \in [Channel -> Int] /\ msgs \in [Channel -> Int]
      /\ nextSeq \in [Channel -> Nat \ {0}]
      /\ \A c \in Channel : stream[c] = {}
      /\ acct \in [Account -> Int]
  BY DEF Init
<1>6. /\ call \in [Appender -> Call \cup {Idle}]
      /\ sweep = "idle" /\ sweepNow \in 0..MaxNow /\ todo \subseteq Channel
      /\ expired \subseteq Message /\ victim \in Message \cup {NoMessage}
      /\ faults \in 0..MaxFaults
  BY DEF Init
<1> QED
  BY <1>1, <1>2, <1>3, <1>4, <1>5, <1>6 DEF Inv, TypeOK

LEMMA InvAlways == Spec => []Inv
<1>1. Inv /\ [Next]_vars => Inv'
  BY InvStep
<1> QED
  BY <1>1, Start, PTL DEF Spec

\* The store, the calls and the sweeper keep their types; in particular every
\* stored message is older than the next sequence number of its channel.
THEOREM RetentionTypeCorrect == Spec => []TypeOK
<1>1. Inv => TypeOK
  BY DEF Inv
<1> QED
  BY <1>1, InvAlways, PTL

-----------------------------------------------------------------------------
(* The counters *)

\* What a counter shows beyond what is stored and what is owed.
SlackMsgs(c)  == msgs[c] - Cardinality(stream[c]) - OwedMsgs(c)
SlackBytes(c) == bytes[c] - TotalSize(stream[c]) - OwedBytes(c)
SlackAcct(o)  == acct[o] - Stored(o) - OwedAcct(o)

SlackKept ==
    /\ \A c \in Channel : SlackMsgs(c)' = SlackMsgs(c) /\ SlackBytes(c)' = SlackBytes(c)
    /\ \A o \in Account : SlackAcct(o)' = SlackAcct(o)

SlackGrows ==
    /\ \A c \in Channel : SlackMsgs(c)' >= SlackMsgs(c) /\ SlackBytes(c)' >= SlackBytes(c)
    /\ \A o \in Account : SlackAcct(o)' >= SlackAcct(o)

\* The types of the terms that slack is made of.
LEMMA LedgerTypes ==
    ASSUME Inv
    PROVE  /\ \A c \in Channel :
                 /\ msgs[c] \in Int /\ bytes[c] \in Int
                 /\ stream[c] \in SUBSET Message /\ IsFiniteSet(stream[c])
                 /\ Cardinality(stream[c]) \in Nat /\ TotalSize(stream[c]) \in Nat
                 /\ OwedMsgs(c) \in {0, 1} /\ OwedBytes(c) \in Nat
           /\ \A o \in Account :
                 acct[o] \in Int /\ Stored(o) \in Nat /\ OwedAcct(o) \in Nat
           /\ at \in Channel /\ victim.size \in Nat
<1>1. stream \in [Channel -> SUBSET Message] /\ Finite
  BY DEF Inv, TypeOK
<1>2. \A c \in Channel : /\ IsFiniteSet(stream[c]) /\ Cardinality(stream[c]) \in Nat
                         /\ TotalSize(stream[c]) \in Nat
  BY <1>1, BytesFinite, FS_CardinalityType DEF Finite
<1>3. victim.size \in Nat
  BY MessageFields DEF Inv, TypeOK
<1>4. \A o \in Account : Stored(o) \in Nat
  BY <1>1, <1>2, StoredIs, BytesOfFinite DEF Owned
<1>5. \A c \in Channel : OwedMsgs(c) \in {0, 1} /\ OwedBytes(c) \in Nat
  BY <1>3 DEF OwedMsgs, OwedBytes
<1>6. \A o \in Account : OwedAcct(o) \in Nat
  BY <1>3 DEF OwedAcct
<1> QED
  BY <1>1, <1>2, <1>3, <1>4, <1>5, <1>6 DEF Inv, TypeOK

SlackIsInt ==
    /\ \A c \in Channel : SlackMsgs(c) \in Int /\ SlackBytes(c) \in Int
    /\ \A o \in Account : SlackAcct(o) \in Int

LEMMA SlackTypes == Inv => SlackIsInt
  BY LedgerTypes DEF SlackIsInt, SlackMsgs, SlackBytes, SlackAcct

\* Outside the three stages of a correction nothing is owed.
LEMMA NothingOwed ==
    ASSUME sweep \notin {"bytes", "msgs", "acct"}
    PROVE  /\ \A c : OwedMsgs(c) = 0 /\ OwedBytes(c) = 0
           /\ \A o : OwedAcct(o) = 0
  BY DEF OwedMsgs, OwedBytes, OwedAcct

\* A step that leaves the store alone and owes what was owed before.
LEMMA SlackStays ==
    ASSUME UNCHANGED <<stream, bytes, msgs, acct>>,
           \/ UNCHANGED <<sweep, at, victim>>
           \/ /\ sweep \notin {"bytes", "msgs", "acct"}
              /\ sweep' \notin {"bytes", "msgs", "acct"}
    PROVE  SlackKept
<1>1. /\ \A c : OwedMsgs(c)' = OwedMsgs(c) /\ OwedBytes(c)' = OwedBytes(c)
      /\ \A o : OwedAcct(o)' = OwedAcct(o)
  BY DEF OwedMsgs, OwedBytes, OwedAcct
<1>2. \A o : Stored(o)' = Stored(o)
  BY DEF Stored, Owned
<1> QED
  BY <1>1, <1>2 DEF SlackKept, SlackMsgs, SlackBytes, SlackAcct

\* An append adds to every counter what it adds to the stream.
LEMMA SlackAppend ==
    ASSUME Inv, NEW c \in Channel, NEW e \in Message, e \notin stream[c],
           NEW P \in SUBSET (stream[c] \cup {e}), NEW a \in Appender,
           AppendDoes(a, c, e, P)
    PROVE  SlackKept
<1> DEFINE S == stream[c] \cup {e}
<1>1. /\ stream' = [stream EXCEPT ![c] = S \ P]
      /\ bytes' = [bytes EXCEPT ![c] = @ + e.size - TotalSize(P)]
      /\ msgs' = [msgs EXCEPT ![c] = @ + 1 - Cardinality(P)]
      /\ AddToAccount(c, e.size - TotalSize(P))
      /\ UNCHANGED <<sweep, at, victim>>
  BY DEF AppendDoes, sweepVars
<1>2. /\ stream \in [Channel -> SUBSET Message] /\ Finite
      /\ bytes \in [Channel -> Int] /\ msgs \in [Channel -> Int]
      /\ acct \in [Account -> Int]
      /\ e.size \in Nat
  BY MessageFields DEF Inv, TypeOK
<1>3. /\ S \in SUBSET Message /\ IsFiniteSet(S)
      /\ Cardinality(S) = Cardinality(stream[c]) + 1
      /\ TotalSize(S) = TotalSize(stream[c]) + e.size
  BY <1>2, SizeAdded DEF Finite
<1>4. /\ IsFiniteSet(S \ P) /\ S \ P \in SUBSET Message
      /\ Cardinality(P) \in Nat /\ TotalSize(P) \in Nat
      /\ Cardinality(S \ P) = Cardinality(S) - Cardinality(P)
      /\ TotalSize(S \ P) = TotalSize(S) - TotalSize(P)
  BY <1>3, SizeTaken
<1>5. /\ \A d : OwedMsgs(d)' = OwedMsgs(d) /\ OwedBytes(d)' = OwedBytes(d)
      /\ \A o : OwedAcct(o)' = OwedAcct(o)
  BY <1>1 DEF OwedMsgs, OwedBytes, OwedAcct
<1>6. \A o \in Account :
         Stored(o)' = IF owner[c] = o THEN Stored(o) - TotalSize(stream[c]) + TotalSize(S \ P)
                      ELSE Stored(o)
  BY <1>1, <1>2, <1>4, StoredChange
<1>7. \A o \in Account :
         acct'[o] = IF owner[c] = o THEN acct[o] + (e.size - TotalSize(P)) ELSE acct[o]
  BY <1>1, <1>2, <1>4, AccountStep
<1> HIDE DEF S
<1>8. ASSUME NEW d \in Channel
      PROVE  SlackMsgs(d)' = SlackMsgs(d) /\ SlackBytes(d)' = SlackBytes(d)
  <2>1. CASE d = c
    <3>1. /\ stream'[c] = S \ P /\ bytes'[c] = bytes[c] + e.size - TotalSize(P)
          /\ msgs'[c] = msgs[c] + 1 - Cardinality(P)
      BY <1>1, <1>2
    <3> QED
      BY <1>2, <1>3, <1>4, <1>5, <2>1, <3>1, LedgerTypes DEF SlackMsgs, SlackBytes
  <2>2. CASE d # c
    <3>1. stream'[d] = stream[d] /\ bytes'[d] = bytes[d] /\ msgs'[d] = msgs[d]
      BY <1>1, <1>2, <2>2
    <3> QED
      BY <1>5, <3>1 DEF SlackMsgs, SlackBytes
  <2> QED
    BY <2>1, <2>2
<1>9. ASSUME NEW o \in Account
      PROVE  SlackAcct(o)' = SlackAcct(o)
  <2>1. /\ acct[o] \in Int /\ Stored(o) \in Nat /\ OwedAcct(o) \in Nat
        /\ TotalSize(stream[c]) \in Nat /\ OwedAcct(o)' = OwedAcct(o)
    BY <1>5, LedgerTypes
  <2>2. CASE owner[c] = o
    <3>1. /\ acct'[o] = acct[o] + (e.size - TotalSize(P))
          /\ Stored(o)' = Stored(o) - TotalSize(stream[c]) + TotalSize(S \ P)
      BY <1>6, <1>7, <2>2
    <3> QED
      BY <1>2, <1>3, <1>4, <2>1, <3>1 DEF SlackAcct
  <2>3. CASE owner[c] # o
    BY <1>6, <1>7, <2>1, <2>3 DEF SlackAcct
  <2> QED
    BY <2>2, <2>3
<1> QED
  BY <1>8, <1>9 DEF SlackKept

\* A deletion takes one message, and its size, off what is stored.
LEMMA DeleteEffect ==
    ASSUME Inv, NEW e \in stream[at], stream' = [stream EXCEPT ![at] = @ \ {e}]
    PROVE  /\ \A c \in Channel :
                 /\ Cardinality(stream'[c])
                      = Cardinality(stream[c]) - (IF c = at THEN 1 ELSE 0)
                 /\ TotalSize(stream'[c])
                      = TotalSize(stream[c]) - (IF c = at THEN e.size ELSE 0)
           /\ \A o \in Account :
                 Stored(o)' = Stored(o) - (IF owner[at] = o THEN e.size ELSE 0)
           /\ e.size \in Nat
<1>1. /\ at \in Channel /\ stream \in [Channel -> SUBSET Message] /\ Finite
      /\ stream[at] \in SUBSET Message /\ IsFiniteSet(stream[at]) /\ e \in Message
      /\ e.size \in Nat
  BY MessageFields DEF Inv, TypeOK, Finite
<1>2. {e} \in SUBSET stream[at]
  OBVIOUS
<1>3. /\ IsFiniteSet(stream[at] \ {e}) /\ stream[at] \ {e} \in SUBSET Message
      /\ Cardinality(stream[at] \ {e}) = Cardinality(stream[at]) - Cardinality({e})
      /\ TotalSize(stream[at] \ {e}) = TotalSize(stream[at]) - TotalSize({e})
  BY <1>1, <1>2, SizeTaken
<1>4. Cardinality({e}) = 1 /\ TotalSize({e}) = e.size
  BY <1>1, FS_Singleton, BytesOfOne
<1>5. ASSUME NEW c \in Channel
      PROVE  /\ Cardinality(stream'[c])
                  = Cardinality(stream[c]) - (IF c = at THEN 1 ELSE 0)
             /\ TotalSize(stream'[c])
                  = TotalSize(stream[c]) - (IF c = at THEN e.size ELSE 0)
  <2>1. CASE c = at
    BY <1>1, <1>3, <1>4, <2>1
  <2>2. CASE c # at
    BY <1>1, <2>2, LedgerTypes
  <2> QED
    BY <2>1, <2>2
<1>6. ASSUME NEW o \in Account
      PROVE  Stored(o)' = Stored(o) - (IF owner[at] = o THEN e.size ELSE 0)
  <2>1. Stored(o)' = IF owner[at] = o
                       THEN Stored(o) - TotalSize(stream[at]) + TotalSize(stream[at] \ {e})
                       ELSE Stored(o)
    BY <1>1, <1>3, StoredChange
  <2>2. Stored(o) \in Nat /\ TotalSize(stream[at]) \in Nat
    BY <1>1, LedgerTypes
  <2> QED
    BY <1>1, <1>3, <1>4, <2>1, <2>2
<1> QED
  BY <1>1, <1>5, <1>6

\* XDEL by the sweeper: what it deletes it owes.
LEMMA SlackSweepDelete ==
    ASSUME Inv, NEW e \in expired, SweepDelete(e)
    PROVE  SlackKept
<1>1. /\ sweep = "entry" /\ at' = at
      /\ UNCHANGED <<bytes, msgs, acct>>
      /\ stream' = [stream EXCEPT ![at] = @ \ {e}]
      /\ IF e \in stream[at] THEN sweep' = "bytes" /\ victim' = e
                             ELSE UNCHANGED <<sweep, victim>>
  BY DEF SweepDelete
<1>2. CASE e \notin stream[at]
  <2>1. stream' = stream
    BY <1>1, <1>2 DEF Inv, TypeOK
  <2> QED
    BY <1>1, <1>2, <2>1, SlackStays
<1>3. CASE e \in stream[at]
  <2>1. /\ \A c \in Channel :
              /\ OwedMsgs(c)' = (IF c = at THEN 1 ELSE 0) /\ OwedMsgs(c) = 0
              /\ OwedBytes(c)' = (IF c = at THEN e.size ELSE 0) /\ OwedBytes(c) = 0
        /\ \A o \in Account : /\ OwedAcct(o)' = (IF owner[at] = o THEN e.size ELSE 0)
                              /\ OwedAcct(o) = 0
    BY <1>1, <1>3 DEF OwedMsgs, OwedBytes, OwedAcct
  <2>2. ASSUME NEW c \in Channel
        PROVE  SlackMsgs(c)' = SlackMsgs(c) /\ SlackBytes(c)' = SlackBytes(c)
    <3>1. /\ Cardinality(stream'[c])
               = Cardinality(stream[c]) - (IF c = at THEN 1 ELSE 0)
          /\ TotalSize(stream'[c])
               = TotalSize(stream[c]) - (IF c = at THEN e.size ELSE 0)
          /\ e.size \in Nat
      BY <1>1, <1>3, DeleteEffect
    <3>2. /\ Cardinality(stream[c]) \in Nat /\ TotalSize(stream[c]) \in Nat
          /\ msgs[c] \in Int /\ bytes[c] \in Int
          /\ msgs'[c] = msgs[c] /\ bytes'[c] = bytes[c]
      BY <1>1, LedgerTypes
    <3> QED
      BY <2>1, <3>1, <3>2 DEF SlackMsgs, SlackBytes
  <2>3. ASSUME NEW o \in Account PROVE SlackAcct(o)' = SlackAcct(o)
    <3>1. /\ Stored(o)' = Stored(o) - (IF owner[at] = o THEN e.size ELSE 0)
          /\ e.size \in Nat
      BY <1>1, <1>3, DeleteEffect
    <3>2. Stored(o) \in Nat /\ acct[o] \in Int /\ acct'[o] = acct[o]
      BY <1>1, LedgerTypes
    <3> QED
      BY <2>1, <3>1, <3>2 DEF SlackAcct
  <2> QED
    BY <2>2, <2>3 DEF SlackKept
<1> QED
  BY <1>2, <1>3

\* The corrections pay what is owed.
LEMMA SlackCorrect ==
    ASSUME Inv, SweepBytes \/ SweepMsgs \/ SweepAcct
    PROVE  SlackKept
<1>1. /\ bytes \in [Channel -> Int] /\ msgs \in [Channel -> Int]
      /\ acct \in [Account -> Int] /\ at \in Channel /\ victim.size \in Nat
  BY LedgerTypes DEF Inv, TypeOK
<1>2. at' = at /\ stream' = stream /\ \A o : Stored(o)' = Stored(o)
  BY DEF SweepBytes, SweepMsgs, SweepAcct, Stored, Owned
<1>3. CASE SweepBytes
  <2>1. /\ sweep = "bytes" /\ sweep' = "msgs" /\ victim' = victim
        /\ bytes' = [bytes EXCEPT ![at] = @ - victim.size]
        /\ msgs' = msgs /\ acct' = acct
    BY <1>3 DEF SweepBytes
  <2>2. \A c \in Channel :
           /\ bytes'[c] = bytes[c] - (IF c = at THEN victim.size ELSE 0)
           /\ OwedBytes(c) = (IF c = at THEN victim.size ELSE 0) /\ OwedBytes(c)' = 0
           /\ OwedMsgs(c)' = OwedMsgs(c)
    BY <1>1, <1>2, <2>1 DEF OwedBytes, OwedMsgs
  <2>3. \A o \in Account : OwedAcct(o)' = OwedAcct(o)
    BY <1>2, <2>1 DEF OwedAcct
  <2> QED
    BY <1>2, <2>1, <2>2, <2>3, LedgerTypes DEF SlackKept, SlackMsgs, SlackBytes, SlackAcct
<1>4. CASE SweepMsgs
  <2>1. /\ sweep = "msgs" /\ sweep' = "acct" /\ victim' = victim
        /\ msgs' = [msgs EXCEPT ![at] = @ - 1]
        /\ bytes' = bytes /\ acct' = acct
    BY <1>4 DEF SweepMsgs
  <2>2. \A c \in Channel :
           /\ msgs'[c] = msgs[c] - (IF c = at THEN 1 ELSE 0)
           /\ OwedMsgs(c) = (IF c = at THEN 1 ELSE 0) /\ OwedMsgs(c)' = 0
           /\ OwedBytes(c)' = OwedBytes(c)
    BY <1>1, <1>2, <2>1 DEF OwedBytes, OwedMsgs
  <2>3. \A o \in Account : OwedAcct(o)' = OwedAcct(o)
    BY <1>2, <2>1 DEF OwedAcct
  <2> QED
    BY <1>2, <2>1, <2>2, <2>3, LedgerTypes DEF SlackKept, SlackMsgs, SlackBytes, SlackAcct
<1>5. CASE SweepAcct
  <2>1. /\ sweep = "acct" /\ sweep' = "entry" /\ AddToAccount(at, - victim.size)
        /\ bytes' = bytes /\ msgs' = msgs
    BY <1>5 DEF SweepAcct
  <2>2. \A o \in Account :
           acct'[o] = IF owner[at] = o THEN acct[o] + (- victim.size) ELSE acct[o]
    BY <1>1, <2>1, AccountStep
  <2>3. /\ \A c \in Channel : /\ OwedMsgs(c)' = OwedMsgs(c) /\ OwedBytes(c)' = OwedBytes(c)
        /\ \A o \in Account : /\ OwedAcct(o) = (IF owner[at] = o THEN victim.size ELSE 0)
                              /\ OwedAcct(o)' = 0
    BY <1>2, <2>1 DEF OwedMsgs, OwedBytes, OwedAcct
  <2>4. ASSUME NEW o \in Account PROVE SlackAcct(o)' = SlackAcct(o)
    <3>1. acct[o] \in Int /\ Stored(o) \in Nat /\ Stored(o)' = Stored(o)
      BY <1>2, LedgerTypes
    <3> QED
      BY <1>1, <2>2, <2>3, <3>1 DEF SlackAcct
  <2> QED
    BY <1>2, <2>1, <2>3, <2>4 DEF SlackKept, SlackMsgs, SlackBytes
<1> QED
  BY <1>3, <1>4, <1>5

\* A fault forgets what is owed or deletes without owing.
LEMMA SlackFault ==
    ASSUME Inv,
           \/ SweepReadFails \/ SweepUpdateFails
           \/ \E e \in expired, executed \in BOOLEAN : SweepDeleteFails(e, executed)
           \/ BrokerCrash
    PROVE  SlackGrows /\ faults' # 0
<1>1. faults' # 0 /\ UNCHANGED <<bytes, msgs, acct>> /\ at' = at
  BY DEF SweepReadFails, SweepUpdateFails, SweepDeleteFails, BrokerCrash, Fault, storeVars,
         Inv, TypeOK
<1>2. CASE SweepReadFails \/ SweepUpdateFails \/ BrokerCrash
  <2>1. stream' = stream /\ \A o : Stored(o)' = Stored(o)
    BY <1>2 DEF SweepReadFails, SweepUpdateFails, BrokerCrash, storeVars, Stored, Owned
  <2>2. /\ \A c \in Channel : /\ OwedMsgs(c)' \in {0, OwedMsgs(c)}
                              /\ OwedBytes(c)' \in {0, OwedBytes(c)}
        /\ \A o \in Account : OwedAcct(o)' \in {0, OwedAcct(o)}
    BY <1>1, <1>2 DEF SweepReadFails, SweepUpdateFails, BrokerCrash,
                      OwedMsgs, OwedBytes, OwedAcct
  <2>3. ASSUME NEW c \in Channel
        PROVE  SlackMsgs(c)' >= SlackMsgs(c) /\ SlackBytes(c)' >= SlackBytes(c)
    <3>1. /\ OwedMsgs(c) \in Nat /\ OwedBytes(c) \in Nat
          /\ OwedMsgs(c)' \in {0, OwedMsgs(c)} /\ OwedBytes(c)' \in {0, OwedBytes(c)}
          /\ msgs[c] \in Int /\ bytes[c] \in Int
          /\ Cardinality(stream[c]) \in Nat /\ TotalSize(stream[c]) \in Nat
      BY <2>2, LedgerTypes
    <3>2. /\ SlackMsgs(c)' = msgs[c] - Cardinality(stream[c]) - OwedMsgs(c)'
          /\ SlackBytes(c)' = bytes[c] - TotalSize(stream[c]) - OwedBytes(c)'
      BY <1>1, <2>1 DEF SlackMsgs, SlackBytes
    <3> QED
      BY <3>1, <3>2 DEF SlackMsgs, SlackBytes
  <2>4. ASSUME NEW o \in Account PROVE SlackAcct(o)' >= SlackAcct(o)
    <3>1. /\ OwedAcct(o) \in Nat /\ OwedAcct(o)' \in {0, OwedAcct(o)}
          /\ acct[o] \in Int /\ Stored(o) \in Nat
      BY <2>2, LedgerTypes
    <3>2. SlackAcct(o)' = acct[o] - Stored(o) - OwedAcct(o)'
      BY <1>1, <2>1 DEF SlackAcct
    <3> QED
      BY <3>1, <3>2 DEF SlackAcct
  <2> QED
    BY <1>1, <2>3, <2>4 DEF SlackGrows
<1>3. ASSUME NEW e \in expired, NEW executed \in BOOLEAN, SweepDeleteFails(e, executed)
      PROVE  SlackGrows
  <2>1. /\ UNCHANGED <<sweep, at, victim>>
        /\ stream' = stream \/ stream' = [stream EXCEPT ![at] = @ \ {e}]
    BY <1>3 DEF SweepDeleteFails
  <2>2. CASE stream' = stream
    <3>1. SlackKept
      BY <1>1, <2>1, <2>2, SlackStays
    <3> QED
      BY <3>1, SlackTypes DEF SlackKept, SlackGrows, SlackIsInt
  <2>3. CASE stream' = [stream EXCEPT ![at] = @ \ {e}] /\ stream' # stream
    <3>1. e \in stream[at]
      BY <2>3 DEF Inv, TypeOK
    <3>2. /\ \A c : OwedMsgs(c)' = OwedMsgs(c) /\ OwedBytes(c)' = OwedBytes(c)
          /\ \A o : OwedAcct(o)' = OwedAcct(o)
      BY <2>1 DEF OwedMsgs, OwedBytes, OwedAcct
    <3>3. ASSUME NEW c \in Channel
          PROVE  SlackMsgs(c)' >= SlackMsgs(c) /\ SlackBytes(c)' >= SlackBytes(c)
      <4>1. /\ Cardinality(stream'[c])
                 = Cardinality(stream[c]) - (IF c = at THEN 1 ELSE 0)
            /\ TotalSize(stream'[c])
                 = TotalSize(stream[c]) - (IF c = at THEN e.size ELSE 0)
            /\ e.size \in Nat
        BY <2>3, <3>1, DeleteEffect
      <4>2. /\ Cardinality(stream[c]) \in Nat /\ TotalSize(stream[c]) \in Nat
            /\ msgs[c] \in Int /\ bytes[c] \in Int
            /\ msgs'[c] = msgs[c] /\ bytes'[c] = bytes[c]
            /\ OwedMsgs(c) \in Nat /\ OwedBytes(c) \in Nat
        BY <1>1, LedgerTypes
      <4> QED
        BY <3>2, <4>1, <4>2 DEF SlackMsgs, SlackBytes
    <3>4. ASSUME NEW o \in Account PROVE SlackAcct(o)' >= SlackAcct(o)
      <4>1. /\ Stored(o)' = Stored(o) - (IF owner[at] = o THEN e.size ELSE 0)
            /\ e.size \in Nat
        BY <2>3, <3>1, DeleteEffect
      <4>2. /\ Stored(o) \in Nat /\ acct[o] \in Int /\ acct'[o] = acct[o]
            /\ OwedAcct(o) \in Nat
        BY <1>1, LedgerTypes
      <4> QED
        BY <3>2, <4>1, <4>2 DEF SlackAcct
    <3> QED
      BY <3>3, <3>4 DEF SlackGrows
  <2> QED
    BY <2>1, <2>2, <2>3
<1> QED
  BY <1>1, <1>2, <1>3

\* No step lowers the slack of a counter, and only a fault changes it.
LEMMA SlackStep ==
    ASSUME Inv, [Next]_vars
    PROVE  (SlackKept /\ faults' = faults) \/ (SlackGrows /\ faults' # 0)
<1>1. ASSUME NEW a \in Appender, NEW t \in 0..now, AppendStores(a, t)
      PROVE  SlackKept /\ faults' = faults
  <2>1. PICK c \in Channel, e \in Message :
               \E P \in SUBSET (stream[c] \cup {e}) :
                  e \notin stream[c] /\ AppendDoes(a, c, e, P)
    BY <1>1, AppendOutcome DEF Inv
  <2> QED
    BY <2>1, SlackAppend DEF AppendDoes
<1>2. CASE \/ \E a \in Appender, c \in Channel, size \in Size : AppendReads(a, c, size)
           \/ \E a \in Appender : AppendRejected(a)
           \/ \E c \in Channel : \E lim \in Limit[c] : SetChannelLimits(c, lim)
           \/ Tick
           \/ UNCHANGED vars
  <2>1. UNCHANGED <<stream, bytes, msgs, acct, sweep, at, victim, faults>>
    BY <1>2 DEF AppendReads, AppendRejected, SetChannelLimits, Tick, vars, storeVars,
                sweepVars
  <2> QED
    BY <2>1, SlackStays
<1>3. CASE SweepStart \/ SweepAdvance \/ \E c \in Channel : SweepChannel(c)
  <2>1. /\ UNCHANGED <<stream, bytes, msgs, acct, faults>>
        /\ sweep \notin {"bytes", "msgs", "acct"}
        /\ sweep' \notin {"bytes", "msgs", "acct"}
    BY <1>3 DEF SweepStart, SweepAdvance, SweepChannel, storeVars
  <2> QED
    BY <2>1, SlackStays
<1>4. CASE \E e \in expired : SweepDelete(e)
  BY <1>4, SlackSweepDelete DEF SweepDelete
<1>5. CASE SweepBytes \/ SweepMsgs \/ SweepAcct
  BY <1>5, SlackCorrect DEF SweepBytes, SweepMsgs, SweepAcct
<1>6. CASE \/ SweepReadFails \/ SweepUpdateFails
           \/ \E e \in expired, executed \in BOOLEAN : SweepDeleteFails(e, executed)
           \/ BrokerCrash
  BY <1>6, SlackFault
<1> QED
  BY <1>1, <1>2, <1>3, <1>4, <1>5, <1>6, StepCases

\* The inductive invariant of the counters.
Ledger ==
    /\ \A c \in Channel : SlackMsgs(c) >= 0 /\ SlackBytes(c) >= 0
    /\ \A o \in Account : SlackAcct(o) >= 0
    /\ faults = 0 =>
          /\ \A c \in Channel : SlackMsgs(c) = 0 /\ SlackBytes(c) = 0
          /\ \A o \in Account : SlackAcct(o) = 0

LEMMA LedgerStep == ASSUME Inv, Ledger, [Next]_vars PROVE Ledger'
<1>1. CASE SlackKept /\ faults' = faults
  BY <1>1 DEF SlackKept, Ledger
<1>2. CASE SlackGrows /\ faults' # 0
  <2>1. Inv'
    BY InvStep
  <2>2. SlackIsInt /\ SlackIsInt'
    BY <2>1, SlackTypes, PTL
  <2>3. \A x, y \in Int : x >= y /\ y >= 0 => x >= 0
    OBVIOUS
  <2> QED
    BY <1>2, <2>2, <2>3 DEF SlackGrows, SlackIsInt, Ledger
<1> QED
  BY <1>1, <1>2, SlackStep

LEMMA LedgerAlways == Spec => []Ledger
<1>1. Init => Ledger
  <2>1. SUFFICES ASSUME Init PROVE Ledger
    OBVIOUS
  <2>2. /\ sweep = "idle" /\ faults = 0
        /\ \A c \in Channel : stream[c] = {} /\ bytes[c] = 0 /\ msgs[c] = 0
        /\ \A o \in Account : acct[o] = 0
    BY <2>1 DEF Init
  <2>3. \A c \in Channel : Cardinality(stream[c]) = 0 /\ TotalSize(stream[c]) = 0
    <3>1. Bytes({}) = {}
      BY DEF Bytes
    <3> QED
      BY <2>2, <3>1, FS_EmptySet DEF TotalSize
  <2>4. \A o \in Account : Stored(o) = 0
    <3>1. ASSUME NEW o \in Account
          PROVE  UNION {{c} \X Bytes(stream[c]) : c \in Owned(o)} = {}
      BY <2>2 DEF Bytes, Owned
    <3> QED
      BY <3>1, FS_EmptySet DEF Stored
  <2>5. /\ \A c \in Channel : SlackMsgs(c) = 0 /\ SlackBytes(c) = 0
        /\ \A o \in Account : SlackAcct(o) = 0
    BY <2>2, <2>3, <2>4, NothingOwed DEF SlackMsgs, SlackBytes, SlackAcct
  <2> QED
    BY <2>5 DEF Ledger
<1>2. Inv /\ Ledger /\ [Next]_vars => Ledger'
  BY LedgerStep
<1> QED
  BY <1>1, <1>2, InvAlways, PTL DEF Spec

\* Without faults the usage counters are exact, up to the one message the sweeper
\* has deleted and not yet accounted for.
THEOREM CountersExactHolds == Spec => []CountersExact
<1>1. Inv /\ Ledger => CountersExact
  <2>1. SUFFICES ASSUME Inv, Ledger, faults = 0 PROVE CountersExact
    BY DEF CountersExact
  <2>2. ASSUME NEW c \in Channel
        PROVE  /\ msgs[c] = Cardinality(stream[c]) + OwedMsgs(c)
               /\ bytes[c] = TotalSize(stream[c]) + OwedBytes(c)
    <3>1. SlackMsgs(c) = 0 /\ SlackBytes(c) = 0
      BY <2>1 DEF Ledger
    <3>2. /\ msgs[c] \in Int /\ bytes[c] \in Int /\ OwedMsgs(c) \in Nat
          /\ OwedBytes(c) \in Nat
          /\ Cardinality(stream[c]) \in Nat /\ TotalSize(stream[c]) \in Nat
      BY <2>1, LedgerTypes
    <3>3. msgs[c] = Cardinality(stream[c]) + OwedMsgs(c)
      BY <3>1, <3>2 DEF SlackMsgs
    <3>4. bytes[c] = TotalSize(stream[c]) + OwedBytes(c)
      BY <3>1, <3>2 DEF SlackBytes
    <3> QED
      BY <3>3, <3>4
  <2>3. ASSUME NEW o \in Account PROVE acct[o] = Stored(o) + OwedAcct(o)
    <3>1. SlackAcct(o) = 0
      BY <2>1 DEF Ledger
    <3>2. acct[o] \in Int /\ OwedAcct(o) \in Nat /\ Stored(o) \in Nat
      BY <2>1, LedgerTypes
    <3> QED
      BY <3>1, <3>2 DEF SlackAcct
  <2> QED
    BY <2>2, <2>3 DEF CountersExact
<1> QED
  BY <1>1, InvAlways, LedgerAlways, PTL

LEMMA LedgerCovers == Inv /\ Ledger => NeverUndercounted
<1>1. SUFFICES ASSUME Inv, Ledger PROVE NeverUndercounted
  OBVIOUS
<1>2. ASSUME NEW c \in Channel
      PROVE  msgs[c] >= Cardinality(stream[c]) /\ bytes[c] >= TotalSize(stream[c])
  <2>1. SlackMsgs(c) >= 0 /\ SlackBytes(c) >= 0
    BY <1>1 DEF Ledger
  <2>2. /\ msgs[c] \in Int /\ bytes[c] \in Int /\ OwedMsgs(c) \in Nat
        /\ OwedBytes(c) \in Nat
        /\ Cardinality(stream[c]) \in Nat /\ TotalSize(stream[c]) \in Nat
    BY <1>1, LedgerTypes
  <2> QED
    BY <2>1, <2>2 DEF SlackMsgs, SlackBytes
<1>3. ASSUME NEW o \in Account PROVE acct[o] >= Stored(o)
  <2>1. SlackAcct(o) >= 0
    BY <1>1 DEF Ledger
  <2>2. acct[o] \in Int /\ OwedAcct(o) \in Nat /\ Stored(o) \in Nat
    BY <1>1, LedgerTypes
  <2> QED
    BY <2>1, <2>2 DEF SlackAcct
<1> QED
  BY <1>2, <1>3 DEF NeverUndercounted

\* Failed commands and crashes may leave a counter too high, never too low.
THEOREM NeverUndercountedHolds == Spec => []NeverUndercounted
  BY LedgerCovers, InvAlways, LedgerAlways, PTL

-----------------------------------------------------------------------------
(* The account quota *)

\* The account's counter stays within the quota.
WithinQuota == AcctCap > 0 => \A o \in Account : acct[o] <= AcctCap

LEMMA WithinQuotaStep == ASSUME Inv, WithinQuota, [Next]_vars PROVE WithinQuota'
<1> SUFFICES ASSUME AcctCap > 0, NEW o \in Account PROVE acct'[o] <= AcctCap
  BY DEF WithinQuota
<1>0. acct \in [Account -> Int] /\ acct[o] <= AcctCap /\ AcctCap \in Nat
  BY RetentionAssumption DEF Inv, TypeOK, WithinQuota
<1>1. ASSUME NEW a \in Appender, NEW t \in 0..now, AppendStores(a, t)
      PROVE  acct'[o] <= AcctCap
  <2>1. PICK c \in Channel, e \in Message :
               \E P \in SUBSET (stream[c] \cup {e}) :
                  e \notin stream[c] /\ AppendDoes(a, c, e, P)
    BY <1>1, AppendOutcome DEF Inv
  <2>2. PICK P \in SUBSET (stream[c] \cup {e}) :
               e \notin stream[c] /\ AppendDoes(a, c, e, P)
    BY <2>1
  <2>3. ~ OverQuota(c, e.size) /\ AddToAccount(c, e.size - TotalSize(P))
    BY <2>2 DEF AppendDoes
  <2>4. TotalSize(P) \in Nat /\ e.size \in Nat
    <3>1. /\ stream[c] \in SUBSET Message /\ IsFiniteSet(stream[c])
      BY DEF Inv, TypeOK, Finite
    <3>2. stream[c] \cup {e} \in SUBSET Message /\ IsFiniteSet(stream[c] \cup {e})
      BY <2>2, <3>1, SizeAdded
    <3> QED
      BY <3>2, SizeTaken, MessageFields
  <2>5. acct'[o] = IF owner[c] = o THEN acct[o] + (e.size - TotalSize(P)) ELSE acct[o]
    BY <1>0, <2>3, <2>4, AccountStep
  <2>6. CASE owner[c] = o
    <3>1. HasOwner(c)
      BY <2>6, RetentionAssumption DEF HasOwner
    <3>2. acct[o] + e.size <= AcctCap
      BY <1>0, <2>3, <2>4, <2>6, <3>1 DEF OverQuota
    <3> QED
      BY <1>0, <2>4, <2>5, <2>6, <3>2
  <2>7. CASE owner[c] # o
    BY <1>0, <2>5, <2>7
  <2> QED
    BY <2>6, <2>7
<1>2. CASE SweepAcct
  <2>1. at \in Channel /\ victim.size \in Nat /\ AddToAccount(at, - victim.size)
    BY <1>2, LedgerTypes DEF SweepAcct
  <2>2. acct'[o] = IF owner[at] = o THEN acct[o] + (- victim.size) ELSE acct[o]
    BY <1>0, <2>1, AccountStep
  <2> QED
    BY <1>0, <2>1, <2>2
<1>3. CASE acct' = acct
  BY <1>0, <1>3
<1>4. CASE \/ \E a \in Appender, c \in Channel, size \in Size : AppendReads(a, c, size)
           \/ \E a \in Appender : AppendRejected(a)
           \/ SweepStart \/ SweepBytes \/ SweepMsgs \/ SweepAdvance
           \/ \E c \in Channel : SweepChannel(c)
           \/ \E e \in expired : SweepDelete(e)
  BY <1>3, <1>4 DEF AppendReads, AppendRejected, SweepStart, SweepBytes, SweepMsgs,
                    SweepAdvance, SweepChannel, SweepDelete, storeVars
<1>5. CASE \/ SweepReadFails \/ SweepUpdateFails \/ BrokerCrash
           \/ \E e \in expired, executed \in BOOLEAN : SweepDeleteFails(e, executed)
           \/ \E c \in Channel : \E lim \in Limit[c] : SetChannelLimits(c, lim)
           \/ Tick \/ UNCHANGED vars
  BY <1>3, <1>5 DEF SweepReadFails, SweepUpdateFails, BrokerCrash, SweepDeleteFails,
                    SetChannelLimits, Tick, vars, storeVars
<1> QED
  BY <1>1, <1>2, <1>4, <1>5, StepCases

\* Over all its channels, with concurrent appends and a sweeper that may fail, an
\* account never has more stored than its quota.
THEOREM QuotaHoldsAlways == Spec => []QuotaHolds
<1>1. Init => WithinQuota
  BY RetentionAssumption DEF Init, WithinQuota
<1>2. Inv /\ WithinQuota /\ [Next]_vars => WithinQuota'
  BY WithinQuotaStep
<1>3. Inv /\ Ledger /\ WithinQuota => QuotaHolds
  <2>1. SUFFICES ASSUME Inv, Ledger, WithinQuota, AcctCap > 0, NEW o \in Account
        PROVE Stored(o) <= AcctCap
    BY DEF QuotaHolds
  <2>2. acct[o] >= Stored(o)
    BY <2>1, LedgerCovers DEF NeverUndercounted
  <2>3. acct[o] <= AcctCap
    BY <2>1 DEF WithinQuota
  <2>4. acct[o] \in Int /\ Stored(o) \in Nat /\ AcctCap \in Nat
    BY <2>1, LedgerTypes, RetentionAssumption
  <2> QED
    BY <2>2, <2>3, <2>4
<1> QED
  BY <1>1, <1>2, <1>3, InvAlways, LedgerAlways, PTL DEF Spec

-----------------------------------------------------------------------------
(* What an append evicts and what disappears *)

\* What fits on the counters fits in the stream they never understate.
LEMMA CapsDown ==
    ASSUME NEW lim \in AnyLimit, NEW b \in Int, NEW m \in Int, NEW x \in Nat, NEW y \in Nat,
           x <= b, y <= m, ~ OverCaps(lim, b, m)
    PROVE  ~ OverCaps(lim, x, y)
  BY LimitFields DEF OverCaps

\* A step in which a's append script stored a message is that append.
LEMMA StoresIsAppend ==
    ASSUME Inv, [Next]_vars, NEW a \in Appender, NEW c \in Channel, Stores(a, c)
    PROVE  \E e \in Message : \E P \in SUBSET (stream[c] \cup {e}) :
              e \notin stream[c] /\ AppendDoes(a, c, e, P)
<1>1. call[a].busy /\ ~ call'[a].busy /\ call[a].chan = c /\ nextSeq'[c] # nextSeq[c]
  BY DEF Stores
<1>2. \E d \in Appender, t \in 0..now : AppendStores(d, t)
  <2>1. ~ UNCHANGED nextSeq
    BY <1>1
  <2> QED
    BY <2>1, StepCases DEF AppendReads, AppendRejected, SweepStart, SweepChannel,
       SweepDelete, SweepBytes, SweepMsgs, SweepAcct, SweepAdvance, SweepReadFails,
       SweepUpdateFails, SweepDeleteFails, BrokerCrash, SetChannelLimits, Tick, vars, storeVars
<1>3. PICK d \in Appender, t \in 0..now : AppendStores(d, t)
  BY <1>2
<1>4. PICK x \in Channel, e \in Message :
             \E P \in SUBSET (stream[x] \cup {e}) :
                e \notin stream[x] /\ AppendDoes(d, x, e, P)
  BY <1>3, AppendOutcome DEF Inv
<1>5. call' = [call EXCEPT ![d] = Idle] /\ x = call[d].chan
  BY <1>4 DEF AppendDoes
<1>6. d = a
  BY <1>1, <1>5 DEF Inv, TypeOK
<1> QED
  BY <1>1, <1>4, <1>5, <1>6

LEMMA AppendFits ==
    ASSUME Inv, Ledger, [Next]_vars, NEW a \in Appender, NEW c \in Channel, Stores(a, c)
    PROVE  \/ stream'[c] = {}
           \/ ~ OverCaps(call[a].lim, TotalSize(stream'[c]), Cardinality(stream'[c]))
<1>1. PICK e \in Message : \E P \in SUBSET (stream[c] \cup {e}) :
              e \notin stream[c] /\ AppendDoes(a, c, e, P)
  BY StoresIsAppend
<1>2. PICK P \in SUBSET (stream[c] \cup {e}) :
              e \notin stream[c] /\ AppendDoes(a, c, e, P)
  BY <1>1
<1> DEFINE S == stream[c] \cup {e}
           lim == call[a].lim
           b == bytes[c] + e.size - TotalSize(P)
           m == msgs[c] + 1 - Cardinality(P)
<1>3. /\ call[a].busy
      /\ EvictionStops(lim, bytes[c] + e.size, msgs[c] + 1, S, P)
      /\ stream' = [stream EXCEPT ![c] = S \ P]
  BY <1>2 DEF AppendDoes
<1>4. /\ stream[c] \in SUBSET Message /\ IsFiniteSet(stream[c])
      /\ Cardinality(stream[c]) \in Nat /\ TotalSize(stream[c]) \in Nat
      /\ bytes[c] \in Int /\ msgs[c] \in Int /\ e.size \in Nat
  BY LedgerTypes, MessageFields
<1>5. /\ S \in SUBSET Message /\ IsFiniteSet(S)
      /\ Cardinality(S) = Cardinality(stream[c]) + 1
      /\ TotalSize(S) = TotalSize(stream[c]) + e.size
  BY <1>2, <1>4, SizeAdded
<1>6. /\ Cardinality(P) \in Nat /\ TotalSize(P) \in Nat
      /\ Cardinality(S \ P) = Cardinality(S) - Cardinality(P)
      /\ TotalSize(S \ P) = TotalSize(S) - TotalSize(P)
      /\ Cardinality(S \ P) \in Nat /\ TotalSize(S \ P) \in Nat
  BY <1>5, SizeTaken
<1>7. stream'[c] = S \ P
  BY <1>3 DEF Inv, TypeOK
<1>8. CASE P = S
  BY <1>7, <1>8
<1>9. CASE ~ OverCaps(lim, b, m)
  <2>1. msgs[c] >= Cardinality(stream[c]) /\ bytes[c] >= TotalSize(stream[c])
    BY LedgerCovers DEF NeverUndercounted
  <2>2. /\ b \in Int /\ m \in Int
        /\ TotalSize(S \ P) <= b /\ Cardinality(S \ P) <= m
    BY <1>4, <1>5, <1>6, <2>1
  <2>3. lim \in AnyLimit
    BY <1>3, CallFields DEF Inv
  <2> HIDE DEF b, m, lim, S
  <2>4. ~ OverCaps(lim, TotalSize(S \ P), Cardinality(S \ P))
    BY <1>6, <1>9, <2>2, <2>3, CapsDown
  <2> QED
    BY <1>7, <2>4 DEF lim
<1>10. P = S \/ ~ OverCaps(lim, b, m)
  BY <1>3, <1>4, <1>6 DEF EvictionStops, OverCaps
<1> QED
  BY <1>8, <1>9, <1>10

\* After an append the channel really holds no more than its limits allow.
THEOREM AppendFitsCapsHolds == Spec => AppendFitsCaps
<1>1. Inv /\ Ledger /\ [Next]_vars =>
        [\A a \in Appender, c \in Channel : Stores(a, c) =>
            \/ stream'[c] = {}
            \/ ~ OverCaps(call[a].lim, TotalSize(stream'[c]),
                          Cardinality(stream'[c]))]_vars
  BY AppendFits
<1> QED
  BY <1>1, InvAlways, LedgerAlways, PTL DEF Spec, AppendFitsCaps

LEMMA GoneStep ==
    ASSUME Inv, [Next]_vars, NEW c \in Channel, NEW e \in stream[c] \ stream'[c]
    PROVE  \/ e.exp # 0 /\ e.exp <= now
           \/ \E a \in Appender : Stores(a, c) /\ \A d \in stream'[c] : e.seq < d.seq
<1>0. /\ stream \in [Channel -> SUBSET Message] /\ nextSeq \in [Channel -> Nat \ {0}]
      /\ call \in [Appender -> Call \cup {Idle}]
      /\ now \in Nat /\ sweepNow \in Nat /\ sweepNow <= now
      /\ \A x \in expired : x.exp # 0 /\ x.exp <= sweepNow /\ x \in Message
      /\ e.exp \in Nat
  BY MessageFields DEF Inv, TypeOK, SweepInv
<1>1. ASSUME NEW a \in Appender, NEW t \in 0..now, AppendStores(a, t)
      PROVE  Stores(a, c) /\ \A d \in stream'[c] : e.seq < d.seq
  <2>1. PICK x \in Channel, new \in Message :
               \E P \in SUBSET (stream[x] \cup {new}) :
                  new \notin stream[x] /\ AppendDoes(a, x, new, P)
    BY <1>1, AppendOutcome DEF Inv
  <2>2. PICK P \in SUBSET (stream[x] \cup {new}) :
                  new \notin stream[x] /\ AppendDoes(a, x, new, P)
    BY <2>1
  <2>3. /\ stream' = [stream EXCEPT ![x] = (stream[x] \cup {new}) \ P]
        /\ Oldest(stream[x] \cup {new}, P)
        /\ call[a].busy /\ call[a].chan = x
        /\ nextSeq' = [nextSeq EXCEPT ![x] = @ + 1]
        /\ call' = [call EXCEPT ![a] = Idle]
    BY <2>2 DEF AppendDoes
  <2>4. x = c
    BY <1>0, <2>3
  <2>5. e \in P /\ stream'[c] = (stream[c] \cup {new}) \ P
    BY <1>0, <2>3, <2>4
  <2>6. \A d \in stream'[c] : e.seq < d.seq
    BY <2>3, <2>4, <2>5 DEF Oldest
  <2>7. ~ call'[a].busy
    BY <1>0, <2>3 DEF Idle
  <2>8. nextSeq'[c] # nextSeq[c]
    BY <1>0, <2>3, <2>4
  <2> QED
    BY <2>3, <2>4, <2>6, <2>7, <2>8 DEF Stores
<1>2. ASSUME NEW x \in expired,
             \/ SweepDelete(x)
             \/ \E executed \in BOOLEAN : SweepDeleteFails(x, executed)
      PROVE  e.exp # 0 /\ e.exp <= now
  <2>1. stream' = stream \/ stream' = [stream EXCEPT ![at] = @ \ {x}]
    BY <1>2 DEF SweepDelete, SweepDeleteFails
  <2>2. e = x
    BY <1>0, <2>1
  <2> QED
    BY <1>0, <2>2
<1>3. stream' # stream
  OBVIOUS
<1> QED
  BY <1>1, <1>2, <1>3, StepCases
     DEF AppendReads, AppendRejected, SweepStart, SweepChannel, SweepBytes, SweepMsgs,
         SweepAcct, SweepAdvance, SweepReadFails, SweepUpdateFails, BrokerCrash, SetChannelLimits,
         Tick, vars, storeVars

\* A message disappears because it is past its expiry or is older than all that an
\* append left behind.
THEOREM GoneForAReasonHolds == Spec => GoneForAReason
<1>1. Inv /\ [Next]_vars =>
        [\A c \in Channel : \A e \in stream[c] \ stream'[c] :
            \/ e.exp # 0 /\ e.exp <= now
            \/ \E a \in Appender :
                  Stores(a, c) /\ \A d \in stream'[c] : e.seq < d.seq]_vars
  BY GoneStep
<1> QED
  BY <1>1, InvAlways, PTL DEF Spec, GoneForAReason

-----------------------------------------------------------------------------
(* Every channel is a shelf *)

\* No two entries of a channel have the same seq.
Apart(S) == \A d, e \in S : d.seq = e.seq => d = e
Keyed == \A c \in Channel : Apart(stream[c])

LEMMA SeqsTaken ==
    ASSUME NEW S, Apart(S), NEW A \in SUBSET S, NEW P \in SUBSET S
    PROVE  Seqs(A \ P) = Seqs(A) \ Seqs(P)
<1>1. ASSUME NEW k \in Seqs(A \ P) PROVE k \in Seqs(A) \ Seqs(P)
  <2>1. PICK d \in A \ P : k = d.seq
    BY <1>1 DEF Seqs
  <2>2. \A e \in P : e.seq # k
    BY <2>1 DEF Apart
  <2> QED
    BY <2>1, <2>2 DEF Seqs
<1>2. ASSUME NEW k \in Seqs(A) \ Seqs(P) PROVE k \in Seqs(A \ P)
  BY <1>2 DEF Seqs
<1> QED
  BY <1>1, <1>2

\* What one step does to a channel's entries, as far as the shelf goes.
Adds(c) ==
    \E new, P :
        /\ new.seq = nextSeq[c]
        /\ P \in SUBSET (stream[c] \cup {new})
        /\ Oldest(stream[c] \cup {new}, P)
        /\ stream'[c] = (stream[c] \cup {new}) \ P
        /\ nextSeq'[c] = nextSeq[c] + 1
        /\ now' = now

Drops(c) ==
    \E e \in Expired(c) :
        /\ stream'[c] = stream[c] \ {e}
        /\ nextSeq'[c] = nextSeq[c]
        /\ now' = now

Keeps(c) == stream'[c] = stream[c] /\ nextSeq'[c] = nextSeq[c] /\ now <= now'

LEMMA ShelfCases ==
    ASSUME Inv, [Next]_vars, NEW c \in Channel
    PROVE  Adds(c) \/ Drops(c) \/ Keeps(c)
<1>0. /\ stream \in [Channel -> SUBSET Message] /\ nextSeq \in [Channel -> Nat \ {0}]
      /\ at \in Channel /\ now \in Nat /\ sweepNow \in Nat /\ sweepNow <= now
      /\ \A e \in expired : e.exp # 0 /\ e.exp <= sweepNow /\ e.exp \in Nat
  BY MessageFields DEF Inv, TypeOK, SweepInv
<1>1. now <= now'
  BY ClockStep
<1>2. ASSUME NEW a \in Appender, NEW t \in 0..now, AppendStores(a, t)
      PROVE  Adds(c) \/ Keeps(c)
  <2>1. PICK x \in Channel, new \in Message :
               \E P \in SUBSET (stream[x] \cup {new}) :
                  new \notin stream[x] /\ AppendDoes(a, x, new, P)
    BY <1>2, AppendOutcome DEF Inv
  <2>2. PICK P \in SUBSET (stream[x] \cup {new}) : AppendDoes(a, x, new, P)
    BY <2>1
  <2>3. /\ stream' = [stream EXCEPT ![x] = (stream[x] \cup {new}) \ P]
        /\ Oldest(stream[x] \cup {new}, P)
        /\ new.seq = nextSeq[x]
        /\ nextSeq' = [nextSeq EXCEPT ![x] = @ + 1]
        /\ now' = now
    BY <2>2 DEF AppendDoes
  <2>4. CASE x = c
    BY <1>0, <2>3, <2>4 DEF Adds
  <2>5. CASE x # c
    BY <1>0, <1>1, <2>3, <2>5 DEF Keeps
  <2> QED
    BY <2>4, <2>5
<1>3. ASSUME NEW e \in expired,
             \/ SweepDelete(e)
             \/ \E executed \in BOOLEAN : SweepDeleteFails(e, executed)
      PROVE  Drops(c) \/ Keeps(c)
  <2>1. /\ stream' = stream \/ stream' = [stream EXCEPT ![at] = @ \ {e}]
        /\ nextSeq' = nextSeq /\ now' = now
    BY <1>3 DEF SweepDelete, SweepDeleteFails
  <2>2. CASE stream'[c] = stream[c]
    BY <1>1, <2>1, <2>2 DEF Keeps
  <2>3. CASE stream'[c] # stream[c]
    <3>1. at = c /\ stream'[c] = stream[c] \ {e} /\ e \in stream[c]
      BY <1>0, <2>1, <2>3
    <3>2. e \in Expired(c)
      BY <1>0, <3>1 DEF Expired
    <3> QED
      BY <2>1, <3>1, <3>2 DEF Drops
  <2> QED
    BY <2>2, <2>3
<1>4. ASSUME stream' = stream, nextSeq' = nextSeq PROVE Keeps(c)
  BY <1>1, <1>4 DEF Keeps
<1> QED
  BY <1>2, <1>3, <1>4, StepCases
     DEF AppendReads, AppendRejected, SweepStart, SweepChannel, SweepBytes, SweepMsgs,
         SweepAcct, SweepAdvance, SweepReadFails, SweepUpdateFails, BrokerCrash, SetChannelLimits,
         Tick, vars, storeVars

\* An entry that is added has a seq of its own.
LEMMA AddedApart ==
    ASSUME Inv, Keyed, NEW c \in Channel, NEW new, new.seq = nextSeq[c]
    PROVE  Apart(stream[c] \cup {new})
<1>1. \A e \in stream[c] : e.seq \in Nat /\ e.seq < nextSeq[c] /\ nextSeq[c] \in Nat
  BY MessageFields DEF Inv, TypeOK
<1>2. \A e \in stream[c] : e.seq # new.seq
  BY <1>1
<1> QED
  BY <1>2 DEF Keyed, Apart

LEMMA KeyedStep == ASSUME Inv, Keyed, [Next]_vars PROVE Keyed'
<1>1. ASSUME NEW c \in Channel PROVE Apart(stream'[c])
  <2>1. CASE Adds(c)
    <3>1. PICK new, P : /\ new.seq = nextSeq[c]
                        /\ stream'[c] = (stream[c] \cup {new}) \ P
      BY <2>1 DEF Adds
    <3>2. Apart(stream[c] \cup {new})
      BY <3>1, AddedApart
    <3> QED
      BY <3>1, <3>2 DEF Apart
  <2>2. CASE Drops(c) \/ Keeps(c)
    <3>1. stream'[c] \subseteq stream[c]
      BY <2>2 DEF Drops, Keeps
    <3> QED
      BY <3>1 DEF Keyed, Apart
  <2> QED
    BY <2>1, <2>2, ShelfCases
<1> QED
  BY <1>1 DEF Keyed, Apart

LEMMA KeyedAlways == Spec => []Keyed
<1>1. Init => Keyed
  BY DEF Init, Keyed, Apart
<1>2. Inv /\ Keyed /\ [Next]_vars => Keyed'
  BY KeyedStep
<1> QED
  BY <1>1, <1>2, InvAlways, PTL DEF Spec

\* An append is an Add that pushes out what was evicted.
LEMMA ShelfAdd ==
    ASSUME Inv, Keyed, NEW c \in Channel, Adds(c)
    PROVE  AbstractShelf(c)!Add
<1>1. PICK new, P : /\ new.seq = nextSeq[c]
                    /\ P \in SUBSET (stream[c] \cup {new})
                    /\ Oldest(stream[c] \cup {new}, P)
                    /\ stream'[c] = (stream[c] \cup {new}) \ P
                    /\ nextSeq'[c] = nextSeq[c] + 1
                    /\ now' = now
  BY DEF Adds
<1> DEFINE S == stream[c] \cup {new}
           k == nextSeq[c] - 1 + 1
           entries == Seqs(stream[c]) \cup {k}
           gone == Seqs(P)
<1>2. nextSeq[c] \in Nat /\ k = nextSeq[c] /\ nextSeq'[c] - 1 = k
  BY <1>1 DEF Inv, TypeOK
<1>3. Apart(S)
  BY <1>1, AddedApart
<1>4. entries = Seqs(S)
  BY <1>1, <1>2 DEF Seqs
<1>5. gone \in SUBSET entries
  BY <1>1, <1>4 DEF Seqs
<1>6. Seqs(stream'[c]) = entries \ gone
  <2>1. Seqs(S \ P) = Seqs(S) \ Seqs(P)
    <3> HIDE DEF S
    <3> QED
      BY <1>1, <1>3, SeqsTaken DEF S
  <2> QED
    BY <1>1, <1>4, <2>1
<1>7. \A i \in gone, j \in entries \ gone : i < j
  <2>1. ASSUME NEW i \in gone, NEW j \in entries \ gone PROVE i < j
    <3>1. PICK x \in P : i = x.seq
      BY DEF Seqs
    <3>2. PICK y \in S \ P : j = y.seq
      BY <1>1, <1>6 DEF Seqs
    <3> QED
      BY <1>1, <3>1, <3>2 DEF Oldest
  <2> QED
    BY <2>1
<1> DEFINE late == IF new.exp # 0 /\ new.exp <= now THEN {new} ELSE {}
<1>8. Seqs(Expired(c)') = Seqs(Expired(c) \cup late) \ gone
  <2>1. Expired(c)' = (Expired(c) \cup late) \ P
    BY <1>1 DEF Expired
  <2>2. Expired(c) \cup late \in SUBSET S
    BY DEF Expired
  <2> HIDE DEF late, S
  <2> QED
    BY <1>1, <1>3, <2>1, <2>2, SeqsTaken DEF S
<1>9. \/ Seqs(Expired(c)') = Seqs(Expired(c)) \ gone
      \/ Seqs(Expired(c)') = (Seqs(Expired(c)) \cup {k}) \ gone
  <2>1. Seqs(Expired(c) \cup late) = Seqs(Expired(c)) \cup Seqs(late)
    BY DEF Seqs
  <2>2. Seqs(late) = {} \/ Seqs(late) = {k}
    BY <1>1, <1>2 DEF Seqs
  <2> HIDE DEF late, gone, k
  <2> QED
    BY <1>8, <2>1, <2>2
<1>10. Seqs(Expired(c))' = Seqs(Expired(c)') /\ Seqs(stream[c])' = Seqs(stream'[c])
  BY DEF Seqs
<1> QED
  BY <1>2, <1>5, <1>6, <1>7, <1>9, <1>10 DEF AbstractShelf!Add

\* What the sweeper deletes is past its expiry.
LEMMA ShelfRemove ==
    ASSUME Inv, Keyed, NEW c \in Channel, Drops(c)
    PROVE  \E k \in Seqs(Expired(c)) : AbstractShelf(c)!Remove(k)
<1>1. PICK e \in Expired(c) : /\ stream'[c] = stream[c] \ {e}
                              /\ nextSeq'[c] = nextSeq[c]
                              /\ now' = now
  BY DEF Drops
<1>2. Apart(stream[c]) /\ Expired(c) \in SUBSET stream[c] /\ {e} \in SUBSET stream[c]
  BY DEF Keyed, Expired
<1>3. Seqs({e}) = {e.seq} /\ e.seq \in Seqs(Expired(c))
  BY DEF Seqs
<1>4. Seqs(stream'[c]) = Seqs(stream[c]) \ {e.seq}
  BY <1>1, <1>2, <1>3, SeqsTaken
<1>5. Expired(c)' = Expired(c) \ {e}
  BY <1>1 DEF Expired
<1>6. Seqs(Expired(c)') = Seqs(Expired(c)) \ {e.seq}
  BY <1>2, <1>3, <1>5, SeqsTaken
<1>7. Seqs(Expired(c))' = Seqs(Expired(c)') /\ Seqs(stream[c])' = Seqs(stream'[c])
  BY DEF Seqs
<1>8. AbstractShelf(c)!Remove(e.seq)
  BY <1>1, <1>3, <1>4, <1>6, <1>7 DEF AbstractShelf!Remove
<1> QED
  BY <1>3, <1>8

\* Time makes entries outlive their TTL, and nothing else does.
LEMMA ShelfAge ==
    ASSUME Inv, NEW c \in Channel, Keeps(c), now' \in Nat
    PROVE  \E dead \in SUBSET Seqs(stream[c]) : AbstractShelf(c)!Age(dead)
<1> DEFINE dead == Seqs(Expired(c)')
<1>1. now \in Nat /\ \A e \in stream[c] : e.exp \in Nat
  BY MessageFields DEF Inv, TypeOK
<1>2. Expired(c) \subseteq Expired(c)' /\ Expired(c)' \subseteq stream[c]
  BY <1>1 DEF Keeps, Expired
<1>3. Seqs(Expired(c)) \subseteq dead /\ dead \subseteq Seqs(stream[c])
  BY <1>2 DEF Seqs
<1>4. Seqs(Expired(c))' = dead /\ Seqs(stream[c])' = Seqs(stream'[c])
  BY DEF Seqs
<1>5. AbstractShelf(c)!Age(dead)
  BY <1>3, <1>4 DEF AbstractShelf!Age, Keeps
<1> QED
  BY <1>3, <1>5

\* Every channel of the store is a shelf: each step adds the next seq and drops
\* the oldest entries, lets entries expire, or removes one that had.
THEOREM RetentionImplementsShelf == Spec => ImplementsShelf
<1>1. Init => \A c \in Channel : AbstractShelf(c)!Init
  BY DEF Init, AbstractShelf!Init, Seqs, Expired
<1>2. Inv /\ Keyed /\ [Next]_vars =>
        [\A c \in Channel :
            AbstractShelf(c)!Next \/ UNCHANGED AbstractShelf(c)!vars]_vars
  <2>1. ASSUME Inv, Keyed, [Next]_vars, NEW c \in Channel
        PROVE  AbstractShelf(c)!Next
    <3>1. now' \in Nat
      BY <2>1, ClockStep
    <3>2. CASE Adds(c)
      BY <2>1, <3>2, ShelfAdd DEF AbstractShelf!Next
    <3>3. CASE Drops(c)
      BY <2>1, <3>3, ShelfRemove DEF AbstractShelf!Next
    <3>4. CASE Keeps(c)
      BY <2>1, <3>1, <3>4, ShelfAge DEF AbstractShelf!Next
    <3> QED
      BY <2>1, <3>2, <3>3, <3>4, ShelfCases
  <2> QED
    BY <2>1
<1> QED
  BY <1>1, <1>2, InvAlways, KeyedAlways, PTL DEF Spec, ImplementsShelf
=============================================================================
