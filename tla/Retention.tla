----------------------------- MODULE Retention -----------------------------
(***************************************************************************)
(* Retained messages in Redis (internal/store): one stream per channel,    *)
(* its usage counters, the usage of the account that owns it, and the four *)
(* parties that touch them: Append (messages.go), the sweeper              *)
(* (PruneExpired, run by cmd/doublethink/serve.go), the operator's         *)
(* SetChannelLimits (methods.go) and the clock.                            *)
(*                                                                         *)
(* Granularity.  A Lua script or a single Redis command is one step.       *)
(* Append is GetChannel and then a script; PruneExpired is one command per *)
(* step with its position kept in variables.  Any command of the sweeper   *)
(* may fail: a read skips the sweep or the channel, and the errors of the  *)
(* others are ignored.  The broker process may crash between any two       *)
(* commands; faults counts both and MaxFaults bounds them.                 *)
(*                                                                         *)
(* A stored message is its sequence number, its expiry (0 = never) and its *)
(* size; the blob is opaque.                                               *)
(***************************************************************************)
EXTENDS Integers, FiniteSets

CONSTANTS
    Channel,      \* retained channels
    Account,      \* accounts
    NoAccount,    \* the empty owner of an anonymous channel
    owner,        \* Channel.OwnerID
    Appender,     \* goroutines that call Append
    Limit,        \* per channel: the retention limits it may be given
    Size,         \* message sizes
    AcctCap,      \* limits.BytesPerAccount (0 = no quota)
    MaxSeq,       \* bound, per channel: messages ever appended to it
    MaxNow,       \* bound: the clock
    MaxLag,       \* bound: age of the clock reading an append script is given
    MaxFaults     \* bound: failed commands and crashes

ASSUME RetentionAssumption ==
    /\ NoAccount \notin Account
    /\ owner \in [Channel -> Account \cup {NoAccount}]
    /\ IsFiniteSet(Channel) /\ Channel # {}
    /\ Limit \in [Channel -> SUBSET [ttl : Nat, maxBytes : Nat, maxMsgs : Nat]]
    /\ Size \subseteq Nat
    /\ AcctCap \in Nat
    /\ MaxSeq \in [Channel -> Nat]
    /\ MaxNow \in Nat \ {0} /\ MaxLag \in Nat
    /\ MaxFaults \in Nat

Message == [seq : Nat, exp : Nat, size : Size]
NoMessage == [seq |-> 0, exp |-> 0, size |-> 0]

VARIABLES
    now,       \* nowUnix()
    limits,    \* ch:<id>: ttl_sec, max_bytes, max_msgs
    stream,    \* ch:<id>:msgs, the set of its entries
    bytes,     \* ch:<id>:usage bytes
    msgs,      \* ch:<id>:usage msgs
    nextSeq,   \* ch:<id>:usage next_seq
    acct,      \* acct:<id>:usage bytes
    call,      \* per appender: the Append between GetChannel and its script
    sweep,     \* PruneExpired's position: "idle", "chan", "entry", "bytes",
               \* "msgs", "acct"
    sweepNow,  \* PruneExpired's now
    todo,      \* channels the sweep still has to visit
    at,        \* the channel being swept
    expired,   \* its expired entries, as XRANGE returned them
    victim,    \* the entry deleted and not yet accounted for, or NoMessage
    faults

storeVars == <<limits, stream, bytes, msgs, nextSeq, acct>>
sweepVars == <<sweep, sweepNow, todo, at, expired, victim>>
vars == <<now, storeVars, call, sweepVars, faults>>

Idle == [busy |-> FALSE]
AnyLimit == UNION {Limit[c] : c \in Channel}
Call == [busy : {TRUE}, chan : Channel, lim : AnyLimit, size : Size]

TypeOK ==
    /\ now \in 0..MaxNow
    /\ limits \in [Channel -> AnyLimit]
    /\ \A c \in Channel : limits[c] \in Limit[c]
    /\ stream \in [Channel -> SUBSET Message]
    /\ bytes \in [Channel -> Int]
    /\ msgs \in [Channel -> Int]
    /\ nextSeq \in [Channel -> Nat \ {0}]
    /\ \A c \in Channel : \A e \in stream[c] : e.seq < nextSeq[c]
    /\ acct \in [Account -> Int]
    /\ call \in [Appender -> Call \cup {Idle}]
    /\ sweep \in {"idle", "chan", "entry", "bytes", "msgs", "acct"}
    /\ sweepNow \in 0..MaxNow
    /\ todo \subseteq Channel
    /\ at \in Channel
    /\ expired \subseteq Message
    /\ victim \in Message \cup {NoMessage}
    /\ faults \in 0..MaxFaults

Init ==
    /\ now = 1
    /\ limits \in {f \in [Channel -> AnyLimit] :
                     \A c \in Channel : f[c] \in Limit[c]}
    /\ stream = [c \in Channel |-> {}]
    /\ bytes = [c \in Channel |-> 0]
    /\ msgs = [c \in Channel |-> 0]
    /\ nextSeq = [c \in Channel |-> 1]
    /\ acct = [o \in Account |-> 0]
    /\ call = [a \in Appender |-> Idle]
    /\ sweep = "idle"
    /\ sweepNow = 0
    /\ todo = {}
    /\ at = CHOOSE c \in Channel : TRUE
    /\ expired = {}
    /\ victim = NoMessage
    /\ faults = 0

-----------------------------------------------------------------------------
(* Append *)

\* GetChannel: the limits are read before the script runs, and may be changed
\* in between.
AppendReads(a, c, size) ==
    /\ ~ call[a].busy
    /\ nextSeq[c] <= MaxSeq[c]
    /\ call' = [call EXCEPT ![a] = [busy |-> TRUE, chan |-> c, lim |-> limits[c],
                                    size |-> size]]
    /\ UNCHANGED <<now, storeVars, sweepVars, faults>>

HasOwner(c) == owner[c] # NoAccount

\* Seeded fault (QuotaHolds): the quota is compared before the message is added.
OverQuotaLate(c, size) ==
    HasOwner(c) /\ AcctCap > 0 /\ acct[owner[c]] >= AcctCap

\* The account quota of the script: reject if this message would exceed it.
OverQuota(c, size) ==
    HasOwner(c) /\ AcctCap > 0 /\ acct[owner[c]] + size > AcctCap

\* The bytes of the messages of S, each told apart, and their number.
Bytes(S) == UNION {{e} \X (1 .. e.size) : e \in S}
TotalSize(S) == Cardinality(Bytes(S))

\* The eviction loop's condition, on the counters.
OverCaps(lim, b, m) ==
    \/ lim.maxMsgs > 0 /\ m > lim.maxMsgs
    \/ lim.maxBytes > 0 /\ b > lim.maxBytes

\* Seeded fault (ImplementsShelf): the stream is read from its other end.
Newest(S, P) == P \subseteq S /\ \A x \in P, y \in S \ P : x.seq > y.seq

\* The oldest entries of S.
Oldest(S, P) == P \subseteq S /\ \A x \in P, y \in S \ P : x.seq < y.seq

\* Seeded fault (AppendFitsCaps): an "if" where the script has a loop.
EvictionStopsAtOne(lim, b, m, S, P) ==
    Cardinality(P) = 1 \/ ~ OverCaps(lim, b - TotalSize(P), m - Cardinality(P))

\* The loop stops after evicting P: nothing is left, or the counters fit.
EvictionStops(lim, b, m, S, P) ==
    P = S \/ ~ OverCaps(lim, b - TotalSize(P), m - Cardinality(P))

\* What the loop evicts: the shortest run of oldest entries at which it stops.
Evicted(lim, b, m, S, P) ==
    /\ Oldest(S, P)
    /\ EvictionStops(lim, b, m, S, P)
    /\ \A Q \in SUBSET P :
          Q # P /\ Oldest(S, Q) => ~ EvictionStops(lim, b, m, S, Q)

AddToAccount(c, n) ==
    acct' = IF HasOwner(c) THEN [acct EXCEPT ![owner[c]] = @ + n] ELSE acct

\* Seeded fault (TypeOK): next_seq stays where it is.
IssueNothing(c) == UNCHANGED nextSeq

Issue(c) == nextSeq' = [nextSeq EXCEPT ![c] = @ + 1]

\* The script accepts: sequence number, expiry, XADD, counters, eviction.  t is
\* the clock when the arguments were evaluated.
AppendStores(a, t) ==
    LET c == call[a].chan
        lim == call[a].lim
        e == [seq |-> nextSeq[c],
              exp |-> IF lim.ttl > 0 THEN t + lim.ttl ELSE 0,
              size |-> call[a].size]
        S == stream[c] \cup {e}
    IN
    /\ call[a].busy
    /\ nextSeq[c] <= MaxSeq[c]
    /\ ~ OverQuota(c, e.size)
    /\ \E P \in SUBSET S :
          /\ Evicted(lim, bytes[c] + e.size, msgs[c] + 1, S, P)
          /\ stream' = [stream EXCEPT ![c] = S \ P]
          /\ bytes' = [bytes EXCEPT ![c] = @ + e.size - TotalSize(P)]
          /\ msgs' = [msgs EXCEPT ![c] = @ + 1 - Cardinality(P)]
          /\ AddToAccount(c, e.size - TotalSize(P))
    /\ Issue(c)
    /\ call' = [call EXCEPT ![a] = Idle]
    /\ UNCHANGED <<now, limits, sweepVars, faults>>

\* The script answers QUOTA_ACCT and changes nothing.
AppendRejected(a) ==
    /\ call[a].busy
    /\ OverQuota(call[a].chan, call[a].size)
    /\ call' = [call EXCEPT ![a] = Idle]
    /\ UNCHANGED <<now, storeVars, sweepVars, faults>>

-----------------------------------------------------------------------------
(* PruneExpired *)

\* The ticker fires: SMEMBERS chans, and one reading of the clock.
SweepStart ==
    /\ sweep = "idle"
    /\ sweep' = "chan"
    /\ sweepNow' = now
    /\ todo' = Channel
    /\ UNCHANGED <<now, storeVars, call, at, expired, victim, faults>>

\* Seeded fault (GoneForAReason): exp = 0 is not taken for "never".
SweepChannelAll(c) ==
    /\ sweep = "chan"
    /\ c \in todo
    /\ todo' = todo \ {c}
    /\ at' = c
    /\ expired' = {e \in stream[c] : e.exp <= sweepNow}
    /\ sweep' = "entry"
    /\ UNCHANGED <<now, storeVars, call, sweepNow, victim, faults>>

\* XRANGE of the next channel; entries that never expire or not yet are skipped.
SweepChannel(c) ==
    /\ sweep = "chan"
    /\ c \in todo
    /\ todo' = todo \ {c}
    /\ at' = c
    /\ expired' = {e \in stream[c] : e.exp # 0 /\ e.exp <= sweepNow}
    /\ sweep' = "entry"
    /\ UNCHANGED <<now, storeVars, call, sweepNow, victim, faults>>

IsFirst(e, S) == e \in S /\ \A d \in S : e.seq <= d.seq

\* Seeded fault (CountersExact, NeverUndercounted): what XDEL answers is ignored.
SweepDeleteUnchecked(e) ==
    /\ sweep = "entry"
    /\ IsFirst(e, expired)
    /\ expired' = expired \ {e}
    /\ stream' = [stream EXCEPT ![at] = @ \ {e}]
    /\ sweep' = "bytes" /\ victim' = e
    /\ UNCHANGED <<now, limits, bytes, msgs, nextSeq, acct, call, sweepNow, todo,
                   at, faults>>

\* XDEL of the next expired entry; one that is already gone is skipped.
SweepDelete(e) ==
    /\ sweep = "entry"
    /\ IsFirst(e, expired)
    /\ expired' = expired \ {e}
    /\ stream' = [stream EXCEPT ![at] = @ \ {e}]
    /\ IF e \in stream[at] THEN sweep' = "bytes" /\ victim' = e
                           ELSE UNCHANGED <<sweep, victim>>
    /\ UNCHANGED <<now, limits, bytes, msgs, nextSeq, acct, call, sweepNow, todo,
                   at, faults>>

SweepBytes ==
    /\ sweep = "bytes"
    /\ bytes' = [bytes EXCEPT ![at] = @ - victim.size]
    /\ sweep' = "msgs"
    /\ UNCHANGED <<now, limits, stream, msgs, nextSeq, acct, call, sweepNow, todo,
                   at, expired, victim, faults>>

SweepMsgs ==
    /\ sweep = "msgs"
    /\ msgs' = [msgs EXCEPT ![at] = @ - 1]
    /\ sweep' = "acct"
    /\ UNCHANGED <<now, limits, stream, bytes, nextSeq, acct, call, sweepNow,
                   todo, at, expired, victim, faults>>

SweepAcct ==
    /\ sweep = "acct"
    /\ AddToAccount(at, - victim.size)
    /\ sweep' = "entry"
    /\ victim' = NoMessage
    /\ UNCHANGED <<now, limits, stream, bytes, msgs, nextSeq, call, sweepNow,
                   todo, at, expired, faults>>

\* Seeded fault (ExpiredIsSwept): the sweeper runs once instead of periodically.
SweepAdvanceOnce ==
    /\ sweep = "entry" /\ expired = {} /\ sweep' = "chan"
    /\ UNCHANGED <<now, storeVars, call, sweepNow, todo, at, expired, victim,
                   faults>>

\* No expired entry left in this channel; no channel left in this sweep.
SweepAdvance ==
    /\ \/ sweep = "entry" /\ expired = {} /\ sweep' = "chan" /\ UNCHANGED sweepNow
       \/ sweep = "chan" /\ todo = {} /\ sweep' = "idle" /\ sweepNow' = 0
    /\ UNCHANGED <<now, storeVars, call, todo, at, expired, victim, faults>>

-----------------------------------------------------------------------------
(* Failures, the operator, the clock *)

Fault == faults < MaxFaults /\ faults' = faults + 1

\* SMEMBERS fails and the sweep is over, or XRANGE does and the channel is skipped.
SweepReadFails ==
    /\ Fault
    /\ \/ sweep = "idle" /\ UNCHANGED todo
       \/ sweep = "chan" /\ \E c \in todo : todo' = todo \ {c}
    /\ UNCHANGED <<now, storeVars, call, sweep, sweepNow, at, expired, victim>>

\* A counter update of the sweeper fails; its error is ignored.
SweepUpdateFails ==
    /\ Fault
    /\ \/ sweep = "bytes" /\ sweep' = "msgs" /\ UNCHANGED victim
       \/ sweep = "msgs" /\ sweep' = "acct" /\ UNCHANGED victim
       \/ sweep = "acct" /\ sweep' = "entry" /\ victim' = NoMessage
    /\ UNCHANGED <<now, storeVars, call, sweepNow, todo, at, expired>>

\* XDEL reports an error (n = 0), whether or not Redis executed it.
SweepDeleteFails(e, executed) ==
    /\ Fault
    /\ sweep = "entry"
    /\ IsFirst(e, expired)
    /\ expired' = expired \ {e}
    /\ stream' = IF executed THEN [stream EXCEPT ![at] = @ \ {e}] ELSE stream
    /\ UNCHANGED <<now, limits, bytes, msgs, nextSeq, acct, call, sweep, sweepNow,
                   todo, at, victim>>

\* The broker process dies and restarts; Redis keeps its state.
BrokerCrash ==
    /\ Fault
    /\ sweep' = "idle"
    /\ sweepNow' = 0
    /\ todo' = {}
    /\ expired' = {}
    /\ victim' = NoMessage
    /\ call' = [a \in Appender |-> Idle]
    /\ UNCHANGED <<now, storeVars, at>>

\* POST /admin/limit.
SetChannelLimits(c, lim) ==
    /\ limits[c] # lim
    /\ limits' = [limits EXCEPT ![c] = lim]
    /\ UNCHANGED <<now, stream, bytes, msgs, nextSeq, acct, call, sweepVars,
                   faults>>

Tick ==
    /\ now < MaxNow
    /\ now' = now + 1
    /\ UNCHANGED <<storeVars, call, sweepVars, faults>>

-----------------------------------------------------------------------------
SweepStep ==
    \/ SweepStart
    \/ \E c \in Channel : SweepChannel(c)
    \/ \E e \in expired : SweepDelete(e)
    \/ SweepBytes
    \/ SweepMsgs
    \/ SweepAcct
    \/ SweepAdvance

AppendStep ==
    \E a \in Appender :
        \/ \E c \in Channel, size \in Size : AppendReads(a, c, size)
        \/ \E t \in 0..now : now - t <= MaxLag /\ AppendStores(a, t)
        \/ AppendRejected(a)

FaultStep ==
    \/ SweepReadFails
    \/ SweepUpdateFails
    \/ \E e \in expired, executed \in BOOLEAN : SweepDeleteFails(e, executed)
    \/ BrokerCrash

Next ==
    \/ AppendStep
    \/ SweepStep
    \/ FaultStep
    \/ \E c \in Channel : \E lim \in Limit[c] : SetChannelLimits(c, lim)
    \/ Tick

Spec == Init /\ [][Next]_vars

\* The ticker of runSweeper fires for as long as the broker runs, and a sweep's
\* next command is eventually sent.
FairSpec == Spec /\ WF_vars(SweepStep)

-----------------------------------------------------------------------------
(* Properties *)

\* What Redis really stores for an account.
Owned(o) == {c \in Channel : owner[c] = o}
Stored(o) == Cardinality(UNION {{c} \X Bytes(stream[c]) : c \in Owned(o)})

\* What the sweeper has deleted and not yet taken off each counter.
OwedMsgs(c) == IF at = c /\ sweep \in {"bytes", "msgs"} THEN 1 ELSE 0
OwedBytes(c) == IF at = c /\ sweep = "bytes" THEN victim.size ELSE 0
OwedAcct(o) == IF owner[at] = o /\ sweep \in {"bytes", "msgs", "acct"}
                 THEN victim.size ELSE 0

\* As long as nothing fails, every counter is exact except for the one message
\* the sweeper has deleted and not yet accounted for: appends, evictions, sweeps
\* of several channels and changes of the limits never make them drift, however
\* they interleave.
CountersExact ==
    faults = 0 =>
        /\ \A c \in Channel :
              /\ msgs[c] = Cardinality(stream[c]) + OwedMsgs(c)
              /\ bytes[c] = TotalSize(stream[c]) + OwedBytes(c)
        /\ \A o \in Account : acct[o] = Stored(o) + OwedAcct(o)

\* Even when commands of the sweeper fail or the broker dies between two of them,
\* no counter ever falls below what is stored: a deletion is never counted twice.
NeverUndercounted ==
    /\ \A c \in Channel : /\ msgs[c] >= Cardinality(stream[c])
                          /\ bytes[c] >= TotalSize(stream[c])
    /\ \A o \in Account : acct[o] >= Stored(o)

\* An account never has more stored than its quota, over all its channels, with
\* concurrent appends to several of them and with a sweeper that may fail.
QuotaHolds == AcctCap > 0 => \A o \in Account : Stored(o) <= AcctCap

\* This step ran the append script for a on c and it stored a message.
Stores(a, c) ==
    /\ call[a].busy /\ ~ call'[a].busy
    /\ call[a].chan = c
    /\ nextSeq'[c] # nextSeq[c]

\* After an append the channel really holds no more than the limits the append
\* read allow, unless nothing is left: messages are always evicted far enough.
AppendFitsCaps ==
    [][\A a \in Appender, c \in Channel : Stores(a, c) =>
          \/ stream'[c] = {}
          \/ ~ OverCaps(call[a].lim, TotalSize(stream'[c]),
                        Cardinality(stream'[c]))]_vars

\* A message disappears in two ways only: it is past its expiry, or it is older
\* than everything an append left behind.  In particular a message stored without
\* a TTL is never swept, whatever limits the channel is given later.
GoneForAReason ==
    [][\A c \in Channel : \A e \in stream[c] \ stream'[c] :
          \/ e.exp # 0 /\ e.exp <= now
          \/ \E a \in Appender :
                Stores(a, c) /\ \A d \in stream'[c] : e.seq < d.seq]_vars

\* The store of channel c as the shelf whose seqs it assigns.
Expired(c) == {e \in stream[c] : e.exp # 0 /\ e.exp <= now}
Seqs(S) == {e.seq : e \in S}
AbstractShelf(c) == INSTANCE Shelf WITH
    issued <- nextSeq[c] - 1,
    kept <- Seqs(stream[c]),
    expired <- Seqs(Expired(c))

\* Every channel is such a shelf: whatever appenders, sweeper, operator and faults
\* do, seqs are assigned one after the other, an append costs only a run of the
\* oldest entries, and nothing else is deleted before its expiry.
ImplementsShelf ==
    /\ \A c \in Channel : AbstractShelf(c)!Init
    /\ [][\A c \in Channel :
             AbstractShelf(c)!Next \/ UNCHANGED AbstractShelf(c)!vars]_vars

\* Every message past its expiry is eventually deleted, although a sweep may end
\* before it starts, skip a channel or fail to delete, and the broker may restart:
\* what one sweep leaves a later one finds.
ExpiredIsSwept ==
    \A c \in Channel : \A q \in 1..MaxSeq[c] :
        (\E e \in stream[c] : e.seq = q /\ e.exp # 0 /\ e.exp <= now)
            ~> ~ \E e \in stream[c] : e.seq = q

\* README.md: "Retention is capped per channel (a message count and a byte size,
\* oldest evicted past either)".  An append evicts a message that has not expired
\* only if keeping it, and everything newer, would really exceed a cap.
EvictsOnlyPastCaps ==
    [][\A a \in Appender, c \in Channel : Stores(a, c) =>
          \A e \in stream[c] \ stream'[c] :
              LET kept == {d \in stream[c] : d.seq >= e.seq}
              IN e.exp = 0 \/ e.exp > now =>
                 OverCaps(call[a].lim, TotalSize(kept) + call[a].size,
                          Cardinality(kept) + 1)]_vars
=============================================================================
