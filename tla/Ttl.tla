-------------------------------- MODULE Ttl --------------------------------
(***************************************************************************)
(* How long a retained message is kept: from the ttl_sec of the request    *)
(* that makes its channel (handleCreateChannel of                          *)
(* internal/transport/transport.go), or of the ticket it redeems, or of    *)
(* the operator's later change, through the channel's record to the exp    *)
(* of the message (internal/store).                                        *)
(*                                                                         *)
(* ttl_sec is an int64 of seconds and a time.Duration an int64 of          *)
(* nanoseconds.  Both are words of Half values either side of zero here,   *)
(* and a second is Second units, so the product wraps as it does there.    *)
(* Retention has what happens to a message once it is stored.              *)
(***************************************************************************)
EXTENDS Integers

CONSTANTS
    Channel,      \* channel ids
    TtlSec,       \* values of ttl_sec in requests
    Half,         \* a word holds -Half .. Half - 1
    Second,       \* time.Second, in units of a Duration
    DefaultTTL,   \* limits.RetentionTTL, in seconds
    MaxTTL,       \* limits.RetentionTTLMax, in seconds
    MaxNow        \* bound: the clock, in seconds

VARIABLES
    now,          \* nowUnix()
    ttl,          \* per channel: ttl_sec of its record
    made,         \* per channel, history: "free", or who chose its TTL last:
                  \* a client's "request", or the "operator" (also by a ticket)
    stored        \* history: messages, with the time they were stored at

vars == <<now, ttl, made, stored>>

Word == -Half .. Half - 1
Wrap(n) == ((n + Half) % (2 * Half)) - Half

TypeOK ==
    /\ now \in 0..MaxNow
    /\ ttl \in [Channel -> Word]
    /\ made \in [Channel -> {"free", "request", "operator"}]
    /\ stored \subseteq [made : {"request", "operator"}, at : 0..MaxNow, exp : Nat]

Init ==
    /\ now = 0
    /\ ttl = [c \in Channel |-> 0]
    /\ made = [c \in Channel |-> "free"]
    /\ stored = {}

\* time.Duration(seconds) * time.Second.
Duration(seconds) == Wrap(seconds * Second)

\* int64(d.Seconds()), which truncates towards zero.
Seconds(d) == IF d < 0 THEN - ((- d) \div Second) ELSE d \div Second

\* The TTL a request for a retained channel asks for: its own, or the default of
\* an account's channel or of an anonymous one.
Asked(anonymous, ttlSec) ==
    IF ttlSec > 0 THEN Duration(ttlSec)
    ELSE Duration(IF anonymous THEN MaxTTL ELSE DefaultTTL)

Capped(d) == IF d > Duration(MaxTTL) THEN Duration(MaxTTL) ELSE d

\* POST /channel with retain and without a ticket.
CreateRetained(c, anonymous, ttlSec) ==
    /\ made[c] = "free"
    /\ ttl' = [ttl EXCEPT ![c] = Seconds(Capped(Asked(anonymous, ttlSec)))]
    /\ made' = [made EXCEPT ![c] = "request"]
    /\ UNCHANGED <<now, stored>>

\* POST /channel with a ticket: the operator's ttl_sec goes into the record as
\* it is.
CreateWithTicket(c, ttlSec) ==
    /\ made[c] = "free"
    /\ ttl' = [ttl EXCEPT ![c] = ttlSec]
    /\ made' = [made EXCEPT ![c] = "operator"]
    /\ UNCHANGED <<now, stored>>

\* SetChannelLimits: a negative ttl_sec leaves the TTL alone.
SetChannelLimits(c, ttlSec) ==
    /\ made[c] # "free"
    /\ ttlSec >= 0
    /\ ttl' = [ttl EXCEPT ![c] = ttlSec]
    /\ made' = [made EXCEPT ![c] = "operator"]
    /\ UNCHANGED <<now, stored>>

\* appendLua: a TTL that is not positive is no expiry.
Append(c) ==
    /\ made[c] # "free"
    /\ stored' = stored \cup
         {[made |-> made[c], at |-> now,
           exp |-> IF ttl[c] > 0 THEN now + ttl[c] ELSE 0]}
    /\ UNCHANGED <<now, ttl, made>>

Tick ==
    /\ now < MaxNow
    /\ now' = now + 1
    /\ UNCHANGED <<ttl, made, stored>>

Next ==
    \/ \E c \in Channel, ttlSec \in TtlSec :
          \/ \E anonymous \in BOOLEAN : CreateRetained(c, anonymous, ttlSec)
          \/ CreateWithTicket(c, ttlSec) \/ SetChannelLimits(c, ttlSec)
    \/ \E c \in Channel : Append(c)
    \/ Tick

Spec == Init /\ [][Next]_vars

-----------------------------------------------------------------------------
\* transport.go, of the TTL of a retained channel a client asks for: "Either way
\* TTL is hard-capped at RetentionTTLMax".  A message stored in one, while no
\* operator has changed it, expires within that time.
TtlIsCapped ==
    \A m \in stored :
        m.made = "request" => m.exp # 0 /\ m.exp <= m.at + MaxTTL
=============================================================================
