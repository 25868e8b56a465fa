-------------------------------- MODULE Feed --------------------------------
(***************************************************************************)
(* What the in-memory broker promises a subscriber (broker.go, header      *)
(* comment): a live, at-most-once feed.  A channel is the sequence of the  *)
(* envelopes published on it.  A subscriber joins at the current end of    *)
(* that sequence and reads a gap-free run from there; it is extended by    *)
(* every later post while it is attached, and what it may still read is    *)
(* frozen once it is detached.  Only a subscriber that lags by at least    *)
(* Depth envelopes may be detached against its will.                       *)
(***************************************************************************)
EXTENDS Naturals, Sequences

CONSTANTS Channel, Reader, Envelope, Depth, NoChannel

VARIABLES
    log,       \* log[c]: every envelope posted on c, in order
    on,        \* on[r]: the channel r is attached to, or NoChannel
    source,    \* source[r]: the channel r reads, attached or not
    since,     \* since[r]: Len(log) when r joined
    limit,     \* limit[r]: the last position of the log r may ever read
    recv       \* recv[r]: what r has been handed, in order

vars == <<log, on, source, since, limit, recv>>

Init ==
    /\ log = [c \in Channel |-> <<>>]
    /\ on = [r \in Reader |-> NoChannel]
    /\ source = [r \in Reader |-> NoChannel]
    /\ since = [r \in Reader |-> 0]
    /\ limit = [r \in Reader |-> 0]
    /\ recv = [r \in Reader |-> <<>>]

Join(r, c) ==
    /\ source[r] = NoChannel
    /\ on' = [on EXCEPT ![r] = c]
    /\ source' = [source EXCEPT ![r] = c]
    /\ since' = [since EXCEPT ![r] = Len(log[c])]
    /\ limit' = [limit EXCEPT ![r] = Len(log[c])]
    /\ UNCHANGED <<log, recv>>

\* The position of the log that r has been handed.
Position(r) == since[r] + Len(recv[r])

\* An envelope is posted; the laggards are cut off instead of being extended.
Post(c, e, laggards) ==
    /\ \A r \in laggards : on[r] = c /\ limit[r] >= Position(r) + Depth
    /\ log' = [log EXCEPT ![c] = Append(@, e)]
    /\ on' = [r \in Reader |-> IF r \in laggards THEN NoChannel ELSE on[r]]
    /\ limit' = [r \in Reader |-> IF on[r] = c /\ r \notin laggards
                                    THEN limit[r] + 1 ELSE limit[r]]
    /\ UNCHANGED <<source, since, recv>>

Read(r) ==
    /\ source[r] \in Channel
    /\ Position(r) < limit[r]
    /\ recv' = [recv EXCEPT ![r] = Append(@, log[source[r]][Position(r) + 1])]
    /\ UNCHANGED <<log, on, source, since, limit>>

Leave(r) ==
    /\ on[r] \in Channel
    /\ on' = [on EXCEPT ![r] = NoChannel]
    /\ UNCHANGED <<log, source, since, limit, recv>>

Next ==
    \/ \E c \in Channel, e \in Envelope, laggards \in SUBSET Reader :
          Post(c, e, laggards)
    \/ \E r \in Reader :
          \/ \E c \in Channel : Join(r, c)
          \/ Read(r)
          \/ Leave(r)

Spec == Init /\ [][Next]_vars
=============================================================================
