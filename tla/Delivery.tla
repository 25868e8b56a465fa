------------------------------ MODULE Delivery ------------------------------
(***************************************************************************)
(* A retained channel end to end: what a subscriber that attaches is       *)
(* replayed from the store (pumpWS and handlePublicSubscribe of            *)
(* internal/transport/transport.go, CatchUp of internal/store/messages.go) *)
(* and what it is sent live, while messages are published through both     *)
(* paths.  A WebSocket peer's message is appended and then published, an   *)
(* HTTP one is published and then appended.                                *)
(*                                                                         *)
(* The live side is the abstract Feed, which BrokerProofs shows the broker *)
(* and its pumps to implement.  The store side is the abstract Shelf, which *)
(* RetentionProofs shows the store to implement, with the messages in the  *)
(* order they were appended (their index is their seq).  A session is one  *)
(* attachment of a client with one cursor, whatever it received in an      *)
(* earlier one.                                                            *)
(***************************************************************************)
EXTENDS Integers, Sequences, FiniteSets

CONSTANTS
    Topic,        \* the retained channel
    NoChannel,    \* no channel
    Session,      \* attachments
    WsSender,     \* WebSocket peers that publish
    HttpSender,   \* HTTP clients that publish
    QueueDepth,   \* subscriberQueueDepth
    Batch,        \* maxCatchUp
    MaxSent,      \* bound: messages published by one sender
    MaxExpired,   \* bound: entries that are past their expiry at a time
    MaxGone,      \* bound: entries ever evicted or swept
    MaxAhead      \* bound: how far a cursor may be ahead of the stream

ASSUME DeliveryAssumption ==
    /\ Topic # NoChannel
    /\ WsSender \cap HttpSender = {}
    /\ QueueDepth \in Nat \ {0}
    /\ Batch \in Nat \ {0}
    /\ MaxSent \in Nat /\ MaxExpired \in Nat
    /\ MaxGone \in Nat /\ MaxAhead \in Nat

Sender == WsSender \cup HttpSender
Envelope == [sender : Sender, n : 1..MaxSent]

VARIABLES
    log, on, source, since, limit, recv,  \* the live feed
    stored,    \* every message appended, by seq
    kept,      \* the seqs in the stream: not evicted and not swept
    expired,   \* those of them that are past their expiry
    refused,   \* messages the account quota kept out of the store
    sent,      \* per sender: messages it has begun to publish
    half,      \* per sender: the message it has not finished with, if any
    phase,     \* per session: "off", "joined", "replay", "live", "over"
    after,     \* per session: the cursor it attached with
    backlog,   \* per session: the seqs CatchUp returned that are not written yet
    caught,    \* history: the seqs a session was replayed
    seen,      \* history: everything written to its client, in order
    found      \* history: the store as CatchUp read it; NoCatchUp before it
               \* runs or if it fails

feedVars  == <<log, on, source, since, limit, recv>>
storeVars == <<stored, kept, expired, refused>>
sendVars  == <<sent, half>>
sessVars  == <<phase, after, backlog, caught, seen, found>>
vars == <<feedVars, storeVars, sendVars, sessVars>>

Live == INSTANCE Feed WITH
    Channel <- {Topic}, Reader <- Session, Depth <- QueueDepth
Stream == INSTANCE Shelf WITH issued <- Len(stored)

NoCatchUp == [done |-> FALSE, kept |-> {}, expired |-> {}, newest |-> 0]
CatchUpFound == [done : BOOLEAN, kept : SUBSET Nat, expired : SUBSET Nat,
                 newest : Nat]

TypeOK ==
    /\ log \in [{Topic} -> Seq(Envelope)]
    /\ on \in [Session -> {Topic, NoChannel}]
    /\ source \in [Session -> {Topic, NoChannel}]
    /\ since \in [Session -> Nat]
    /\ limit \in [Session -> Nat]
    /\ recv \in [Session -> Seq(Envelope)]
    /\ stored \in Seq(Envelope)
    /\ kept \subseteq 1 .. Len(stored)
    /\ expired \subseteq kept
    /\ refused \subseteq Envelope
    /\ sent \in [Sender -> 0..MaxSent]
    /\ half \in [Sender -> Seq(Envelope)]
    /\ phase \in [Session -> {"off", "joined", "replay", "live", "over"}]
    /\ after \in [Session -> Nat]
    /\ backlog \in [Session -> SUBSET Nat]
    /\ caught \in [Session -> SUBSET Nat]
    /\ \A s \in Session : backlog[s] \subseteq 1 .. Len(stored)
    /\ seen \in [Session -> Seq(Envelope)]
    /\ found \in [Session -> CatchUpFound]

Init ==
    /\ Live!Init
    /\ stored = <<>>
    /\ kept = {}
    /\ expired = {}
    /\ refused = {}
    /\ sent = [p \in Sender |-> 0]
    /\ half = [p \in Sender |-> <<>>]
    /\ phase = [s \in Session |-> "off"]
    /\ after = [s \in Session |-> 0]
    /\ backlog = [s \in Session |-> {}]
    /\ caught = [s \in Session |-> {}]
    /\ seen = [s \in Session |-> <<>>]
    /\ found = [s \in Session |-> NoCatchUp]

-----------------------------------------------------------------------------
(* The two halves of publishing *)

\* The n lowest of a set of seqs.
Lowest(S, n) == {k \in S : Cardinality({j \in S : j < k}) < n}

\* What a step of the store may leave behind here.
WithinBounds ==
    /\ Cardinality(expired') <= MaxExpired
    /\ Len(stored') <= Cardinality(kept') + MaxGone

\* Store.Append: the quota refuses the message, or it gets the next seq and the
\* ring buffer drops the oldest entries.
Store(e) ==
    \/ /\ refused' = refused \cup {e}
       /\ UNCHANGED <<stored, kept, expired>>
    \/ /\ stored' = Append(stored, e)
       /\ Stream!Add
       /\ WithinBounds
       /\ UNCHANGED refused

\* Broker.Publish: a subscriber whose queue is full is cut off.
Post(e) ==
    \E laggards \in SUBSET {s \in Session : on[s] = Topic
                              /\ limit[s] >= Live!Position(s) + QueueDepth} :
        Live!Post(Topic, e, laggards)

\* Seeded fault (TypeOK): a message is stamped before its sender counts it.
FreshLate(p) == [sender |-> p, n |-> sent[p]]

Fresh(p) == [sender |-> p, n |-> sent[p] + 1]

Begins(p) ==
    /\ sent[p] < MaxSent
    /\ half[p] = <<>>
    /\ sent' = [sent EXCEPT ![p] = @ + 1]
    /\ half' = [half EXCEPT ![p] = <<Fresh(p)>>]

Finishes(p) ==
    /\ half[p] # <<>>
    /\ half' = [half EXCEPT ![p] = <<>>]
    /\ UNCHANGED sent

\* pumpWS: append the message, and whatever came of that publish it.
WsAppend(p) ==
    /\ Begins(p)
    /\ Store(Fresh(p))
    /\ UNCHANGED <<feedVars, sessVars>>

WsPublish(p) ==
    /\ Finishes(p)
    /\ Post(Head(half[p]))
    /\ UNCHANGED <<storeVars, sessVars>>

\* handlePublicPublish: publish, then append.
HttpPublish(p) ==
    /\ Begins(p)
    /\ Post(Fresh(p))
    /\ UNCHANGED <<storeVars, sessVars>>

HttpAppend(p) ==
    /\ Finishes(p)
    /\ Store(Head(half[p]))
    /\ UNCHANGED <<feedVars, sessVars>>

\* Messages outlive their TTL.  They have the TTL the channel had when they were
\* appended, which the operator may change, so any may be next.
Expire(dead) ==
    /\ dead \in SUBSET (kept \ expired) \ {{}}
    /\ UNCHANGED <<feedVars, stored, refused, sendVars, sessVars>>
    /\ Stream!Age(dead)
    /\ WithinBounds

\* The sweeper deletes one, some time later.
Sweep(k) ==
    /\ UNCHANGED <<feedVars, stored, refused, sendVars, sessVars>>
    /\ Stream!Remove(k)
    /\ WithinBounds

-----------------------------------------------------------------------------
(* A session *)

\* Subscribe, before the catch-up is read.  The cursor is a seq the client may
\* have been given, in an earlier life of the store even one that is still to
\* come: Redis may lose its last second in a crash.
Attach(s) ==
    /\ phase[s] = "off"
    /\ Live!Join(s, Topic)
    /\ phase' = [phase EXCEPT ![s] = "joined"]
    /\ \E k \in 0 .. Len(stored) + MaxAhead : after' = [after EXCEPT ![s] = k]
    /\ UNCHANGED <<storeVars, sendVars, backlog, caught, seen, found>>

\* Seeded fault (ReplayIsARun): the range starts at the cursor itself.
WindowInclusive(s) == Lowest({k \in kept : k >= after[s]}, Batch)

\* Seeded fault (MissedForAReason): the range starts one too late.
WindowLate(s) == Lowest({k \in kept : k > after[s] + 1}, Batch)

\* XRANGE returns the first Batch entries after the cursor, expired ones too.
Window(s) == Lowest({k \in kept : k > after[s]}, Batch)

\* CatchUp drops the expired ones from what it was given.
CatchUp(s) ==
    /\ phase[s] = "joined"
    /\ backlog' = [backlog EXCEPT ![s] = Window(s) \ expired]
    /\ found' = [found EXCEPT ![s] = [done |-> TRUE, kept |-> kept,
                                      expired |-> expired,
                                      newest |-> Len(stored)]]
    /\ phase' = [phase EXCEPT ![s] = "replay"]
    /\ UNCHANGED <<feedVars, storeVars, sendVars, after, caught, seen>>

\* CatchUp fails and the session goes live without it.
CatchUpFails(s) ==
    /\ phase[s] = "joined"
    /\ phase' = [phase EXCEPT ![s] = "live"]
    /\ UNCHANGED <<feedVars, storeVars, sendVars, after, backlog, caught, seen,
                   found>>

\* The next message of the replay is written to the client.
Replay(s, k) ==
    /\ phase[s] = "replay"
    /\ k \in backlog[s] /\ \A j \in backlog[s] : k <= j
    /\ caught' = [caught EXCEPT ![s] = @ \cup {k}]
    /\ seen' = [seen EXCEPT ![s] = Append(@, stored[k])]
    /\ backlog' = [backlog EXCEPT ![s] = @ \ {k}]
    /\ UNCHANGED <<feedVars, storeVars, sendVars, phase, after, found>>

\* The replay is over and the queue is drained from here on.
GoLive(s) ==
    /\ phase[s] = "replay"
    /\ backlog[s] = {}
    /\ phase' = [phase EXCEPT ![s] = "live"]
    /\ UNCHANGED <<feedVars, storeVars, sendVars, after, backlog, caught, seen,
                   found>>

\* The envelope at the head of the queue.
NextLive(s) == log[Topic][Live!Position(s) + 1]

\* Seeded fault (FirstSeenInOrder): the writer starts before the replay is over.
DeliverDuringReplay(s) ==
    /\ phase[s] \in {"replay", "live"}
    /\ Live!Read(s)
    /\ seen' = [seen EXCEPT ![s] = Append(@, NextLive(s))]
    /\ UNCHANGED <<storeVars, sendVars, phase, after, backlog, caught, found>>

\* One live message is written to the client.
Deliver(s) ==
    /\ phase[s] = "live"
    /\ Live!Read(s)
    /\ seen' = [seen EXCEPT ![s] = Append(@, NextLive(s))]
    /\ UNCHANGED <<storeVars, sendVars, phase, after, backlog, caught, found>>

\* The connection ends: the client leaves, a write fails, or the subscription
\* was dropped.
End(s) ==
    /\ phase[s] \in {"joined", "replay", "live"}
    /\ phase' = [phase EXCEPT ![s] = "over"]
    /\ \/ Live!Leave(s)
       \/ on[s] = NoChannel /\ UNCHANGED feedVars
    /\ UNCHANGED <<storeVars, sendVars, after, backlog, caught, seen, found>>

Next ==
    \/ \E p \in WsSender : WsAppend(p) \/ WsPublish(p)
    \/ \E p \in HttpSender : HttpPublish(p) \/ HttpAppend(p)
    \/ \E dead \in SUBSET kept : Expire(dead)
    \/ \E k \in expired : Sweep(k)
    \/ \E s \in Session :
          \/ Attach(s) \/ CatchUp(s) \/ CatchUpFails(s)
          \/ \E k \in backlog[s] : Replay(s, k)
          \/ GoLive(s) \/ Deliver(s) \/ End(s)

Spec == Init /\ [][Next]_vars

-----------------------------------------------------------------------------
(* Properties *)

Members(q) == {q[i] : i \in 1..Len(q)}
Queued(s) == {log[Topic][i] : i \in Live!Position(s) + 1 .. limit[s]}

\* What a session is replayed in the end.
Replayed(s) == caught[s] \cup backlog[s]

\* Session s has been, or is still going to be, handed message k.
Reached(s, k) ==
    \/ k \in Replayed(s)
    \/ stored[k] \in Members(recv[s]) \cup Queued(s)

\* Session s has its catch-up behind it, read or failed, and is still subscribed.
Streaming(s) == phase[s] \in {"replay", "live"} /\ on[s] = Topic

\* What was published before s subscribed.
PublishedBefore(s) == {log[Topic][i] : i \in 1 .. since[s]}

\* A full batch of entries lay between the cursor and k.
BeyondBatch(s, k) ==
    Cardinality({j \in found[s].kept : after[s] < j /\ j < k}) >= Batch

\* The seam between replay and live: a session that is streaming is handed every
\* message stored past its cursor or after its catch-up, with five exceptions and
\* no other: it had expired or been evicted when CatchUp read the stream, a whole
\* batch of entries (expired ones too) lay before it, its WebSocket sender has not
\* published it yet, its HTTP sender published it before the session subscribed
\* and appended it after the catch-up was read, or the catch-up failed and it was
\* published before the session subscribed.  So a failed catch-up costs nothing
\* that is published from then on, and a cursor that is ahead of the stream costs
\* nothing that is stored from then on.
MissedForAReason ==
    \A s \in Session : Streaming(s) =>
        \A k \in 1 .. Len(stored) :
            LET e == stored[k] IN
            k > after[s] \/ k > found[s].newest =>
                \/ Reached(s, k)
                \/ k <= found[s].newest /\ k \notin found[s].kept \ found[s].expired
                \/ k <= found[s].newest /\ BeyondBatch(s, k)
                \/ e.sender \in WsSender /\ half[e.sender] = <<e>>
                \/ /\ e \in PublishedBefore(s)
                   /\ \/ e.sender \in HttpSender /\ k > found[s].newest
                      \/ ~ found[s].done

\* A catch-up is a run of what the store had when it was read: nothing at or
\* before the cursor, nothing expired, in the order of the seqs, and nothing
\* skipped before the last message replayed.
ReplayIsARun ==
    \A s \in Session : found[s].done =>
        /\ \A k \in Replayed(s) :
              /\ after[s] < k /\ k \in found[s].kept \ found[s].expired
              /\ \A j \in found[s].kept \ found[s].expired :
                    after[s] < j /\ j < k => j \in Replayed(s)
        /\ \A k \in caught[s], j \in backlog[s] : k < j

\* A session sees the messages of one sender for the first time in the order they
\* were sent.  The exceptions are a message the client has already, by its cursor, and one
\* the store did not have (refused, expired or evicted) when a later one was
\* replayed, which waits in the live queue.
FirstSeenInOrder ==
    \A s \in Session :
        \A i, j \in 1..Len(seen[s]) :
            LET x == seen[s][i]
                y == seen[s][j] IN
            i < j /\ x.sender = y.sender /\ y.n < x.n =>
                \/ \E m \in 1..i : seen[s][m] = y
                \/ y \in refused
                \/ \E k \in 1..Len(stored) :
                      /\ stored[k] = y
                      /\ k <= after[s] \/ k \notin found[s].kept \ found[s].expired

\* transport.go: "Subscribe to live BEFORE catch-up so nothing published in the
\* gap is lost".  A message that is published and stored, past the cursor, not
\* expired when the catch-up was read and within its batch, is not missed.
NothingLostInTheGap ==
    \A s \in Session : Streaming(s) /\ found[s].done =>
        \A k \in after[s] + 1 .. Len(stored) :
            \/ Reached(s, k)
            \/ half[stored[k].sender] # <<>>
            \/ k <= found[s].newest /\ k \notin found[s].kept \ found[s].expired
            \/ k <= found[s].newest /\ BeyondBatch(s, k)
=============================================================================
