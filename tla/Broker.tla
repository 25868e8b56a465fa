------------------------------- MODULE Broker -------------------------------
(***************************************************************************)
(* The in-memory fan-out core (internal/broker/broker.go) together with    *)
(* the goroutines of internal/transport/transport.go that drive it: the    *)
(* publishers, and for every subscription the pump that drains it and the  *)
(* handler that unsubscribes it.                                           *)
(*                                                                         *)
(* Granularity.  What b.mu protects is one step; what the code does after  *)
(* unlocking (closing the dropped subscriptions, closing in Unsubscribe)   *)
(* is a step of its own, interleaved with everything else.  Receiving from *)
(* sub.C takes no lock.  The enqueues of one Publish touch different Go    *)
(* channels, so taking them together loses no behaviour of any one queue.  *)
(*                                                                         *)
(* An envelope is its sender and the sender's own count; the payload is    *)
(* opaque to the broker.                                                   *)
(***************************************************************************)
EXTENDS Integers, Sequences, FiniteSets

CONSTANTS
    Channel,      \* channel names
    NoChannel,    \* the channel of an id not handed out yet
    Sender,       \* goroutines that publish: WS readers and HTTP requests
    QueueDepth,   \* subscriberQueueDepth
    MaxSubs,      \* bound: subscriptions ever made
    MaxPub,       \* bound: envelopes ever published on one channel
    MaxSent       \* bound: envelopes ever published by one sender

ASSUME BrokerAssumption ==
    /\ NoChannel \notin Channel
    /\ QueueDepth \in Nat \ {0}
    /\ MaxSubs \in Nat
    /\ MaxPub \in Nat
    /\ MaxSent \in Nat

\* Subscription ids, in the order Subscribe hands them out.
Id == 1..MaxSubs
Envelope == [sender : Sender, n : 1..MaxSent]

VARIABLES
    nextID,     \* Broker.nextID
    subs,       \* Broker.subs: channel -> ids (an empty set is an absent key)
    channel,    \* Subscription.channel
    kind,       \* the handler that subscribed: "ws" or "sse"
    out,        \* Subscription.out, the buffered Go channel
    closed,     \* Subscription.closed has been closed
    toDrop,     \* per sender: Publish's toDrop, still to be closed
    sent,       \* per sender: envelopes published so far
    writer,     \* the loop that drains sub.C: "idle", "select", "write", "exit"
    hand,       \* the envelope received from sub.C and not yet written
    cancelled,  \* the connection's context is done
    handler,    \* "idle", "pump", "unsub" (deleted, not yet closed), "done"
    log,        \* history: what was published on each channel, in lock order
    since,      \* history: Len(log) at Subscribe
    recv        \* history: what was written to the client, in order

brokerVars  == <<nextID, subs, channel, kind, out, closed>>
senderVars  == <<toDrop, sent>>
sessionVars == <<writer, hand, cancelled, handler>>
historyVars == <<log, since, recv>>
vars == <<brokerVars, senderVars, sessionVars, historyVars>>

TypeOK ==
    /\ nextID \in 0..MaxSubs
    /\ subs \in [Channel -> SUBSET Id]
    /\ channel \in [Id -> Channel \cup {NoChannel}]
    /\ kind \in [Id -> {"ws", "sse"}]
    /\ out \in [Id -> Seq(Envelope)]
    /\ closed \in [Id -> BOOLEAN]
    /\ toDrop \in [Sender -> SUBSET Id]
    /\ sent \in [Sender -> 0..MaxSent]
    /\ writer \in [Id -> {"idle", "select", "write", "exit"}]
    /\ hand \in [Id -> Seq(Envelope)]
    /\ cancelled \in [Id -> BOOLEAN]
    /\ handler \in [Id -> {"idle", "pump", "unsub", "done"}]
    /\ log \in [Channel -> Seq(Envelope)]
    /\ since \in [Id -> Nat]
    /\ recv \in [Id -> Seq(Envelope)]

Init ==
    /\ nextID = 0
    /\ subs = [c \in Channel |-> {}]
    /\ channel = [s \in Id |-> NoChannel]
    /\ kind = [s \in Id |-> "ws"]
    /\ out = [s \in Id |-> <<>>]
    /\ closed = [s \in Id |-> FALSE]
    /\ toDrop = [p \in Sender |-> {}]
    /\ sent = [p \in Sender |-> 0]
    /\ writer = [s \in Id |-> "idle"]
    /\ hand = [s \in Id |-> <<>>]
    /\ cancelled = [s \in Id |-> FALSE]
    /\ handler = [s \in Id |-> "idle"]
    /\ log = [c \in Channel |-> <<>>]
    /\ since = [s \in Id |-> 0]
    /\ recv = [s \in Id |-> <<>>]

-----------------------------------------------------------------------------
(* broker.go *)

\* The id the next Subscribe hands out (b.nextID++; id := b.nextID).
FreshID == nextID + 1

\* Subscribe, called by pumpWS ("ws") or handlePublicSubscribe ("sse"), which
\* then starts to drain the subscription.
Subscribe(c, k) ==
    /\ FreshID \in Id
    /\ nextID' = FreshID
    /\ subs' = [subs EXCEPT ![c] = @ \cup {FreshID}]
    /\ channel' = [channel EXCEPT ![FreshID] = c]
    /\ kind' = [kind EXCEPT ![FreshID] = k]
    /\ out' = [out EXCEPT ![FreshID] = <<>>]
    /\ closed' = [closed EXCEPT ![FreshID] = FALSE]
    /\ writer' = [writer EXCEPT ![FreshID] = "select"]
    /\ handler' = [handler EXCEPT ![FreshID] = "pump"]
    /\ since' = [since EXCEPT ![FreshID] = Len(log[c])]
    /\ UNCHANGED <<senderVars, hand, cancelled, log, recv>>

\* Seeded fault (ImplementsFeed): a queue counts as full one envelope early.
FullEarly(c) == {s \in subs[c] : Len(out[s]) >= QueueDepth - 1}

\* The subscribers a publish on c finds with a full queue: they are dropped.
Full(c) == {s \in subs[c] : Len(out[s]) >= QueueDepth}

\* Seeded fault (AttachedMissesNothing): a subscriber with a full
\* queue just misses the envelope.
PublishSkipsFull(p, c) ==
    LET e == [sender |-> p, n |-> sent[p] + 1] IN
    /\ Len(log[c]) < MaxPub /\ sent[p] < MaxSent
    /\ sent' = [sent EXCEPT ![p] = @ + 1]
    /\ out' = [s \in Id |-> IF s \in subs[c] \ Full(c)
                              THEN Append(out[s], e) ELSE out[s]]
    /\ log' = [log EXCEPT ![c] = Append(@, e)]
    /\ UNCHANGED <<nextID, subs, channel, kind, closed, toDrop, sessionVars,
                   since, recv>>

\* Seeded fault (TypeOK): an envelope is stamped before its sender counts it.
PublishStampsLate(p, c) ==
    LET e == [sender |-> p, n |-> sent[p]] IN
    /\ Len(log[c]) < MaxPub /\ sent[p] < MaxSent /\ toDrop[p] = {}
    /\ sent' = [sent EXCEPT ![p] = @ + 1]
    /\ log' = [log EXCEPT ![c] = Append(@, e)]
    /\ UNCHANGED <<brokerVars, toDrop, sessionVars, since, recv>>

\* The locked part of Publish: enqueue without blocking to every subscriber that
\* has room, remove the others from the map.  A sender's calls do not overlap.
Publish(p, c) ==
    LET e == [sender |-> p, n |-> sent[p] + 1] IN
    /\ Len(log[c]) < MaxPub
    /\ sent[p] < MaxSent
    /\ toDrop[p] = {}
    /\ sent' = [sent EXCEPT ![p] = @ + 1]
    /\ out' = [s \in Id |-> IF s \in subs[c] \ Full(c)
                              THEN Append(out[s], e) ELSE out[s]]
    /\ subs' = [subs EXCEPT ![c] = @ \ Full(c)]
    /\ toDrop' = [toDrop EXCEPT ![p] = Full(c)]
    /\ log' = [log EXCEPT ![c] = Append(@, e)]
    /\ UNCHANGED <<nextID, channel, kind, closed, sessionVars, since, recv>>

\* Seeded fault (NobodyLeftHanging): a dropped subscription is not closed.
CloseDroppedForgets(p, s) ==
    /\ s \in toDrop[p]
    /\ toDrop' = [toDrop EXCEPT ![p] = @ \ {s}]
    /\ UNCHANGED <<brokerVars, sent, sessionVars, historyVars>>

\* After the unlock: close one of the dropped subscriptions (any order, the map
\* is iterated at random).  sync.Once makes a second close a no-op.
CloseDropped(p, s) ==
    /\ s \in toDrop[p]
    /\ closed' = [closed EXCEPT ![s] = TRUE]
    /\ toDrop' = [toDrop EXCEPT ![p] = @ \ {s}]
    /\ UNCHANGED <<nextID, subs, channel, kind, out, sent, sessionVars,
                   historyVars>>

\* Who may run the deferred Unsubscribe.  pumpWS returns when its Read fails,
\* which the cancelled context makes it do; handlePublicSubscribe is itself the
\* loop that drains, so it returns when that loop does.
MayReturn(s) ==
    /\ handler[s] = "pump"
    /\ IF kind[s] = "ws" THEN cancelled[s] ELSE writer[s] = "exit"

\* The locked part of Unsubscribe: delete the id if it is still present.
Unsubscribe(s) ==
    /\ MayReturn(s)
    /\ subs' = [subs EXCEPT ![channel[s]] = @ \ {s}]
    /\ handler' = [handler EXCEPT ![s] = "unsub"]
    /\ UNCHANGED <<nextID, channel, kind, out, closed, senderVars, writer, hand,
                   cancelled, historyVars>>

\* The close at the end of Unsubscribe; the handler has returned.
UnsubscribeClose(s) ==
    /\ handler[s] = "unsub"
    /\ closed' = [closed EXCEPT ![s] = TRUE]
    /\ handler' = [handler EXCEPT ![s] = "done"]
    /\ UNCHANGED <<nextID, subs, channel, kind, out, senderVars, writer, hand,
                   cancelled, historyVars>>

-----------------------------------------------------------------------------
(* transport.go: the loops that drain a subscription *)

\* Seeded fault (GapFreeRun, PerSenderOrder): the queue is drained from the wrong end.
WriterTakesLatest(s) ==
    /\ writer[s] = "select"
    /\ out[s] # <<>>
    /\ hand' = [hand EXCEPT ![s] = <<out[s][Len(out[s])]>>]
    /\ out' = [out EXCEPT ![s] = SubSeq(@, 1, Len(@) - 1)]
    /\ writer' = [writer EXCEPT ![s] = "write"]
    /\ UNCHANGED <<nextID, subs, channel, kind, closed, senderVars, cancelled,
                   handler, historyVars>>

\* case e := <-sub.C: take the oldest envelope.  When several cases are ready
\* Go picks any, so a closed subscription may still hand over queued envelopes.
WriterTake(s) ==
    /\ writer[s] = "select"
    /\ out[s] # <<>>
    /\ hand' = [hand EXCEPT ![s] = <<Head(out[s])>>]
    /\ out' = [out EXCEPT ![s] = Tail(@)]
    /\ writer' = [writer EXCEPT ![s] = "write"]
    /\ UNCHANGED <<nextID, subs, channel, kind, closed, senderVars, cancelled,
                   handler, historyVars>>

\* The write to the client succeeds.
WriterWrote(s) ==
    /\ writer[s] = "write"
    /\ recv' = [recv EXCEPT ![s] = Append(@, Head(hand[s]))]
    /\ hand' = [hand EXCEPT ![s] = <<>>]
    /\ writer' = [writer EXCEPT ![s] = "select"]
    /\ UNCHANGED <<brokerVars, senderVars, cancelled, handler, log, since>>

\* Seeded fault (PublishedReachesClient): the loop exits without cancelling.
WriterFailedSilently(s) ==
    /\ writer[s] = "write"
    /\ writer' = [writer EXCEPT ![s] = "exit"]
    /\ UNCHANGED <<brokerVars, senderVars, hand, cancelled, handler, historyVars>>

\* The write fails (client gone, or writeTimeout on a WebSocket): the loop
\* cancels the connection and exits with the envelope still in hand.
WriterFailed(s) ==
    /\ writer[s] = "write"
    /\ writer' = [writer EXCEPT ![s] = "exit"]
    /\ cancelled' = [cancelled EXCEPT ![s] = TRUE]
    /\ UNCHANGED <<brokerVars, senderVars, hand, handler, historyVars>>

\* Seeded fault (ClosedIsTornDown): the loop does not watch sub.Closed.
WriterIgnoresClosed(s) ==
    /\ writer[s] = "select"
    /\ cancelled[s]
    /\ writer' = [writer EXCEPT ![s] = "exit"]
    /\ UNCHANGED <<brokerVars, senderVars, hand, cancelled, handler, historyVars>>

\* case <-sub.Closed, or case <-ctx.Done(): both end with the context cancelled
\* and the loop gone.
WriterStops(s) ==
    /\ writer[s] = "select"
    /\ closed[s] \/ cancelled[s]
    /\ writer' = [writer EXCEPT ![s] = "exit"]
    /\ cancelled' = [cancelled EXCEPT ![s] = TRUE]
    /\ UNCHANGED <<brokerVars, senderVars, hand, handler, historyVars>>

\* The client disconnects: the reader's Read fails, or r.Context() is done.
ClientGone(s) ==
    /\ handler[s] = "pump"
    /\ ~cancelled[s]
    /\ cancelled' = [cancelled EXCEPT ![s] = TRUE]
    /\ UNCHANGED <<brokerVars, senderVars, writer, hand, handler, historyVars>>

-----------------------------------------------------------------------------
WriterSelects(s) == WriterTake(s) \/ WriterStops(s)
WriteEnds(s) == WriterWrote(s) \/ WriterFailed(s)

Next ==
    \/ \E c \in Channel, k \in {"ws", "sse"} : Subscribe(c, k)
    \/ \E p \in Sender, c \in Channel : Publish(p, c)
    \/ \E p \in Sender, s \in Id : CloseDropped(p, s)
    \/ \E s \in Id :
          \/ Unsubscribe(s)
          \/ UnsubscribeClose(s)
          \/ WriterTake(s)
          \/ WriterWrote(s)
          \/ WriterFailed(s)
          \/ WriterStops(s)
          \/ ClientGone(s)

Spec == Init /\ [][Next]_vars

\* The Go scheduler runs every runnable goroutine: a select with a ready case
\* proceeds, the close loop of Publish proceeds, a deferred Unsubscribe proceeds.
\* A WebSocket write ends because of writeTimeout; an SSE write has no deadline
\* (http.Server sets no WriteTimeout), so nothing is assumed of it.  Clients and
\* senders are free to do nothing.
Fairness ==
    /\ \A p \in Sender, s \in Id : WF_vars(CloseDropped(p, s))
    /\ \A s \in Id :
          /\ WF_vars(WriterSelects(s))
          /\ WF_vars(WriteEnds(s) /\ kind[s] = "ws")
          /\ WF_vars(Unsubscribe(s))
          /\ WF_vars(UnsubscribeClose(s))

FairSpec == Spec /\ Fairness

-----------------------------------------------------------------------------
(* Properties *)

\* Subscription s is in the broker's map.
Attached(s) == channel[s] \in Channel /\ s \in subs[channel[s]]

\* Everything handed to s so far: written, in the writer's hand, or queued.
Held(s) == Len(recv[s]) + Len(hand[s]) + Len(out[s])

\* recv[s], hand[s] and out[s] are consecutive pieces of the channel's log.
Window(s) ==
    LET stream == log[channel[s]] IN
    /\ since[s] + Held(s) <= Len(stream)
    /\ \A i \in 1..Len(recv[s]) : recv[s][i] = stream[since[s] + i]
    /\ \A i \in 1..Len(hand[s]) :
          hand[s][i] = stream[since[s] + Len(recv[s]) + i]
    /\ \A i \in 1..Len(out[s]) :
          out[s][i] = stream[since[s] + Len(recv[s]) + Len(hand[s]) + i]

\* What a client was sent, what its writer holds and what is queued for it are,
\* in that order, a gap-free and duplicate-free run of the channel's publish
\* order that starts where it subscribed: Publish, the queue and the pump
\* together never reorder, skip or repeat an envelope.
GapFreeRun == \A s \in Id : channel[s] \in Channel => Window(s)

\* A subscriber that is still in the map has been handed every envelope
\* published since it subscribed: being slow never costs an envelope silently,
\* it costs the subscription.
AttachedMissesNothing ==
    \A s \in Id : Attached(s) =>
        since[s] + Held(s) = Len(log[channel[s]])

\* A subscription that is no longer in the map is closed, or some goroutine is
\* committed to closing it: no pump is left waiting on a subscription nobody
\* will ever feed or close.
NobodyLeftHanging ==
    \A s \in 1..nextID :
        \/ Attached(s)
        \/ closed[s]
        \/ handler[s] = "unsub"
        \/ \E p \in Sender : s \in toDrop[p]

\* Per-sender order: a client never receives an older envelope of a sender after
\* a newer one, nor the same one twice.
PerSenderOrder ==
    \A s \in Id : \A i, j \in 1..Len(recv[s]) :
        i < j /\ recv[s][i].sender = recv[s][j].sender
            => recv[s][i].n < recv[s][j].n

\* The abstract feed: a reader's window grows with the log while the subscription
\* is in the map.
AbstractFeed == INSTANCE Feed WITH
    Reader <- Id,
    Depth <- QueueDepth,
    on <- [s \in Id |-> IF Attached(s) THEN channel[s] ELSE NoChannel],
    source <- channel,
    limit <- [s \in Id |-> since[s] + Held(s)]

\* The broker and its pumps implement the live, at-most-once feed; in particular
\* only a subscriber whose queue is full is ever dropped by a publish.
ImplementsFeed == AbstractFeed!Spec

\* A dropped or abandoned WebSocket subscription is always torn down to the end:
\* its handler returns (and with it the connection slot of its IP).
ClosedIsTornDown ==
    \A s \in Id : kind[s] = "ws" /\ channel[s] \in Channel /\ ~Attached(s)
                    ~> handler[s] = "done"

\* An envelope published while a WebSocket subscriber is attached reaches the
\* client, unless the connection dies or the subscriber is dropped.
PublishedReachesClient ==
    \A s \in Id, k \in 1..MaxPub :
        kind[s] = "ws" /\ Attached(s) /\ since[s] + k <= Len(log[channel[s]])
            ~> Len(recv[s]) >= k \/ cancelled[s] \/ ~Attached(s)
=============================================================================
