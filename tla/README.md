# doublethink: TLA+ models and proofs

This directory is the verification development of doublethink, a Go message
broker with retained channels in Redis, and of its Android client. TLC checks
the models on small instances. TLAPS proves the theorems for every value of the
constants. `src/` below is the repository.

- Check a run: `tlc -config Broker.cfg Broker.tla`.
- Check the proofs: `tlapm BrokerProofs.tla`.
- `PROJECT.json` lists the runs, the source lines of every definition, the
  hazards and the findings.

## 1. The system

### Components

| Component | State | Operations | Modelled in |
|---|---|---|---|
| Fan-out core, `internal/broker` | channel to subscription map, a buffered Go channel and a `closed` channel per subscription | `Subscribe`, `Unsubscribe`, `Publish` | Broker, Feed |
| Subscriber pumps, `pumpWS` and `handlePublicSubscribe` in `internal/transport` | the envelope being written, the connection's context | take, write, fail, stop | Broker |
| Catch-up and publish handlers, same file | what has been replayed | append then publish (WebSocket), publish then append (HTTP), `CatchUp` | Delivery |
| Retention store, `internal/store` | a Redis stream, limits and counters per channel, a byte counter per account | `Append`, `PruneExpired`, `SetChannelLimits` | Retention, Shelf, Ttl |
| Creation, tickets and registry, `transport.go`, `internal/store`, `internal/auth`, `serve.go` | channel records, tickets, channel counters, in-memory map of keys | three create paths, `IssueGrant`, `Register`, `Verify`, `Load` | Admission |
| Rate limiters, connection counter, `internal/limits` | token buckets, counts per IP | `Allow`, `Acquire`, `Release` | Limits, Edge |
| WebSocket handshake and reader, `handleWS`, `authenticateWS` | the frame awaited, the connection's slot | challenge, response, read, reject | Edge |
| Accounts, API keys | an id, its counters | create, verify | as opaque owners, in Admission and Retention |
| Android connection manager, `android/` | topic list, a job and a connection per topic, duplicate filter, saved cursor | `sync`, connect, retry, receive, save | Client |
| Android echo registry | messages sent by the app | `record`, `isOwnEcho` | no: nothing calls `record` |
| Envelope codec | none | `Decode`, `Validate` | Edge, as valid or not |
| Cryptography, CLI, admin statistics, Android UI, demo page | none | pure functions, single requests | no |

### How they interact

A request is a goroutine. WebSocket and SSE handlers subscribe to the broker and
drain their subscription. A publish enqueues under `b.mu` to every subscriber
and closes those whose queue was full after unlocking. Retained messages go
through one Lua script per append, while the sweeper of `serve.go` issues one
Redis command after another. Creation writes a Redis record by script and then
registers the key in memory. The registry is what both attach paths consult, and
a restart reloads it from Redis. The phone subscribes over either path and
reconnects with a cursor. Before any of that a WebSocket connection takes a slot
of its address, and every publish asks the rate limiter, on either path.

### What is hard about it

- `Publish` drops a subscriber under the lock and closes it later, next to that
  subscriber's own pump and its deferred `Unsubscribe`.
- The two publish paths touch broker and store in opposite orders, and an
  attaching session reads the two in its own order.
- The sweeper deletes a message and corrects three counters in four commands.
  Appends run in between, each command may fail, the broker may die.
- A create is a script and a registration, and either can lose to another create.
- `Allow` reads the clock before it takes its lock, and two publish paths spend
  from one bucket. A connection's slot must survive every way a handler can end.
- The phone's job, its topic list and OkHttp's threads meet without a lock, and
  a cancelled coroutine goes on to its next suspension point.

`PROJECT.json` lists each of these hazards at its line, with the properties that
would catch it going wrong.

### What makes each component correct

- Broker: a client gets a gap-free run of the publish order, being slow costs the
  subscription and never one envelope, every dropped subscription is torn down.
- Delivery: a message is missed only for a reason the design admits.
- Retention: counters follow what is stored, caps and quota hold, a message goes
  only when expired or evicted, expired messages do go although a sweep's reads
  and writes may fail.
- Admission: a channel has one owner and, in one run of the broker, one key, which
  later runs admit if their start could read it; a ticket makes one channel; an
  account stays below its cap.
- Edge: a channel gets its rate and not more, nobody is refused for nothing, the
  connection counter is exact and every slot comes back.
- Client: the cursor covers no message that a catch-up could still show, every
  message a connection fails to show has a known reason, and so has every
  repetition, a listed topic is served in the end.

## 2. The modules

| Module | Models | Role |
|---|---|---|
| Feed | what the broker promises: a live, at-most-once feed | abstract specification |
| Broker | `broker.go`, the goroutines that drive it | implements Feed |
| BrokerProofs | | theorems about Broker |
| Shelf | what the store promises of one channel: seqs in sequence, eviction of the oldest, deletion of the expired | abstract specification |
| Delivery | the seam between replay and live stream | composes Feed and Shelf |
| Retention | `messages.go`, limits, sweeper | implements Shelf, per channel |
| RetentionProofs | | theorems about Retention |
| Admission | creation, tickets, registry, attach, restart | |
| AdmissionProofs | | theorems about Admission |
| DeliveryProofs, OrderProofs | | theorems about Delivery |
| Limits | `RateLimiter` and `tokenBucket` | component of Edge |
| Edge | `handleWS` with its handshake and reader, `ConnCounter`, the entry of `handlePublicPublish` | composes Limits with its callers |
| LimitsProofs, EdgeProofs | | lemmas about Limits, theorems about Edge |
| Ttl | from a request's `ttl_sec` to a message's expiry, in fixed-width words | arithmetic |
| Client | the receiving half of the Android app | |
| ClientProofs | | theorems about Client |
| MCRetention, MCAdmission, MCEdge | | instances: symmetry, function-valued constants |

Delivery repeats neither the broker nor the store. Its live side is `INSTANCE
Feed` and its store side `INSTANCE Shelf`; `BrokerImplementsFeed` and
`RetentionImplementsShelf` justify that. A *seeded fault* in a module is a wrong
variant of the definition after it, the way that code could plausibly be wrong;
the property it names is violated when the fault replaces the definition.

### Broker

`nextID`, `subs`, `channel`, `out` and `closed` are the fields of `Broker` and
`Subscription`. `writer` and `hand` are the program counter and the local
variable of the loop that drains `sub.C`; `handler` is that of the HTTP handler.
`log`, `since` and `recv` are history. Everything under `b.mu` is one step; the
closes of `toDrop` and of `Unsubscribe` are steps of their own. The enqueues of
one `Publish` are one step, as they concern different Go channels. A `select`
with several ready cases takes any, so a closed subscription may still hand over
what is queued.

### Retention

A Lua script or one Redis command is a step. `Append` is `GetChannel` and a
script, with a change of limits possible in between. `PruneExpired` keeps its
position in `sweep`, `todo`, `at`, `expired` and `victim`. `faults` counts failed
commands and broker crashes. Each of the sweeper's commands may fail: `SMEMBERS`,
which ends the sweep, `XRANGE`, which skips the channel (`SweepReadFails`), `XDEL`,
executed or not (`SweepDeleteFails`), and the counter updates (`SweepUpdateFails`).
Redis is durable here. What a set of entries takes up is the number of its bytes
(`Bytes`: each entry paired with each of its bytes), so that sizes add up as sets do.

### Admission

A create request is its script and its `Register`. The open path is the guard
and, later, the subscription. Redis may not run a script (`CreateFails`), or
run it and its reply is lost: then the record is there, the caller gets an error
and nothing is registered (the second disjunct of `Proceed`). `Restart` loads the
registry from the records and loses unanswered requests; a record that cannot be
read is skipped in silence, as in `AllChannelKAuth`, and `unread` remembers which.
A ticket is saved and given its expiry by two commands. Creation by account counts
against `channels`; creation by ticket does not (`grant.go`).

### Delivery

`stored` is the order of appends (the index is the seq), `kept` the entries of
the stream, `expired` those of them that are past their TTL. How they change is
Shelf's: an append may evict any number of the oldest entries, since byte caps,
counters that are too high and limits that were changed make any number
possible; the sweeper removes what is expired, some time later. A WebSocket
message is appended, then published; an HTTP one is published, then appended;
the account quota may refuse either append, which does not stop the publish. A
session attaches with any cursor, one ahead of the stream included (Redis may
lose its last second in a crash), is given the first `Batch` entries after it
less the expired ones, writes them and goes live. `found` is history: the store
as the catch-up read it. A failed catch-up is skipped silently, as in the code;
`MissedForAReason` speaks of those sessions too.

### Limits and Edge

`buckets` is `RateLimiter.buckets`, `reading` the `t` of an `Allow` in progress:
the clock is read in one step and the lock taken in another, so a bucket can be
handed a time older than its `last`. Tokens are integers in units of one clock
tick's refill, and an event costs `Cost` of them. `spent` and `opened` are
history. In Edge a goroutine's `stage` is its place in `handleWS`,
`authenticateWS`, `pumpWS` or `handlePublicPublish`; `count` is
`ConnCounter.count`; `broken` says that the connection is gone or its context
cancelled. Both publish paths call one `RateLimiter`. A frame is described by
what the reader asks of it. The pump's writer is in Broker, where its cancel is
`WriterFailed`; here it is one of the causes of `Break`.

### Ttl

A `time.Duration` and an `int64` are words of `2 * Half` values, a second is
`Second` units, and the product wraps. `Append` computes the expiry as the script
does. `made` tells who chose the channel's TTL: the cap is for clients only.

### Client

`entry`, `cursor` and `secret` are TopicStore and SecretVault; `dirty` and
`snapshot` the topic flow and the value its collector holds; `job` the entry in
`jobs`; `conn` the stage of the topic's connection; `after` the cursor of the
`Topic` value captured by the job; `seen` the duplicate filter. A FATAL job stays
in `jobs`. `Make`, `Keep` and `Dial` are the three statements of `runEncrypted`
and `runPlaintext` between which `stopTopic` can run; a cancelled job still takes
them. A SEALED topic drops what is not base64 or does not open (`Garbage`) before
the duplicate filter.

The broker is the one of Delivery as the phone sees it. `log` is what was published,
`half` what has been appended and not yet published or the other way round, as the
mode says which path publishes: WebSocket peers on an encrypted channel, HTTP on an
open one. `stored`, `kept` and `expired` are the stream; an append may be refused
and may evict any number of the oldest entries. `Accept` subscribes; then `CatchUp`
reads one `Batch` past the job's cursor, or `NoReplay` goes on without, because the
channel is not retained or because the read failed. `backlog` is the replay, `wire`
the live messages behind it. `joined`, `found` and `passed` are history: what was
published before the subscription, the stream as the catch-up read it, and what was
gone or expired when some catch-up of the topic read past it. The last is in
`CursorIsCovered` because such a message lies below the seqs that are shown and
saved, and no catch-up could show it any more.

Two things are assumed of what is outside `src/`. A live event carries no seq:
`PlaintextConnection.kt:27` says `seq` is "null for live-only frames", and the model
takes that at its word. With an SSE reader that hands the last event id on to
events without one, live messages after a replay would share a duplicate key with
the last one replayed. And Redis is durable, as in Retention.

## 3. The runs

| Run | Shows | Bounds |
|---|---|---|
| broker | type and four safety invariants, that Broker implements Feed, teardown and arrival | 2 subscriptions, 1 publishing goroutine, queues of 2, 3 envelopes |
| retention | counters, account quota, caps, reasons for disappearance, that each channel implements Shelf, expiry is swept | 2 appenders, 2 channels of 1 account, one with 2 messages and changing limits, one with 1, 2 sizes, 1 fault |
| retention_evicts | violation: early eviction | 1 channel, no fault |
| admission | ownership, tickets, cap, keys, restart | 3 requests, 2 channels, 2 keys, 1 ticket, cap 1, 1 restart that reads any of the records |
| admission_key, admission_open | violations: a created key does not admit; open path into a private channel | 2 requests |
| delivery | what may be missed after a catch-up that was read or failed, replay is a run, order of first sight | 1 session, 1 WebSocket and 1 HTTP sender, 2 messages each, batch 2, 1 entry evicted or swept, 1 expired at a time, cursor up to 1 ahead |
| delivery_gap | violation: lost between replay and live | as delivery |
| client | cursor, repetitions, completeness, service | 1 topic, encrypted or sealed, 2 messages of 2 texts, one of which does not open, batch 1, 1 expired or evicted, filter of 1 key, 1 break, 1 restart |
| client_dropped | violation: a removed topic keeps its connection | 1 message, no break |
| edge | slots, rate, refusals, slots come back | 3 connections and 1 HTTP publisher of 1 address, 2 slots, burst 1, 1 tick |
| ttl_overflow | violation: a TTL above the cap | words of 8 bits, a second of 10 units, every `ttl_sec` of a word |

Why the bounds suffice to meet the interesting cases: a queue of two with three
envelopes can be full and can be partly drained; two subscriptions let one be
dropped while another is served; a cap of one byte for messages of one and two
makes the eviction loop run zero, one and two times; two appenders overlap on
one channel or on the two that share the quota; three requests are one more than
the two that race for a name; a batch of 2 with four messages, or of 1 with two,
lets a batch be cut off; messages of one text coincide, and a filter of one key
is smaller than what two messages have, so the filter forgets and a reconnect
shows again what was pushed out, as the app's 2000 do with a longer backlog (see
below). A PLAINTEXT topic differs from a SEALED one only in that it drops
nothing, so it behaves like a SEALED one to which no garbage is sent, and the
run leaves it out; the theorems do not. Two slots for three connections make one
be refused and one wait for a release; a burst of one and one tick make a caller
with an old clock reading meet a bucket that has moved on. One publishing
goroutine cannot drop a subscription while another publishes: for two, the
fairness checks outgrow what a run may take, and what that interleaving could
break is the safety part, which is proved for any number of them. The 8-bit word
keeps the proportion that matters, a cap well below half a word and a second of
more than one unit. Every bound is a constant named `Max...` in its module.
`CHECK_DEADLOCK FALSE` is set everywhere: all systems here may stop, when nobody
sends any more or a bound is reached.

Symmetry is used only where the checked formulas have no fairness.

### Fairness

- Broker: weak fairness of the close loop, of a `select` with a ready case, of
  the deferred `Unsubscribe` and of a WebSocket write, which `writeTimeout` ends.
  No fairness for an SSE write: the server sets no write deadline. The liveness
  properties therefore speak of WebSocket subscribers.
- Retention: weak fairness of the sweeper, whose ticker fires as
  long as the broker runs. Faults are bounded in number, so some sweep succeeds.
- Edge: weak fairness of each handler goroutine. Every read of the handshake is
  under `handshakeTimeout` and every write under `writeTimeout`, so these steps
  end; the reader's wait for a frame does not, and nothing is assumed of clients.
- Client: weak fairness of the coroutines on `Dispatchers.IO` and of a dial, which
  OkHttp's timeouts and pings end. Breaks and restarts are bounded in number, never
  fair.

## 4. What the runs found

Six runs end in a violation, each of a sentence of the repository.

1. `retention_evicts`: an append between the sweeper's `XDEL` and its counter
   updates, or after one that failed, evicts a message although the channel is
   within its caps.
2. `admission_key`: a retained create racing with an ephemeral one of the same
   name is answered "created" although the registry holds the other key.
3. `admission_open`: a subscription of the open path outlives the registration of
   its name, and the guard is not repeated.
4. `delivery_gap`: an HTTP message published before a session subscribes and
   appended after its catch-up reaches it on neither way.
5. `client_dropped`: a topic removed between two statements of its job leaves an
   open connection that nothing closes any more.
6. `ttl_overflow`: a `ttl_sec` above 9223372036 may wrap around to a negative
   duration, which passes below the cap; the messages of that channel never expire.

Reading the code for the models showed other disagreements, which no run covers:

- `docs/ADMIN.md:290` says channels with `ttl_sec = 0` are skipped by the sweeper.
  It looks at each entry's expiry only, so messages stored under an earlier TTL
  go. (`GoneForAReason` permits it.)
- `README.md:82-83` says a reconnecting subscriber receives the messages it
  missed. Catch-up is one batch of `maxCatchUp` and is not repeated.
  (`MissedForAReason` and `StreamIsComplete` have the exception.)
- `README.md:93-95`, `docs/SECURITY.md:106` and `docs/ADMIN.md:204` say anonymous
  retained channels do not exist; `transport.go:425-487` creates them.
- `EncryptedConnection.kt:80` says an omitted `after_seq` means "from current".
  The broker takes it for 0 and replays from the beginning.
- The app's filter knows a replayed plaintext message by its seq and a live one
  by its text: one message may be reported twice, and two messages with the same
  text are shown once (`RepeatsOnlyAcrossSeam` and `StreamIsComplete` bound the
  damage). A job always replays from the cursor it started with, so a backlog
  longer than the filter is reported again.
- `android/README.md` says messages you sent are not notified back. Nothing calls
  `recordPlaintextSend` or `sendEncrypted`.

## 5. The proofs

TLAPS proves, for any constants that satisfy the modules' assumptions:

| Theorem | States |
|---|---|
| TypeCorrect | `Spec => []TypeOK` of Broker |
| GapFreeRunHolds | what was written, is in hand and is queued is one run of the publish order |
| AttachedMissesNothingHolds | who is in the map has been handed everything since it subscribed |
| PerSenderOrderHolds | no envelope of a sender out of order or twice |
| NobodyLeftHangingHolds | who left the map is closed or about to be |
| BrokerImplementsFeed | Broker implements Feed under the mapping of `AbstractFeed` |
| AdmissionTypeCorrect | `Spec => []TypeOK` of Admission |
| RetainedIsOursHolds | a retained channel answered "created" is its creator's, across races and restarts |
| TicketOnceHolds | a ticket makes one channel at most, of a name it covers |
| CounterMatchesHolds | an account's counter is the number of its ticketless channels, within the cap |
| EphemeralAdmitsHolds | an ephemeral channel answered "created" admits its key for the rest of the run |
| RestartAdmitsHolds | a retained channel answered "created" with a key admits it in every later run whose start could read its record; else no key, or an ephemeral create's |
| KeyIsStableHolds | a step within a run never changes the key a channel admits (action property) |
| RetentionTypeCorrect | `Spec => []TypeOK` of Retention |
| CountersExactHolds | without faults every counter is what is stored and what the sweeper owes |
| NeverUndercountedHolds | with any faults no counter is below what is stored |
| QuotaHoldsAlways | an account never has more stored than its quota |
| AppendFitsCapsHolds | after an append the channel is within the caps it read, or empty (action property) |
| GoneForAReasonHolds | a message goes only when expired, or evicted with all older ones (action property) |
| RetentionImplementsShelf | each channel of Retention implements Shelf under `AbstractShelf` |
| DeliveryTypeCorrect | `Spec => []TypeOK` of Delivery |
| ReplayIsARunHolds | a catch-up is a run, in order, of what could be read past the cursor |
| MissedForAReasonHolds | a streaming session, its catch-up read or failed, misses a message for one of five reasons and no other |
| FirstSeenInOrderHolds | a session first sees a sender's messages in the order they were sent, with two exceptions |
| ClientTypeCorrect | `Spec => []TypeOK` of Client |
| CursorIsCoveredHolds | the saved cursor covers only what was shown, does not open, or was gone or expired when a catch-up read past it |
| RepeatsOnlyAcrossSeamHolds | a message is shown twice only across the seam, or when the filter has forgotten it |
| StreamIsCompleteHolds | a connection that has delivered all it was sent has shown all published since it was subscribed and all of the stream, with four exceptions: gone or expired, a failed catch-up, a full batch before it, appended after the catch-up |
| EdgeTypeCorrect | `Spec => []TypeOK` of Edge, the buckets' range included |
| SlotsMatchHolds | the connection counter is the number of connections in a handler, within the cap |
| PostedWithinRateHolds | both publish paths together keep a channel to its burst and refill |
| RefusedAfterBurstHolds | no caller is refused by a bucket that has not handed out its burst (action property) |

**Broker.** `TypeOK` is not inductive: `WriterWrote` appends `Head(hand[s])`,
which is an envelope only because the loop is in its write. `Shape` adds what is
missing: ids above `nextID` are untouched (IdsInUse), the map holds a
subscription only under its own channel (OwnChannel), the loop has exactly one
envelope while it writes and none while it selects (HandOK). The inductive
invariant of the safety theorems is `TypeOK /\ Shape /\ GapFreeRun /\
AttachedMissesNothing`. The two last parts need each other: a publish keeps the
window of an attached subscriber gap-free only because that window reaches the
end of the log. `PerSenderOrder` adds that the log itself is ordered per sender
and follows from the window. The refinement is step by step: a publish is a
`Post` whose laggards are the full subscribers, a write is a `Read`, an
`Unsubscribe` of an attached subscription is a `Leave`, everything else stutters.

**Admission.** `TypeOK` is inductive, and it already says that an ephemeral record
has a key and no owner. What the other invariants lack is the moment between a
create's script and its `Register`. `Recorded` says that a request at that point
owns its record already: a script writes only under a free name and no step
deletes a record, so ownership lasts, and a restart loads the creator's key.
`Timely` says that such a request is of the current run and has a key, which
separates the two promises about keys: `EphemeralAdmits` holds until the next
restart, `RestartAdmits` from the next restart on. A channel whose record that
restart could not read admits no key until an ephemeral create takes the name, and
from then on that key (`Reopened`). `TicketSpent` is `TicketOnce`
without cardinalities. `CounterMatches` is inductive as it stands. The channels
must be finitely many, a ticket must not be called "retained" or "ephemeral" in
the model, and the cap must be positive (`AdmissionAssumption`). Nothing is
assumed of the number of requests and connections.

**Delivery.** `FeedInv` says of the live side that a session was handed a run of
the log from where it subscribed, and that while it is attached the rest of the
log is in its queue. `ReplayOf` describes the other side: what a session was or
will be replayed is exactly what its catch-up could read and no full batch lay
before. `MissedForAReason` joins the two (if the catch-up failed only the live side
speaks), and what it needs besides is the order
of the publish paths (`SeamInv`): a stored message is published or its WebSocket
sender is about to (`Published`), and a WebSocket message published before a
session subscribed was stored when its catch-up was read (`StoredFirst`). That
last fact holds because such a message is stored before it is published, and its
message number cannot come again (`Begun`). For an HTTP message it fails, which
is finding 4.

**The order of first sight.** `OrderProofs` adds what each side knows about one
sender: it finishes with a message before it begins the next, so store and log
have its messages ascending (`Increasing`), and all it began but the last are
stored or refused (`Placed`). What a client was written is the replayed seqs,
ascending, and then what was read of the queue (`SeenAs`). So only a live message
can be older than one seen before it, and then the older one of the two was in
the store when the replay passed it by: below the cursor, gone, or expired.

**Retention.** A counter's *slack* is what it shows beyond what is stored and what
the sweeper has deleted and not yet taken off. No step lowers the slack of a
counter, and only a fault raises it (`SlackStep`): an append adds to stream and
counter alike what it stores and evicts, `XDEL` turns what was stored into what
is owed, a counter update pays, a failed one leaves the debt as slack. It starts
at zero, so `CountersExact` holds without faults and `NeverUndercounted` with them
(`Ledger`). The quota is compared with a counter that is never below what is
stored, which gives `QuotaHolds`; the eviction loop with counters that are never
too low, which gives `AppendFitsCaps`. `SweepInv` says that what the sweeper works
on was past its expiry when it read the clock, and the clock only advances.
Sizes are cardinalities, for which the library's facts about finite sets suffice.
The refinement adds that no two entries have the same seq (`Keyed`): a step
adds an entry and evicts (`Adds`), deletes an expired one (`Drops`) or leaves the
entries as they are while time passes (`Keeps`), and these are Shelf's three
actions. Finding 1 is no contradiction: Shelf allows an eviction that no cap
called for. Assumed are a channel and a clock that starts at 1.

**Client.** A log and a stream only grow, so what is said of a message of either
lasts (`Lasting`). Every frame is of a message of the log and carries no seq or the
one its message is stored under (`FrameInv`). The filter is the window of the last
`SeenCap` keys shown (`FilterInv`), so what it rejects was shown before, and what it
shows twice has two keys or was pushed out between (`Spaced`). Below a message of
the replay everything is covered or is itself still in the replay (`QueueInv`),
because the batch is the lowest entries past a cursor below which all is covered.
So when its seq is launched for saving, what is below it is covered, and the same is
said of every cursor there is: the saved one, the pending ones, the collector's and
the job's (`CursorsCovered`). For completeness, what a connection owes its topic is
shown, on its way, or left out for one of the reasons (`Complete`); these speak of
the job's cursor, which a new job sets, and so a connection that its job has left
behind must be of a removed topic (`OwnerInv`). `ChanInv` counts: no message is
appended twice. Most steps leave a topic's stream alone, extend its queue or cut it
(`Still`); catch-up and receive have a lemma each.

**Edge.** The counter is exact because each stage from Acquire to Release holds
one slot; that the connections are finitely many is all it needs. `RateInv` keeps
a bucket between two bounds, `Capacity <= tokens + spent <= Capacity + (last -
opened)`, with `last` never ahead of the clock, although a caller's `t` may be
older than it (`RefilledIsFair`). The lower bound is why nobody is refused too
early, the upper one the rate. `Covered` ties it to what is published: every
envelope of a channel, and every goroutine between its grant and its publish
(`Paid`), was paid for from the channel's bucket. A topic's token spent for a
publish that its address then loses is why that is an inequality. Arithmetic with
`Cost` is not linear and goes through lemmas of its own.

What rests on TLC alone: liveness (`ClosedIsTornDown`, `PublishedReachesClient`,
`ExpiredIsSwept`, `WantedIsServed`, `SlotComesBack`), since ENABLED and fairness are
beyond the prover; Ttl, which has one run and that a violation; and the
violations, which are counterexamples. Every safety property that a passing run
checks is a theorem.

## 6. What is not modelled

- Payloads, JSON, cryptography, HTTP status texts: opaque values.
- Loss inside Redis: its store is durable in Retention, Admission and Client; Delivery has
  its effect on a cursor.
- `createLim`, a second limiter of the kind Limits models, in front of creates; the
  account id and key checks of `authedAccount`; `/stats` and `/admin/channels`, which
  only read.
- Floating point: tokens are `float64` in the code and integers in Limits.
- The command line client, one request per invocation.
- `Registry.Remove`, `OnChange`, `Snapshot`, `limits.gc` and the echo registry have
  no caller in the program, or none that changes anything.
- The length of delays and of backoff.

## 7. Plan

Done, in this order: Feed and Broker with their proofs, Retention, Admission with
its proofs, Delivery, Client, Limits and Edge with their proofs, Ttl, the proofs
of Delivery, Retention and Client, Shelf with its refinement. Next:

1. Delivery's session as the abstract subscription of Client's wire: the two
   modules now describe one broker, each from its end.
2. The accounts of Admission as created by requests of their own.
