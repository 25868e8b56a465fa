------------------------------- MODULE Client -------------------------------
(***************************************************************************)
(* The receiving half of the Android app: the topic list                   *)
(* (data/TopicStore.kt), the service that follows it                       *)
(* (service/SubscriptionService.kt), the connection manager with one job   *)
(* per topic (service/ConnectionManager.kt) and the two kinds of           *)
(* connection (broker/EncryptedConnection.kt, PlaintextConnection.kt).     *)
(*                                                                         *)
(* Three threads of control meet here.  The collector of the topic flow    *)
(* runs sync, the coroutine of each job makes and awaits connections, and  *)
(* OkHttp's reader threads call the listeners.  The coroutine does not     *)
(* suspend between making a connection and awaiting its end, so a cancel   *)
(* in between takes effect only at the await.                              *)
(*                                                                         *)
(* A SEALED topic connects, filters and saves like a PLAINTEXT one, but a  *)
(* message that its key does not open is dropped before the filter.  The   *)
(* echo registry stays empty, as nothing in the app calls sendEncrypted or *)
(* recordPlaintextSend.                                                    *)
(*                                                                         *)
(* The broker is as in Delivery, seen from the phone: the two orders of    *)
(* publishing, the stream with its evictions, expiries and refusals, and a *)
(* catch-up that is read after the subscription, in one batch, or fails.   *)
(* The seq an event carries is the one the broker wrote with it.           *)
(***************************************************************************)
EXTENDS Integers, Sequences, FiniteSets, SequencesExt

CONSTANTS
    Topic,        \* ids of topics; the app makes a new one for every topic added
    Mode,         \* the modes they may have, of TopicMode
    Text,         \* message bodies, told apart by their content token
    Garbage,      \* those that are not base64 or that no SEALED topic's key opens
    NoSnapshot,   \* the collector has no topic list in hand
    SeenCap,      \* firstSeen's bound on the duplicate filter (2000)
    Batch,        \* maxCatchUp
    MaxLog,       \* bound: messages published on one topic's channel
    MaxLost,      \* bound: messages of one channel that expire or are evicted
    MaxDrops,     \* bound: connections that break
    MaxRestarts   \* bound: times the app's process is killed and restarted

ASSUME ClientAssumption ==
    /\ Mode \subseteq {"ENCRYPTED", "PLAINTEXT", "SEALED"}
    /\ Garbage \subseteq Text
    /\ SeenCap \in Nat \ {0} /\ Batch \in Nat \ {0}
    /\ {MaxLog, MaxLost, MaxDrops, MaxRestarts} \subseteq Nat

VARIABLES
    mode,       \* Topic.mode
    retained,   \* whether the broker retains the topic's channel
    log,        \* the texts published on the channel, in the order they began
    half,       \* messages appended and not yet published, or the other way round
    stored,     \* every message appended to the channel's stream, by seq
    kept,       \* the seqs still in the stream
    expired,    \* those of them that are past their expiry
    entry,      \* TopicStore: "new", "listed" or "removed"
    cursor,     \* TopicStore: Topic.lastSeenSeq
    secret,     \* SecretVault holds the topic's secret
    saving,     \* setLastSeenSeq coroutines launched and not yet run
    dirty,      \* the flow of topics has a value to deliver
    snapshot,   \* the value being collected
    job,        \* jobs: "none", "run", "backoff" or "failed"
    conn,       \* the topic's connection, see ConnStage
    after,      \* the cursor of the Topic captured by the job
    backlog,    \* the seqs of the replay on their way to the connection
    wire,       \* the live messages on their way to it, behind the replay
    seen,       \* seenIds, oldest first
    drops, restarts,
    posted,     \* history: what sink.onIncoming got since seenIds was new
    ever,       \* history: the messages it ever got
    joined,     \* history: what was published before the broker subscribed it
    found,      \* history: the stream as its catch-up read it
    passed      \* history: the seqs that were gone or expired when a catch-up of
                \* the topic read the stream past them

shelfVars  == <<stored, kept, expired>>
chanVars   == <<mode, retained, log, half, shelfVars>>
storeVars  == <<entry, cursor, secret, saving>>
flowVars   == <<dirty, snapshot>>
feedVars   == <<backlog, wire, joined, found>>
linkVars   == <<job, conn, after, feedVars, passed>>
filterVars == <<seen, posted, ever>>
boundVars  == <<drops, restarts>>
vars == <<chanVars, storeVars, flowVars, linkVars, filterVars, boundVars>>

\* "made": constructed.  "kept": also stored in encConns or plainConns.
\* "dialing": connect was called.  "answered": the challenge is answered
\* (AWAIT_OK).  "subscribed": the broker has subscribed it and not yet read its
\* catch-up.  "streaming".  "down": closed or failed, and done is completed.
ConnStage == {"none", "made", "kept", "dialing", "answered", "subscribed",
              "streaming", "down"}
Subscribed == {"subscribed", "streaming"}

Message == 1..MaxLog
Frame == [i : Message, seq : 0..MaxLog]
Key == [kind : {"id", "seq"}, n : Message] \cup [kind : {"txt"}, text : Text]

NoCatchUp == [done |-> FALSE, kept |-> {}, newest |-> 0]
CatchUpFound == [done : BOOLEAN, kept : SUBSET Message, newest : 0..MaxLog]

TypeOK ==
    /\ mode \in [Topic -> {"ENCRYPTED", "PLAINTEXT", "SEALED"}]
    /\ retained \in [Topic -> BOOLEAN]
    /\ log \in [Topic -> Seq(Text)]
    /\ half \in [Topic -> SUBSET Message]
    /\ stored \in [Topic -> Seq(Message)]
    /\ kept \in [Topic -> SUBSET Message]
    /\ expired \in [Topic -> SUBSET Message]
    /\ entry \in [Topic -> {"new", "listed", "removed"}]
    /\ cursor \in [Topic -> 0..MaxLog]
    /\ secret \in [Topic -> BOOLEAN]
    /\ saving \in [Topic -> SUBSET Message]
    /\ dirty \in BOOLEAN
    /\ \/ snapshot = NoSnapshot
       \/ DOMAIN snapshot \subseteq Topic /\ Range(snapshot) \subseteq 0..MaxLog
    /\ job \in [Topic -> {"none", "run", "backoff", "failed"}]
    /\ conn \in [Topic -> ConnStage]
    /\ after \in [Topic -> 0..MaxLog]
    /\ backlog \in [Topic -> SUBSET Message]
    /\ wire \in [Topic -> Seq(Message)]
    /\ seen \in [Topic -> Seq(Key)]
    /\ drops \in 0..MaxDrops /\ restarts \in 0..MaxRestarts
    /\ posted \in [Topic -> Seq(Frame)]
    /\ ever \in [Topic -> SUBSET Message]
    /\ joined \in [Topic -> SUBSET Message]
    /\ found \in [Topic -> CatchUpFound]
    /\ passed \in [Topic -> SUBSET Message]
    /\ \A t \in Topic :
        /\ Len(seen[t]) <= SeenCap
        /\ conn[t] \notin Subscribed => wire[t] = <<>> /\ backlog[t] = {}
        /\ job[t] \in {"backoff", "failed"} => conn[t] = "none"

Init ==
    /\ mode \in [Topic -> Mode]
    /\ retained \in [Topic -> BOOLEAN]
    /\ log = [t \in Topic |-> <<>>] /\ half = [t \in Topic |-> {}]
    /\ stored = [t \in Topic |-> <<>>]
    /\ kept = [t \in Topic |-> {}] /\ expired = [t \in Topic |-> {}]
    /\ entry = [t \in Topic |-> "new"]
    /\ cursor = [t \in Topic |-> 0]
    /\ secret = [t \in Topic |-> FALSE]
    /\ saving = [t \in Topic |-> {}]
    /\ dirty = TRUE /\ snapshot = NoSnapshot
    /\ job = [t \in Topic |-> "none"]
    /\ conn = [t \in Topic |-> "none"]
    /\ after = [t \in Topic |-> 0]
    /\ backlog = [t \in Topic |-> {}] /\ wire = [t \in Topic |-> <<>>]
    /\ seen = [t \in Topic |-> <<>>]
    /\ drops = 0 /\ restarts = 0
    /\ posted = [t \in Topic |-> <<>>] /\ ever = [t \in Topic |-> {}]
    /\ joined = [t \in Topic |-> {}] /\ found = [t \in Topic |-> NoCatchUp]
    /\ passed = [t \in Topic |-> {}]

----------------------------------------------------------------------------
(* The channel at the broker.                                              *)

\* Broker.Publish: a subscribed connection gets the message.
Air(t, i) ==
    wire' = IF conn[t] \in Subscribed THEN [wire EXCEPT ![t] = Append(@, i)] ELSE wire

WithinLosses(t) == Len(stored'[t]) <= Cardinality(kept'[t] \ expired'[t]) + MaxLost

\* Store.Append: the message is refused, for the quota or because Redis fails, or
\* it gets the next seq and the ring buffer drops the oldest entries.
Store(t, i) ==
    \/ UNCHANGED shelfVars
    \/ LET entries == kept[t] \cup {Len(stored[t]) + 1} IN
       /\ stored' = [stored EXCEPT ![t] = Append(@, i)]
       /\ \E gone \in SUBSET entries :
             /\ \A k \in gone, j \in entries \ gone : k < j
             /\ kept' = [kept EXCEPT ![t] = entries \ gone]
             /\ expired' = [expired EXCEPT ![t] = @ \ gone]
       /\ WithinLosses(t)

Fresh(t) == Len(log[t]) + 1

Begins(t, x) ==
    /\ Len(log[t]) < MaxLog
    /\ log' = [log EXCEPT ![t] = Append(@, x)]

Finishes(t, i) ==
    /\ i \in half[t]
    /\ half' = [half EXCEPT ![t] = @ \ {i}]
    /\ UNCHANGED <<mode, retained, log, storeVars, flowVars, job, conn, after, backlog,
                   joined, found, passed, filterVars, boundVars>>

\* pumpWS on a retained channel: append, and whatever came of that publish.
WsAppend(t, x) ==
    /\ mode[t] = "ENCRYPTED" /\ retained[t]
    /\ Begins(t, x)
    /\ half' = [half EXCEPT ![t] = @ \cup {Fresh(t)}]
    /\ Store(t, Fresh(t))
    /\ UNCHANGED <<mode, retained, storeVars, flowVars, linkVars, filterVars, boundVars>>

WsPublish(t, i) ==
    /\ mode[t] = "ENCRYPTED"
    /\ Finishes(t, i)
    /\ Air(t, i)
    /\ UNCHANGED shelfVars

\* handlePublicPublish publishes first, and then appends if the channel is
\* retained.  Without retention pumpWS only publishes too.
Publish(t, x) ==
    /\ ~ (mode[t] = "ENCRYPTED" /\ retained[t])
    /\ Begins(t, x)
    /\ half' = IF retained[t] THEN [half EXCEPT ![t] = @ \cup {Fresh(t)}] ELSE half
    /\ Air(t, Fresh(t))
    /\ UNCHANGED <<mode, retained, shelfVars, storeVars, flowVars, job, conn, after,
                   backlog, joined, found, passed, filterVars, boundVars>>

HttpAppend(t, i) ==
    /\ mode[t] # "ENCRYPTED"
    /\ Finishes(t, i)
    /\ Store(t, i)
    /\ UNCHANGED wire

\* A message outlives the TTL it was stored with, and later the sweeper deletes it.
Expire(t, k) ==
    /\ k \in kept[t] \ expired[t]
    /\ expired' = [expired EXCEPT ![t] = @ \cup {k}]
    /\ UNCHANGED <<mode, retained, log, half, stored, kept, storeVars, flowVars, linkVars,
                   filterVars, boundVars>>
    /\ WithinLosses(t)

Sweep(t, k) ==
    /\ k \in expired[t]
    /\ kept' = [kept EXCEPT ![t] = @ \ {k}]
    /\ expired' = [expired EXCEPT ![t] = @ \ {k}]
    /\ UNCHANGED <<mode, retained, log, half, stored, storeVars, flowVars, linkVars,
                   filterVars, boundVars>>

----------------------------------------------------------------------------
(* The topic list the user edits.                                          *)

\* addEncryptedTopic puts the secret before the topic is listed.
AddTopic(t) ==
    /\ entry[t] = "new"
    /\ entry' = [entry EXCEPT ![t] = "listed"]
    /\ secret' = [secret EXCEPT ![t] = mode[t] = "ENCRYPTED"]
    /\ dirty' = TRUE
    /\ UNCHANGED <<chanVars, cursor, saving, snapshot, linkVars, filterVars, boundVars>>

\* removeTopic: the list first, then the vault.
RemoveTopic(t) ==
    /\ entry[t] = "listed"
    /\ entry' = [entry EXCEPT ![t] = "removed"]
    /\ dirty' = TRUE
    /\ UNCHANGED <<chanVars, cursor, secret, saving, snapshot, linkVars, filterVars,
                   boundVars>>

RemoveSecret(t) ==
    /\ entry[t] = "removed" /\ secret[t]
    /\ secret' = [secret EXCEPT ![t] = FALSE]
    /\ UNCHANGED <<chanVars, entry, cursor, saving, flowVars, linkVars, filterVars,
                   boundVars>>

\* setLastSeenSeq: the writes are serialised by the store, in any order.
SaveCursor(t) == \E n \in saving[t] :
    /\ saving' = [saving EXCEPT ![t] = @ \ {n}]
    /\ IF entry[t] = "listed" /\ n > cursor[t]
         THEN cursor' = [cursor EXCEPT ![t] = n] /\ dirty' = TRUE
         ELSE UNCHANGED <<cursor, dirty>>
    /\ UNCHANGED <<chanVars, entry, secret, snapshot, linkVars, filterVars, boundVars>>

----------------------------------------------------------------------------
(* The collector of the topic flow.                                        *)

Collect ==
    /\ dirty /\ snapshot = NoSnapshot
    /\ dirty' = FALSE
    /\ snapshot' = [t \in {u \in Topic : entry[u] = "listed"} |-> cursor[t]]
    /\ UNCHANGED <<chanVars, storeVars, linkVars, filterVars, boundVars>>

\* Topics sync starts: wanted and without a job.  A job that ended as FATAL is
\* still in the map.
Starts(t) == t \in DOMAIN snapshot /\ job[t] = "none"

\* Topics sync stops: those with a job that are no longer wanted.
Stops(t) == job[t] # "none" /\ t \notin DOMAIN snapshot

\* What closing leaves of a connection.  One that is not in the map yet is not
\* found; a plaintext one that has not called connect has no source to cancel,
\* while an encrypted one is DEAD from then on.
Closed(t) ==
    IF \/ conn[t] = "made"
       \/ conn[t] = "kept" /\ mode[t] # "ENCRYPTED"
      THEN conn[t]
      ELSE "none"

\* What was on its way to the connections of the topics in S is lost with them.
Cut(S) ==
    /\ backlog' = [t \in Topic |-> IF t \in S THEN {} ELSE backlog[t]]
    /\ wire' = [t \in Topic |-> IF t \in S THEN <<>> ELSE wire[t]]
    /\ joined' = [t \in Topic |-> IF t \in S THEN {} ELSE joined[t]]
    /\ found' = [t \in Topic |-> IF t \in S THEN NoCatchUp ELSE found[t]]

Sync ==
    /\ snapshot # NoSnapshot
    /\ job' = [t \in Topic |-> IF Starts(t) THEN "run"
                               ELSE IF Stops(t) THEN "none" ELSE job[t]]
    /\ after' = [t \in Topic |-> IF Starts(t) THEN snapshot[t] ELSE after[t]]
    /\ conn' = [t \in Topic |-> IF Stops(t) THEN Closed(t) ELSE conn[t]]
    /\ Cut({t \in Topic : Stops(t)})
    /\ seen' = [t \in Topic |-> IF Stops(t) THEN <<>> ELSE seen[t]]
    /\ posted' = [t \in Topic |-> IF Stops(t) THEN <<>> ELSE posted[t]]
    /\ snapshot' = NoSnapshot
    /\ UNCHANGED <<chanVars, storeVars, dirty, passed, ever, boundVars>>

----------------------------------------------------------------------------
(* A job.  The three steps up to the dial are taken whether or not the job *)
(* has been cancelled in between.                                          *)

Moves(t, from, to) ==
    /\ conn[t] = from
    /\ conn' = [conn EXCEPT ![t] = to]
    /\ UNCHANGED <<chanVars, storeVars, flowVars, filterVars, boundVars>>

Make(t) ==
    /\ job[t] = "run" /\ conn[t] = "none"
    /\ mode[t] = "ENCRYPTED" => secret[t]
    /\ Moves(t, "none", "made")
    /\ UNCHANGED <<job, after, feedVars, passed>>

\* No secret stored: FATAL.  A SEALED topic always has the device's key pair, which
\* SecretVault makes when it is first asked for.
NoSecret(t) ==
    /\ job[t] = "run" /\ conn[t] = "none"
    /\ mode[t] = "ENCRYPTED" /\ ~secret[t]
    /\ job' = [job EXCEPT ![t] = "failed"]
    /\ UNCHANGED <<chanVars, storeVars, flowVars, conn, after, feedVars, passed,
                   filterVars, boundVars>>

Keep(t) == Moves(t, "made", "kept") /\ UNCHANGED <<job, after, feedVars, passed>>
Dial(t) == Moves(t, "kept", "dialing") /\ UNCHANGED <<job, after, feedVars, passed>>

\* The hello was sent and the challenge came: AWAIT_CHALLENGE to AWAIT_OK.
Answer(t) ==
    /\ mode[t] = "ENCRYPTED"
    /\ Moves(t, "dialing", "answered")
    /\ UNCHANGED <<job, after, feedVars, passed>>

\* What has been published: an encrypted message with half its way to go has not.
Aired(t) == 1..Len(log[t]) \ (IF mode[t] = "ENCRYPTED" THEN half[t] ELSE {})

\* The broker accepts and subscribes.
Accept(t) ==
    /\ Moves(t, IF mode[t] = "ENCRYPTED" THEN "answered" ELSE "dialing", "subscribed")
    /\ joined' = [joined EXCEPT ![t] = Aired(t)]
    /\ UNCHANGED <<job, after, backlog, wire, found, passed>>

\* The broker answers "not authorized", or 403: FATAL, if the job still awaits.
Refuse(t) ==
    /\ Moves(t, IF mode[t] = "ENCRYPTED" THEN "answered" ELSE "dialing", "none")
    /\ job' = [job EXCEPT ![t] = IF @ = "run" THEN "failed" ELSE @]
    /\ UNCHANGED <<after, feedVars, passed>>

\* The n lowest of a set of seqs.
Lowest(S, n) == {k \in S : Cardinality({j \in S : j < k}) < n}

\* Seeded fault (CursorIsCovered): the replay starts one too late.
WindowLate(t) == Lowest({k \in kept[t] : k > after[t] + 1}, Batch)

\* XRANGE returns the first Batch entries past the position the job asks for,
\* expired ones too.  An absent one, as for every job whose cursor is 0, is the
\* beginning.
Window(t) == Lowest({k \in kept[t] : k > after[t]}, Batch)

\* Seeded fault (StreamIsComplete): what was queued while the catch-up was read is thrown away.
CatchUpOverwrites(t) ==
    /\ retained[t]
    /\ Moves(t, "subscribed", "streaming")
    /\ backlog' = [backlog EXCEPT ![t] = Window(t) \ expired[t]]
    /\ wire' = [wire EXCEPT ![t] = <<>>]
    /\ found' = [found EXCEPT ![t] = [done |-> TRUE, kept |-> kept[t],
                                      newest |-> Len(stored[t])]]
    /\ passed' = [passed EXCEPT ![t] = @ \cup
                     ((after[t] + 1 .. Len(stored[t])) \ (kept[t] \ expired[t]))]
    /\ UNCHANGED <<job, after, joined>>

\* The broker reads the catch-up, drops what has expired and sends the rest ahead
\* of the live messages.
CatchUp(t) ==
    /\ retained[t]
    /\ Moves(t, "subscribed", "streaming")
    /\ backlog' = [backlog EXCEPT ![t] = Window(t) \ expired[t]]
    /\ found' = [found EXCEPT ![t] = [done |-> TRUE, kept |-> kept[t],
                                      newest |-> Len(stored[t])]]
    /\ passed' = [passed EXCEPT ![t] = @ \cup
                     ((after[t] + 1 .. Len(stored[t])) \ (kept[t] \ expired[t]))]
    /\ UNCHANGED <<job, after, wire, joined>>

\* The channel is not retained, or the catch-up cannot be read, which nobody is told.
NoReplay(t) ==
    /\ Moves(t, "subscribed", "streaming")
    /\ UNCHANGED <<job, after, feedVars, passed>>

\* The connection breaks: TRANSIENT.
Drop(t) ==
    /\ conn[t] \in {"dialing", "answered"} \cup Subscribed
    /\ drops < MaxDrops /\ drops' = drops + 1
    /\ conn' = [conn EXCEPT ![t] = IF job[t] = "run" THEN "down" ELSE "none"]
    /\ Cut({t})
    /\ UNCHANGED <<chanVars, storeVars, flowVars, job, after, passed, filterVars, restarts>>

\* Seeded fault (RepeatsOnlyAcrossSeam): the duplicate filter is made anew for every connection.
BackOffForgets(t) ==
    /\ job[t] = "run" /\ conn[t] = "down"
    /\ job' = [job EXCEPT ![t] = "backoff"]
    /\ conn' = [conn EXCEPT ![t] = "none"]
    /\ seen' = [seen EXCEPT ![t] = <<>>]
    /\ UNCHANGED <<chanVars, storeVars, flowVars, after, feedVars, passed, posted,
                   ever, boundVars>>

\* Seeded fault (TypeOK): the closed connection stays in the map.
BackOffKeeps(t) ==
    /\ job[t] = "run"
    /\ Moves(t, "down", "down")
    /\ job' = [job EXCEPT ![t] = "backoff"]
    /\ UNCHANGED <<after, feedVars, passed>>

\* Seeded fault (WantedIsServed): a transient break ends the job.
BackOffEnds(t) ==
    /\ job[t] = "run"
    /\ Moves(t, "down", "none")
    /\ job' = [job EXCEPT ![t] = "none"]
    /\ UNCHANGED <<after, feedVars, passed>>

\* The job resumes after done, takes the connection out and backs off.
BackOff(t) ==
    /\ job[t] = "run"
    /\ Moves(t, "down", "none")
    /\ job' = [job EXCEPT ![t] = "backoff"]
    /\ UNCHANGED <<after, feedVars, passed>>

Retry(t) ==
    /\ job[t] = "backoff"
    /\ job' = [job EXCEPT ![t] = "run"]
    /\ UNCHANGED <<chanVars, storeVars, flowVars, conn, after, feedVars, passed,
                   filterVars, boundVars>>

----------------------------------------------------------------------------
(* The listeners, and the end of the process.                              *)

\* The broker keeps the envelope's id; an open topic's message is known by its seq
\* or else by its content.
KeyOf(t, f) ==
    IF mode[t] = "ENCRYPTED" THEN [kind |-> "id", n |-> f.i]
    ELSE IF f.seq > 0 THEN [kind |-> "seq", n |-> f.seq]
    ELSE [kind |-> "txt", text |-> log[t][f.i]]

FirstSeen(t, f) == ~Contains(seen[t], KeyOf(t, f))

Remember(t, f) == LET grown == Append(seen[t], KeyOf(t, f))
                  IN  IF Len(grown) > SeenCap THEN Tail(grown) ELSE grown

\* A SEALED topic drops what does not decode or does not open.
Unopenable(t, i) == mode[t] = "SEALED" /\ log[t][i] \in Garbage

\* onMessage, firstSeen, onIncoming: the message is notified and, with a seq,
\* the saving of the cursor is launched.
Shows(t, f) ==
    /\ IF Unopenable(t, f.i) \/ ~FirstSeen(t, f)
         THEN UNCHANGED <<filterVars, saving>>
         ELSE /\ seen' = [seen EXCEPT ![t] = Remember(t, f)]
              /\ posted' = [posted EXCEPT ![t] = Append(@, f)]
              /\ ever' = [ever EXCEPT ![t] = @ \cup {f.i}]
              /\ saving' = [saving EXCEPT ![t] = @ \cup ({f.seq} \ {0})]
    /\ UNCHANGED <<chanVars, entry, cursor, secret, flowVars, job, conn, after, joined,
                   found, passed, boundVars>>

\* The next message of the replay; the broker writes its seq on an open topic only.
ReceiveReplay(t, k) ==
    /\ conn[t] = "streaming"
    /\ k \in backlog[t] /\ \A j \in backlog[t] : k <= j
    /\ backlog' = [backlog EXCEPT ![t] = @ \ {k}]
    /\ Shows(t, [i |-> stored[t][k], seq |-> IF mode[t] = "ENCRYPTED" THEN 0 ELSE k])
    /\ UNCHANGED wire

\* The next live message, which has no seq.
ReceiveLive(t) ==
    /\ conn[t] = "streaming"
    /\ backlog[t] = {} /\ wire[t] # <<>>
    /\ wire' = [wire EXCEPT ![t] = Tail(@)]
    /\ Shows(t, [i |-> Head(wire[t]), seq |-> 0])
    /\ UNCHANGED backlog

Receive(t) == (\E k \in backlog[t] : ReceiveReplay(t, k)) \/ ReceiveLive(t)

\* The process is killed and the sticky service started again.
Restart ==
    /\ restarts < MaxRestarts /\ restarts' = restarts + 1
    /\ saving' = [t \in Topic |-> {}]
    /\ dirty' = TRUE /\ snapshot' = NoSnapshot
    /\ job' = [t \in Topic |-> "none"]
    /\ conn' = [t \in Topic |-> "none"]
    /\ Cut(Topic)
    /\ seen' = [t \in Topic |-> <<>>]
    /\ posted' = [t \in Topic |-> <<>>]
    /\ UNCHANGED <<chanVars, entry, cursor, secret, after, passed, ever, drops>>

UserStep(t) == AddTopic(t) \/ RemoveTopic(t) \/ RemoveSecret(t)
JobStep(t) == Make(t) \/ NoSecret(t) \/ Keep(t) \/ Dial(t) \/ BackOff(t) \/ Retry(t)
BrokerStep(t) == Answer(t) \/ Accept(t) \/ CatchUp(t) \/ NoReplay(t)
ChannelStep(t) ==
    \/ \E x \in Text : WsAppend(t, x) \/ Publish(t, x)
    \/ \E i \in half[t] : WsPublish(t, i) \/ HttpAppend(t, i)
    \/ \E k \in kept[t] : Expire(t, k) \/ Sweep(t, k)

Next ==
    \/ \E t \in Topic :
        \/ ChannelStep(t)
        \/ UserStep(t) \/ SaveCursor(t) \/ JobStep(t) \/ BrokerStep(t)
        \/ Refuse(t) \/ Drop(t) \/ Receive(t)
    \/ Collect \/ Sync \/ Restart

Spec == Init /\ [][Next]_vars

\* Dispatchers.IO runs every coroutine that can run, the backoff delay is at
\* most a minute, and a dial is answered or breaks.
Fairness ==
    /\ WF_vars(Collect) /\ WF_vars(Sync)
    /\ \A t \in Topic : WF_vars(JobStep(t)) /\ WF_vars(BrokerStep(t))

FairSpec == Spec /\ Fairness

----------------------------------------------------------------------------
(* Properties.                                                             *)

\* The saved cursor covers a message of the stream only if it was shown, if a
\* SEALED topic cannot open it, or if a catch-up of the topic read the stream after
\* it had expired or been evicted.  So nothing that a catch-up could still read is
\* lost to a cursor that is saved too far: setLastSeenSeq runs later and in any
\* order, a reconnect replays from the stale cursor of the job, and a restart
\* forgets the writes that were pending.
Covered(t, k) ==
    \/ stored[t][k] \in ever[t]
    \/ Unopenable(t, stored[t][k])
    \/ k \in passed[t]

CursorIsCovered == \A t \in Topic : \A k \in 1..cursor[t] : Covered(t, k)

\* Between two resets of seenIds onIncoming gets a message twice only if it is one of
\* an open topic, once with its seq and once live, or if SeenCap others came in
\* between and pushed it out of the filter, however often the job reconnects from
\* its stale cursor.  (An encrypted message has one key.)
RepeatsOnlyAcrossSeam ==
    \A t \in Topic : \A a, b \in DOMAIN posted[t] :
        a < b /\ posted[t][a].i = posted[t][b].i =>
            \/ b - a > SeenCap
            \/ mode[t] # "ENCRYPTED" /\ posted[t][a].seq # posted[t][b].seq

\* Message i was shown, or it cannot be: it does not open, or the duplicate filter
\* of an open topic takes it for a repetition of another one with its text.
Shown(t, i) ==
    \/ i \in ever[t]
    \/ Unopenable(t, i)
    \/ mode[t] # "ENCRYPTED" /\ \E j \in ever[t] \ {i} : log[t][j] = log[t][i]

\* A full batch of entries lay between the job's cursor and k.
BeyondBatch(t, k) ==
    Cardinality({j \in found[t].kept : after[t] < j /\ j < k}) >= Batch

\* A connection that has delivered all it was sent has shown every message that was
\* published since the broker subscribed it, and every message of the stream but
\* those that were gone or expired when a catch-up of the topic read the stream, and
\* those past the job's cursor that its own catch-up did not return: it failed, or a
\* whole batch of entries lay before them, or they were appended after it was read.
\* An encrypted one of the last kind is still to be published; an open topic's may
\* have been published before the broker subscribed the connection.
StreamIsComplete ==
    \A t \in Topic : conn[t] = "streaming" /\ backlog[t] = {} /\ wire[t] = <<>> =>
        /\ \A i \in Aired(t) \ joined[t] : Shown(t, i)
        /\ \A k \in 1..Len(stored[t]) :
              \/ Shown(t, stored[t][k])
              \/ k \in passed[t]
              \/ /\ k > after[t]
                 /\ \/ ~ found[t].done
                    \/ k <= found[t].newest /\ BeyondBatch(t, k)
                    \/ /\ k > found[t].newest
                       /\ mode[t] = "ENCRYPTED" => stored[t][k] \in half[t]

\* A listed topic is connected in the end, unless it is removed or its job ended
\* as FATAL: sync, the job and its retries lose no topic, whatever breaks or is
\* killed a bounded number of times.
WantedIsServed ==
    \A t \in Topic :
        entry[t] = "listed" ~> \/ conn[t] = "streaming"
                               \/ job[t] = "failed"
                               \/ entry[t] = "removed"

\* ConnectionManager.kt:52, "Bring connections in line with [topics] (start new,
\* drop removed)": once sync has seen the removal the topic has no stream.
DroppedIsClosed ==
    \A t \in Topic : entry[t] = "removed" /\ ~dirty /\ snapshot = NoSnapshot =>
        conn[t] \notin Subscribed
=============================================================================
