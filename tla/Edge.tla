-------------------------------- MODULE Edge --------------------------------
(***************************************************************************)
(* The edge of the server (internal/transport/transport.go): what a        *)
(* connection goes through before and while it is pumped, and what every   *)
(* publish goes through before it reaches the broker.                      *)
(*                                                                         *)
(*   handleWS             the connection counter of the IP, the upgrade,   *)
(*                        the challenge/response, the reader of pumpWS     *)
(*   handlePublicPublish  the guard, the two rate limits, the body         *)
(*                                                                         *)
(* Both publish through one RateLimiter (pubChan), the one of Limits: a    *)
(* channel's bucket is under its name, an address's under "ip:" and the    *)
(* address.  Name and IP may overlap, a topic may be called ip:<address>.  *)
(*                                                                         *)
(* A handler goroutine serves one request after the other, all of one IP.  *)
(* Timeouts happen at any moment; the clock of Limits is only what Allow   *)
(* reads.  Broker has the pump's writer, Delivery the store.               *)
(***************************************************************************)
EXTENDS Limits, FiniteSets

CONSTANTS
    Conn,         \* goroutines of /ws
    Poster,       \* goroutines of /publish/
    Name,         \* channel names
    NoName,       \* no channel
    IP,           \* client addresses
    ip,           \* clientIP of a goroutine's requests
    MaxConns      \* limits.ConnectionsPerIP

ASSUME EdgeAssumption ==
    /\ Caller = Conn \cup Poster /\ Conn \cap Poster = {}
    /\ IsFiniteSet(Conn) /\ IsFiniteSet(Poster)
    /\ BucketKey = Name \cup IP
    /\ NoName \notin Name
    /\ ip \in [Caller -> IP]
    /\ MaxConns \in Nat

VARIABLES
    registered,  \* names in the auth registry
    count,       \* ConnCounter.count (0 = an absent key)
    stage,       \* where a goroutine is
    name,        \* the channel a connection asked for in its handshake
    target,      \* the channel of the envelope a goroutine is publishing
    broken,      \* the connection is gone, or its context is cancelled
    posted       \* history: envelopes handed to the broker, per channel

edgeVars == <<registered, count, stage, name, target, broken, posted>>
vars == <<limitVars, edgeVars>>

Shaking == {"accept", "hello", "challenge", "refuse", "greet"}
Pumping == {"replay", "read", "limit", "answer", "post"}
Posting == {"limit", "ip", "body"}

TypeOK ==
    /\ LimitsTypeOK
    /\ registered \subseteq Name
    /\ count \in [IP -> Nat]
    /\ stage \in [Caller -> Shaking \cup Pumping \cup Posting \cup {"idle", "leave"}]
    /\ \A p \in Poster : stage[p] \in Posting \cup {"idle"}
    /\ \A h \in Conn : stage[h] \notin {"ip", "body"}
    /\ name \in [Conn -> Name \cup {NoName}]
    /\ target \in [Caller -> Name \cup {NoName}]
    /\ broken \in [Conn -> BOOLEAN]
    /\ posted \in [Name -> Nat]

Init ==
    /\ LimitsInit
    /\ registered = {}
    /\ count = [i \in IP |-> 0]
    /\ stage = [c \in Caller |-> "idle"]
    /\ name = [h \in Conn |-> NoName]
    /\ target = [c \in Caller |-> NoName]
    /\ broken = [h \in Conn |-> FALSE]
    /\ posted = [n \in Name |-> 0]

Moves(c, from, to) == stage[c] = from /\ stage' = [stage EXCEPT ![c] = to]

-----------------------------------------------------------------------------
(* handleWS: the slot and the handshake *)

\* ConnCounter.Acquire.  At the cap the request is answered 429 and nothing
\* changes.
Acquire(h) ==
    /\ Moves(h, "idle", "accept")
    /\ count[ip[h]] < MaxConns
    /\ count' = [count EXCEPT ![ip[h]] = @ + 1]
    /\ UNCHANGED <<limitVars, registered, name, target, broken, posted>>

\* Seeded fault (SlotsMatch): the release is deferred after the upgrade.
AcceptDefersLate(h) ==
    /\ Moves(h, "accept", "hello") \/ Moves(h, "accept", "idle")
    /\ UNCHANGED <<limitVars, registered, count, name, target, broken, posted>>

\* websocket.Accept upgrades the connection, or has written an error.
Accept(h) ==
    /\ Moves(h, "accept", "hello") \/ Moves(h, "accept", "leave")
    /\ UNCHANGED <<limitVars, registered, count, name, target, broken, posted>>

\* The first frame names the channel; the challenge is written.
Hello(h, n) ==
    /\ Moves(h, "hello", "challenge")
    /\ name' = [name EXCEPT ![h] = n]
    /\ UNCHANGED <<limitVars, registered, count, target, broken, posted>>

\* The response is the one the key registered for that channel gives.
Verified(h) ==
    /\ Moves(h, "challenge", "greet")
    /\ name[h] \in registered
    /\ UNCHANGED <<limitVars, registered, count, name, target, broken, posted>>

\* Seeded fault (SlotComesBack): the first frame is awaited without a timeout.
HandshakeWaits(h) ==
    /\ Moves(h, "challenge", "refuse")
    /\ UNCHANGED <<limitVars, registered, count, name, target, broken, posted>>

\* Every other end of authenticateWS looks the same from outside: a read or a
\* write that fails or outlasts handshakeTimeout, a frame that is not the JSON
\* expected, a wrong response, a channel that is not registered.
HandshakeFails(h) ==
    /\ Moves(h, "hello", "refuse") \/ Moves(h, "challenge", "refuse")
    /\ UNCHANGED <<limitVars, registered, count, name, target, broken, posted>>

\* The answer is written, or not, within writeTimeout; the handler returns.
Refuse(h) ==
    /\ Moves(h, "refuse", "leave")
    /\ UNCHANGED <<limitVars, registered, count, name, target, broken, posted>>

\* The ok is written and pumpWS entered, or the write fails.
Greet(h) ==
    /\ Moves(h, "greet", "replay") \/ Moves(h, "greet", "leave")
    /\ UNCHANGED <<limitVars, registered, count, name, target, broken, posted>>

\* The catch-up is behind it, or a write of it failed.
Replay(h) ==
    /\ Moves(h, "replay", "read") \/ Moves(h, "replay", "leave")
    /\ UNCHANGED <<limitVars, registered, count, name, target, broken, posted>>

\* The deferred ConnCounter.Release.
Release(h) ==
    /\ Moves(h, "leave", "idle")
    /\ count' = IF count[ip[h]] > 0 THEN [count EXCEPT ![ip[h]] = @ - 1] ELSE count
    /\ name' = [name EXCEPT ![h] = NoName]
    /\ broken' = [broken EXCEPT ![h] = FALSE]
    /\ UNCHANGED <<limitVars, registered, target, posted>>

-----------------------------------------------------------------------------
(* pumpWS: the reader *)

\* What a text frame is to the reader: whether envelope.Decode accepts it, the
\* channel it names and whether it is larger than MaxMessageBytes.  Frames that
\* are not text are skipped.
Frame == [valid : BOOLEAN, channel : Name, large : BOOLEAN]

Admissible(h, f) == f.valid /\ f.channel = name[h] /\ ~ f.large

\* An admissible frame goes on to the rate limiter.
TakeFrame(h, f) ==
    /\ ~ broken[h]
    /\ Admissible(h, f)
    /\ Moves(h, "read", "limit")
    /\ target' = [target EXCEPT ![h] = f.channel]
    /\ UNCHANGED <<limitVars, registered, count, name, broken, posted>>

\* Any other is answered with an error envelope.
RejectFrame(h, f) ==
    /\ ~ broken[h]
    /\ ~ Admissible(h, f)
    /\ Moves(h, "read", "answer")
    /\ UNCHANGED <<limitVars, registered, count, name, target, broken, posted>>

\* s.pubChan.Allow(channel).
FrameLimited(h, granted) ==
    /\ Moves(h, "limit", IF granted THEN "post" ELSE "answer")
    /\ Allow(h, name[h], granted)
    /\ UNCHANGED <<registered, count, name, target, broken, posted>>

\* The append to the store, whatever comes of it, and s.broker.Publish(e).
FramePosted(h) ==
    /\ Moves(h, "post", "read")
    /\ posted' = [posted EXCEPT ![target[h]] = @ + 1]
    /\ target' = [target EXCEPT ![h] = NoName]
    /\ UNCHANGED <<limitVars, registered, count, name, broken>>

\* sendError: its write ends within writeTimeout; one that failed has closed the
\* connection.
Answered(h) ==
    /\ Moves(h, "answer", "read")
    /\ target' = [target EXCEPT ![h] = NoName]
    /\ \/ UNCHANGED broken
       \/ broken' = [broken EXCEPT ![h] = TRUE]
    /\ UNCHANGED <<limitVars, registered, count, name, posted>>

\* The client goes away, or the writer goroutine cancels the context.
Break(h) ==
    /\ stage[h] \in Pumping
    /\ ~ broken[h]
    /\ broken' = [broken EXCEPT ![h] = TRUE]
    /\ UNCHANGED <<limitVars, registered, count, stage, name, target, posted>>

\* c.Read fails; pumpWS returns.
ReadFails(h) ==
    /\ broken[h]
    /\ Moves(h, "read", "leave")
    /\ UNCHANGED <<limitVars, registered, count, name, target, broken, posted>>

-----------------------------------------------------------------------------
(* handlePublicPublish *)

\* guardPublicTopic lets the topic pass.
OpenPublish(p, n) ==
    /\ n \notin registered
    /\ Moves(p, "idle", "limit")
    /\ target' = [target EXCEPT ![p] = n]
    /\ UNCHANGED <<limitVars, registered, count, name, broken, posted>>

\* s.pubChan.Allow(topic): refused, the second Allow is not called.
TopicLimited(p, granted) ==
    /\ Moves(p, "limit", IF granted THEN "ip" ELSE "idle")
    /\ Allow(p, target[p], granted)
    /\ target' = IF granted THEN target ELSE [target EXCEPT ![p] = NoName]
    /\ UNCHANGED <<registered, count, name, broken, posted>>

\* s.pubChan.Allow("ip:" + clientIP(r)): refused, the topic's token is gone.
AddressLimited(p, granted) ==
    /\ Moves(p, "ip", IF granted THEN "body" ELSE "idle")
    /\ Allow(p, ip[p], granted)
    /\ target' = IF granted THEN target ELSE [target EXCEPT ![p] = NoName]
    /\ UNCHANGED <<registered, count, name, broken, posted>>

\* The body is over 1 MiB, or is published.
BodyRead(p) ==
    /\ Moves(p, "body", "idle")
    /\ \/ posted' = [posted EXCEPT ![target[p]] = @ + 1]
       \/ UNCHANGED posted
    /\ target' = [target EXCEPT ![p] = NoName]
    /\ UNCHANGED <<limitVars, registered, count, name, broken>>

-----------------------------------------------------------------------------
\* POST /channel registers a name (Admission has the detail).
Register(n) ==
    /\ n \notin registered
    /\ registered' = registered \cup {n}
    /\ UNCHANGED <<limitVars, count, stage, name, target, broken, posted>>

\* A goroutine at an Allow reads the clock before it asks for the lock.
AllowBegins(c) ==
    /\ stage[c] \in {"limit", "ip"}
    /\ ReadClock(c)
    /\ UNCHANGED edgeVars

\* What a /ws goroutine does of itself; the reader waits for a frame as long as
\* the connection is up.
HandlerStep(h) ==
    \/ Accept(h) \/ HandshakeFails(h) \/ Refuse(h) \/ Greet(h) \/ Replay(h)
    \/ Release(h)
    \/ AllowBegins(h) \/ \E granted \in BOOLEAN : FrameLimited(h, granted)
    \/ FramePosted(h) \/ Answered(h) \/ ReadFails(h)

ClientStep(h) ==
    \/ Acquire(h) \/ Verified(h) \/ Break(h)
    \/ \E n \in Name : Hello(h, n)
    \/ \E f \in Frame : TakeFrame(h, f) \/ RejectFrame(h, f)

PosterStep(p) ==
    \/ \E n \in Name : OpenPublish(p, n)
    \/ AllowBegins(p)
    \/ \E granted \in BOOLEAN : TopicLimited(p, granted) \/ AddressLimited(p, granted)
    \/ BodyRead(p)

Next ==
    \/ \E h \in Conn : HandlerStep(h) \/ ClientStep(h)
    \/ \E p \in Poster : PosterStep(p)
    \/ \E n \in Name : Register(n)
    \/ Tick /\ UNCHANGED edgeVars

Spec == Init /\ [][Next]_vars

\* Goroutines that can run do, and every read of a handshake and every write is
\* under a timeout.  Nothing is assumed of clients.
Fairness == \A h \in Conn : WF_vars(HandlerStep(h))

FairSpec == Spec /\ Fairness

-----------------------------------------------------------------------------
(* Properties *)

\* The connections of address i that are between Acquire and Release.
Holders(i) == {h \in Conn : ip[h] = i /\ stage[h] # "idle"}

\* The counter of an address is the number of its connections in a handler,
\* whatever way they got there and whatever way others left: no end of handleWS
\* keeps a slot, none gives one back twice, and the cap holds.
SlotsMatch ==
    \A i \in IP : /\ count[i] = Cardinality(Holders(i))
                  /\ count[i] <= MaxConns

\* A connection is never stuck with its slot: from the handshake, and from a pump
\* whose connection is gone, the handler returns or goes on to serve a client.
Serving(h) == stage[h] \in Pumping /\ ~ broken[h]

SlotComesBack ==
    \A h \in Conn :
        stage[h] # "idle" /\ ~ Serving(h) ~> stage[h] = "idle" \/ Serving(h)

\* No channel is sent more than its burst and what the clock has refilled since
\* its bucket was made, by WebSocket peers and HTTP clients together, although
\* callers of Allow reach the lock with clock readings out of order.
PostedWithinRate ==
    \A n \in Name :
        posted[n] > 0 => posted[n] * Cost <= Capacity + (now - opened[n])

\* c is refused by the bucket of k in this step.
Refused(c, k) ==
    /\ reading[c] # NotCalling /\ reading'[c] = NotCalling
    /\ buckets'[k] # NoBucket /\ spent' = spent
    /\ k = IF stage[c] = "ip" THEN ip[c] ELSE target[c]

\* Nobody is refused by a bucket that has not handed out its whole burst: no
\* order of the callers loses tokens.
RefusedAfterBurst ==
    [][\A c \in Caller, k \in BucketKey :
          Refused(c, k) => spent[k] + Cost > Capacity]_vars
=============================================================================
