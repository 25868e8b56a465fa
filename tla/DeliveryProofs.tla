--------------------------- MODULE DeliveryProofs ---------------------------
(***************************************************************************)
(* Theorems about Delivery, for any sessions, senders, queue depth, batch, *)
(* and bounds.                                                             *)
(*                                                                         *)
(* The argument.  A session that is attached has been handed, or has in    *)
(* its queue, what was published since it subscribed (FeedInv).  A message *)
(* that is stored has been published, or its WebSocket sender is about to  *)
(* (Published); a WebSocket message published before a session subscribed  *)
(* is in what its catch-up read, as it was stored even earlier             *)
(* (StoredFirst).  What the catch-up read and did not return is accounted  *)
(* for by ReplayInv.                                                       *)
(***************************************************************************)
EXTENDS Delivery, FiniteSetTheorems, TLAPS

\* TypeOK by the groups of variables.
FeedTypeOK ==
    /\ log \in [{Topic} -> Seq(Envelope)]
    /\ on \in [Session -> {Topic, NoChannel}]
    /\ source \in [Session -> {Topic, NoChannel}]
    /\ since \in [Session -> Nat]
    /\ limit \in [Session -> Nat]
    /\ recv \in [Session -> Seq(Envelope)]

StoreTypeOK ==
    /\ stored \in Seq(Envelope)
    /\ kept \subseteq 1 .. Len(stored)
    /\ expired \subseteq kept
    /\ refused \subseteq Envelope

SendTypeOK ==
    /\ sent \in [Sender -> 0..MaxSent]
    /\ half \in [Sender -> Seq(Envelope)]

SessTypeOK ==
    /\ phase \in [Session -> {"off", "joined", "replay", "live", "over"}]
    /\ after \in [Session -> Nat]
    /\ backlog \in [Session -> SUBSET Nat]
    /\ caught \in [Session -> SUBSET Nat]
    /\ \A s \in Session : backlog[s] \subseteq 1 .. Len(stored)
    /\ seen \in [Session -> Seq(Envelope)]
    /\ found \in [Session -> CatchUpFound]

\* What a session has been handed is the log from where it subscribed, and while
\* it is attached the rest of the log is in its queue.
FeedInv ==
    \A s \in Session :
        /\ limit[s] <= Len(log[Topic])
        /\ since[s] + Len(recv[s]) <= limit[s]
        /\ on[s] = Topic => limit[s] = Len(log[Topic])
        /\ \A i \in 1 .. Len(recv[s]) : recv[s][i] = log[Topic][since[s] + i]

LEMMA TypeParts == TypeOK <=> FeedTypeOK /\ StoreTypeOK /\ SendTypeOK /\ SessTypeOK
  BY DEF TypeOK, FeedTypeOK, StoreTypeOK, SendTypeOK, SessTypeOK

-----------------------------------------------------------------------------
(* What the actions do *)

LEMMA FeedStutter ==
    ASSUME FeedTypeOK, FeedInv, UNCHANGED feedVars
    PROVE  FeedTypeOK' /\ FeedInv'
  BY DEF FeedTypeOK, FeedInv, feedVars

\* Publishing appends to the log; a session is extended by it or detached.
LEMMA PostOutcome ==
    ASSUME FeedTypeOK, FeedInv, NEW e \in Envelope, Post(e)
    PROVE  /\ FeedTypeOK' /\ FeedInv'
           /\ log'[Topic] = Append(log[Topic], e)
           /\ since' = since /\ recv' = recv
<1>1. PICK laggards \in SUBSET Session : Live!Post(Topic, e, laggards)
  BY DEF Post
<1>2. /\ log' = [log EXCEPT ![Topic] = Append(@, e)]
      /\ on' = [r \in Session |-> IF r \in laggards THEN NoChannel ELSE on[r]]
      /\ limit' = [r \in Session |-> IF on[r] = Topic /\ r \notin laggards
                                       THEN limit[r] + 1 ELSE limit[r]]
      /\ source' = source /\ since' = since /\ recv' = recv
  BY <1>1 DEF Live!Post
<1>3. log[Topic] \in Seq(Envelope) /\ log'[Topic] = Append(log[Topic], e)
  BY <1>2 DEF FeedTypeOK
<1>4. /\ Len(log'[Topic]) = Len(log[Topic]) + 1 /\ Len(log[Topic]) \in Nat
      /\ \A i \in 1 .. Len(log[Topic]) : log'[Topic][i] = log[Topic][i]
  BY <1>3
<1>5. FeedTypeOK'
  <2>1. log' \in [{Topic} -> Seq(Envelope)]
    BY <1>2, <1>3 DEF FeedTypeOK
  <2>2. on' \in [Session -> {Topic, NoChannel}]
    BY <1>2 DEF FeedTypeOK
  <2>3. limit' \in [Session -> Nat]
    BY <1>2 DEF FeedTypeOK
  <2> QED
    BY <1>2, <2>1, <2>2, <2>3 DEF FeedTypeOK
<1>6. FeedInv'
  <2>1. SUFFICES ASSUME NEW s \in Session
        PROVE /\ limit'[s] <= Len(log'[Topic])
              /\ since'[s] + Len(recv'[s]) <= limit'[s]
              /\ on'[s] = Topic => limit'[s] = Len(log'[Topic])
              /\ \A i \in 1 .. Len(recv'[s]) :
                    recv'[s][i] = log'[Topic][since'[s] + i]
    BY DEF FeedInv
  <2> DEFINE n == Len(log[Topic])
             m == Len(recv[s])
  <2>2. /\ limit[s] <= n /\ since[s] + m <= limit[s]
        /\ on[s] = Topic => limit[s] = n
        /\ \A i \in 1 .. m : recv[s][i] = log[Topic][since[s] + i]
    BY DEF FeedInv
  <2>3. /\ since[s] \in Nat /\ limit[s] \in Nat /\ n \in Nat /\ m \in Nat
        /\ on[s] \in {Topic, NoChannel} /\ Topic # NoChannel
    BY <1>4, DeliveryAssumption DEF FeedTypeOK
  <2>4. /\ since'[s] = since[s] /\ recv'[s] = recv[s]
        /\ on'[s] = IF s \in laggards THEN NoChannel ELSE on[s]
        /\ limit'[s] = IF on[s] = Topic /\ s \notin laggards
                         THEN limit[s] + 1 ELSE limit[s]
    BY <1>2
  <2>5. \A i \in 1 .. m : since[s] + i \in 1 .. n
    BY <2>2, <2>3
  <2>6. \A i \in 1 .. m : recv'[s][i] = log'[Topic][since'[s] + i]
    BY <1>4, <2>2, <2>4, <2>5
  <2> HIDE DEF n, m
  <2>7. Len(log'[Topic]) = n + 1 /\ Len(recv'[s]) = m
    BY <1>4, <2>4 DEF n, m
  <2> QED
    BY <2>2, <2>3, <2>4, <2>6, <2>7
<1> QED
  BY <1>2, <1>3, <1>5, <1>6

LEMMA JoinOutcome ==
    ASSUME FeedTypeOK, FeedInv, NEW s \in Session, Live!Join(s, Topic), recv[s] = <<>>
    PROVE  /\ FeedTypeOK' /\ FeedInv' /\ log' = log /\ recv' = recv
           /\ since'[s] = Len(log[Topic])
           /\ \A t \in Session \ {s} : since'[t] = since[t]
<1>1. /\ on' = [on EXCEPT ![s] = Topic] /\ source' = [source EXCEPT ![s] = Topic]
      /\ since' = [since EXCEPT ![s] = Len(log[Topic])]
      /\ limit' = [limit EXCEPT ![s] = Len(log[Topic])]
      /\ log' = log /\ recv' = recv
  BY DEF Live!Join
<1>2. log[Topic] \in Seq(Envelope) /\ Len(log[Topic]) \in Nat
  BY DEF FeedTypeOK
<1>3. FeedTypeOK'
  BY <1>1, <1>2 DEF FeedTypeOK
<1>4. \A t \in Session : /\ since'[t] = IF t = s THEN Len(log[Topic]) ELSE since[t]
                         /\ limit'[t] = IF t = s THEN Len(log[Topic]) ELSE limit[t]
                         /\ on'[t] = IF t = s THEN Topic ELSE on[t]
  BY <1>1 DEF FeedTypeOK
<1>5. Len(recv[s]) = 0
  OBVIOUS
<1>6. FeedInv'
  BY <1>1, <1>2, <1>4, <1>5 DEF FeedInv
<1> QED
  BY <1>1, <1>3, <1>4, <1>6

LEMMA ReadOutcome ==
    ASSUME FeedTypeOK, FeedInv, NEW s \in Session, Live!Read(s)
    PROVE  /\ FeedTypeOK' /\ FeedInv' /\ log' = log /\ since' = since
           /\ on' = on /\ limit' = limit
           /\ NextLive(s) \in Envelope
           /\ \A t \in Session : Len(recv'[t]) >= Len(recv[t])
<1> DEFINE x == NextLive(s)
           m == Len(recv[s])
           n == Len(log[Topic])
<1>1. /\ source[s] \in {Topic} /\ since[s] + Len(recv[s]) < limit[s]
      /\ recv' = [recv EXCEPT ![s] =
                     Append(@, log[source[s]][since[s] + Len(recv[s]) + 1])]
      /\ log' = log /\ on' = on /\ source' = source /\ since' = since
      /\ limit' = limit
  BY DEF Live!Read, Live!Position
<1>2. x = log[Topic][since[s] + m + 1]
  BY DEF NextLive, Live!Position
<1>3. recv' = [recv EXCEPT ![s] = Append(@, x)]
  BY <1>1, <1>2
<1>4. /\ log[Topic] \in Seq(Envelope) /\ recv[s] \in Seq(Envelope)
      /\ since[s] \in Nat /\ limit[s] \in Nat /\ n \in Nat /\ m \in Nat
  BY DEF FeedTypeOK
<1>5. limit[s] <= n /\ since[s] + m + 1 \in 1 .. n
  <2>1. limit[s] <= n
    BY DEF FeedInv
  <2>2. since[s] + m < limit[s]
    BY <1>1
  <2> HIDE DEF n, m
  <2> QED
    BY <1>4, <2>1, <2>2
<1>6. x \in Envelope
  BY <1>2, <1>4, <1>5
<1> HIDE DEF x
<1>7. FeedTypeOK'
  BY <1>1, <1>3, <1>4, <1>6 DEF FeedTypeOK
<1>8. /\ recv'[s] = Append(recv[s], x)
      /\ \A t \in Session \ {s} : recv'[t] = recv[t]
  BY <1>3 DEF FeedTypeOK
<1>9. FeedInv'
  <2>1. SUFFICES ASSUME NEW t \in Session
        PROVE /\ limit[t] <= Len(log[Topic])
              /\ since[t] + Len(recv'[t]) <= limit[t]
              /\ on[t] = Topic => limit[t] = Len(log[Topic])
              /\ \A i \in 1 .. Len(recv'[t]) :
                    recv'[t][i] = log[Topic][since[t] + i]
    BY <1>1 DEF FeedInv
  <2>2. /\ limit[t] <= Len(log[Topic])
        /\ since[t] + Len(recv[t]) <= limit[t]
        /\ on[t] = Topic => limit[t] = Len(log[Topic])
        /\ \A i \in 1 .. Len(recv[t]) : recv[t][i] = log[Topic][since[t] + i]
    BY DEF FeedInv
  <2>3. CASE t # s
    BY <1>8, <2>2, <2>3
  <2>4. CASE t = s
    <3>1. /\ Len(recv'[s]) = m + 1 /\ recv'[s][m + 1] = x
          /\ \A i \in 1 .. m : recv'[s][i] = recv[s][i]
      BY <1>4, <1>6, <1>8
    <3>2. recv'[s][m + 1] = log[Topic][since[s] + (m + 1)]
      <4>1. since[s] + (m + 1) = since[s] + m + 1
        BY <1>4
      <4> QED
        BY <1>2, <3>1, <4>1 DEF x
    <3>3. since[s] + (m + 1) <= limit[s]
      BY <1>1, <1>4
    <3>4. \A i \in 1 .. m + 1 : i \in 1 .. m \/ i = m + 1
      BY <1>4
    <3>5. \A i \in 1 .. m + 1 : recv'[s][i] = log[Topic][since[s] + i]
      BY <2>2, <2>4, <3>1, <3>2, <3>4
    <3> QED
      BY <2>2, <2>4, <3>1, <3>3, <3>5
  <2> QED
    BY <2>3, <2>4
<1>10. \A t \in Session : Len(recv'[t]) >= Len(recv[t])
  <2>1. \A t \in Session : Len(recv[t]) \in Nat
    BY DEF FeedTypeOK
  <2>2. Len(recv'[s]) = m + 1
    BY <1>4, <1>6, <1>8
  <2> QED
    BY <1>4, <1>8, <2>1, <2>2
<1> QED
  BY <1>1, <1>6, <1>7, <1>9, <1>10 DEF x

LEMMA LeaveOutcome ==
    ASSUME FeedTypeOK, FeedInv, NEW s \in Session, Live!Leave(s)
    PROVE  /\ FeedTypeOK' /\ FeedInv' /\ log' = log /\ since' = since /\ recv' = recv
<1>1. /\ on' = [on EXCEPT ![s] = NoChannel]
      /\ log' = log /\ source' = source /\ since' = since /\ limit' = limit
      /\ recv' = recv
  BY DEF Live!Leave
<1>2. FeedTypeOK'
  BY <1>1 DEF FeedTypeOK
<1>3. \A t \in Session : on'[t] = Topic => on[t] = Topic
  BY <1>1, DeliveryAssumption DEF FeedTypeOK
<1>4. FeedInv'
  BY <1>1, <1>3 DEF FeedInv
<1> QED
  BY <1>1, <1>2, <1>4

\* The store is only appended to.
LEMMA StoreOutcome ==
    ASSUME StoreTypeOK, NEW e \in Envelope, Store(e)
    PROVE  /\ StoreTypeOK'
           /\ stored' = stored \/ stored' = Append(stored, e)
           /\ stored' = stored => kept' = kept /\ expired' = expired
<1>1. CASE /\ refused' = refused \cup {e}
           /\ UNCHANGED <<stored, kept, expired>>
  BY <1>1 DEF StoreTypeOK
<1>2. ASSUME stored' = Append(stored, e), Stream!Add, refused' = refused
      PROVE  /\ StoreTypeOK'
             /\ stored' = stored \/ stored' = Append(stored, e)
             /\ stored' = stored => kept' = kept /\ expired' = expired
  <2>1. stored \in Seq(Envelope) /\ Len(stored) \in Nat
    BY DEF StoreTypeOK
  <2>2. /\ stored' \in Seq(Envelope) /\ Len(stored') = Len(stored) + 1
    BY <1>2, <2>1
  <2>3. 1 .. Len(stored) \subseteq 1 .. Len(stored') /\ Len(stored) + 1 \in 1 .. Len(stored')
    BY <2>1, <2>2
  <2>4. kept' \subseteq kept \cup {Len(stored) + 1} /\ expired' \subseteq kept'
    <3> DEFINE new == Len(stored) + 1
    <3>1. PICK gone \in SUBSET (kept \cup {new}) :
             /\ kept' = (kept \cup {new}) \ gone
             /\ \/ expired' = expired \ gone
                \/ expired' = (expired \cup {new}) \ gone
      BY <1>2 DEF Stream!Add
    <3>2. expired \subseteq kept
      BY DEF StoreTypeOK
    <3> QED
      BY <3>1, <3>2
  <2>5. stored' # stored
    BY <2>1, <2>2
  <2> QED
    BY <1>2, <2>2, <2>3, <2>4, <2>5 DEF StoreTypeOK
<1> QED
  BY <1>1, <1>2 DEF Store

LEMMA Longer ==
    ASSUME NEW q \in Seq(Envelope), NEW e \in Envelope
    PROVE  /\ Append(q, e) \in Seq(Envelope)
           /\ Len(Append(q, e)) = Len(q) + 1 /\ Len(q) \in Nat
           /\ 1 .. Len(q) \subseteq 1 .. Len(q) + 1
           /\ \A i \in 1 .. Len(q) : Append(q, e)[i] = q[i]
           /\ Append(q, e)[Len(q) + 1] = e
  OBVIOUS

LEMMA BeginsOutcome ==
    ASSUME SendTypeOK, NEW p \in Sender, Begins(p)
    PROVE  /\ SendTypeOK' /\ Fresh(p) \in Envelope
           /\ Fresh(p).sender = p /\ Fresh(p).n = sent[p] + 1
           /\ half[p] = <<>> /\ half'[p] = <<Fresh(p)>> /\ sent'[p] = sent[p] + 1
           /\ \A q \in Sender \ {p} : half'[q] = half[q] /\ sent'[q] = sent[q]
<1>1. /\ sent[p] < MaxSent /\ half[p] = <<>>
      /\ sent' = [sent EXCEPT ![p] = @ + 1]
      /\ half' = [half EXCEPT ![p] = <<Fresh(p)>>]
  BY DEF Begins
<1>2. sent[p] \in Nat /\ MaxSent \in Nat /\ sent[p] + 1 \in 1..MaxSent
  BY <1>1, DeliveryAssumption DEF SendTypeOK
<1>3. Fresh(p) \in Envelope /\ Fresh(p).sender = p /\ Fresh(p).n = sent[p] + 1
  BY <1>2 DEF Fresh, Envelope
<1>4. sent' \in [Sender -> 0..MaxSent]
  BY <1>1, <1>2 DEF SendTypeOK
<1>5. <<Fresh(p)>> \in Seq(Envelope)
  BY <1>3
<1>6. half' \in [Sender -> Seq(Envelope)]
  BY <1>1, <1>5 DEF SendTypeOK
<1> QED
  BY <1>1, <1>3, <1>4, <1>6 DEF SendTypeOK

LEMMA FinishesOutcome ==
    ASSUME SendTypeOK, NEW p \in Sender, Finishes(p)
    PROVE  /\ SendTypeOK' /\ Head(half[p]) \in Envelope
           /\ half[p] # <<>> /\ half'[p] = <<>> /\ sent' = sent
           /\ \A q \in Sender \ {p} : half'[q] = half[q]
<1>1. half[p] # <<>> /\ half' = [half EXCEPT ![p] = <<>>] /\ sent' = sent
  BY DEF Finishes
<1>2. half[p] \in Seq(Envelope) /\ <<>> \in Seq(Envelope)
  BY DEF SendTypeOK
<1>3. Head(half[p]) \in Envelope
  BY <1>1, <1>2
<1> QED
  BY <1>1, <1>2, <1>3 DEF SendTypeOK

-----------------------------------------------------------------------------
(* Type correctness *)

Inv == TypeOK /\ FeedInv /\ \A s \in Session : phase[s] = "off" => recv[s] = <<>>

LEMMA SenderKinds ==
    /\ \A p \in WsSender : p \in Sender /\ p \notin HttpSender
    /\ \A p \in HttpSender : p \in Sender /\ p \notin WsSender
    /\ \A p \in Sender : p \in WsSender \/ p \in HttpSender
  BY DeliveryAssumption DEF Sender

\* The sessions' own state is typed as long as the store does not shrink.
LEMMA SessStays ==
    ASSUME SessTypeOK, UNCHANGED sessVars, 1 .. Len(stored) \subseteq 1 .. Len(stored')
    PROVE  SessTypeOK'
  BY DEF SessTypeOK, sessVars

LEMMA StoreGrows ==
    ASSUME StoreTypeOK, NEW e \in Envelope, Store(e)
    PROVE  1 .. Len(stored) \subseteq 1 .. Len(stored')
<1>1. stored \in Seq(Envelope)
  BY DEF StoreTypeOK
<1>2. CASE stored' = stored
  BY <1>2
<1>3. CASE stored' = Append(stored, e)
  BY <1>1, <1>3, Longer
<1> QED
  BY <1>2, <1>3, StoreOutcome

LEMMA WindowKept == \A s \in Session : Window(s) \subseteq kept
  BY DEF Window, Lowest

LEMMA SessionStep ==
    ASSUME Inv, NEW s \in Session,
           \/ Attach(s) \/ CatchUp(s) \/ CatchUpFails(s)
           \/ \E k \in backlog[s] : Replay(s, k)
           \/ GoLive(s) \/ Deliver(s) \/ End(s)
    PROVE  Inv'
<1>0. /\ FeedTypeOK /\ StoreTypeOK /\ SendTypeOK /\ SessTypeOK /\ FeedInv
      /\ \A t \in Session : phase[t] = "off" => recv[t] = <<>>
  BY TypeParts DEF Inv
<1> DEFINE Rest == /\ StoreTypeOK' /\ SendTypeOK'
                   /\ SessTypeOK'
                   /\ \A t \in Session : phase'[t] = "off" => phase[t] = "off" /\ t # s
<1>r. ASSUME FeedTypeOK', FeedInv', Rest,
             \A t \in Session \ {s} : recv'[t] = recv[t]
      PROVE  Inv'
  <2>1. TypeOK'
    BY <1>r DEF TypeOK, FeedTypeOK, StoreTypeOK, SendTypeOK, SessTypeOK
  <2> QED
    BY <1>0, <1>r, <2>1 DEF Inv
<1>q. ASSUME UNCHANGED <<storeVars, sendVars>> PROVE StoreTypeOK' /\ SendTypeOK'
  BY <1>0, <1>q DEF StoreTypeOK, SendTypeOK, storeVars, sendVars
<1>1. CASE Attach(s)
  <2>1. /\ phase[s] = "off" /\ Live!Join(s, Topic)
        /\ phase' = [phase EXCEPT ![s] = "joined"]
        /\ \E k \in 0 .. Len(stored) + MaxAhead : after' = [after EXCEPT ![s] = k]
        /\ UNCHANGED <<storeVars, sendVars, backlog, caught, seen, found>>
    BY <1>1 DEF Attach
  <2>2. FeedTypeOK' /\ FeedInv' /\ recv' = recv
    BY <1>0, <2>1, JoinOutcome
  <2>3. SessTypeOK'
    BY <1>0, <2>1 DEF SessTypeOK, storeVars
  <2>4. \A t \in Session : phase'[t] = "off" => phase[t] = "off" /\ t # s
    BY <1>0, <2>1 DEF SessTypeOK
  <2> QED
    BY <1>r, <1>q, <2>1, <2>2, <2>3, <2>4
<1>2. CASE CatchUp(s)
  <2>1. /\ backlog' = [backlog EXCEPT ![s] = Window(s) \ expired]
        /\ found' = [found EXCEPT ![s] = [done |-> TRUE, kept |-> kept,
                                          expired |-> expired,
                                          newest |-> Len(stored)]]
        /\ phase' = [phase EXCEPT ![s] = "replay"]
        /\ UNCHANGED <<feedVars, storeVars, sendVars, after, caught, seen>>
    BY <1>2 DEF CatchUp
  <2>2. /\ kept \subseteq Nat /\ expired \subseteq Nat /\ Len(stored) \in Nat
        /\ Window(s) \subseteq 1 .. Len(stored) /\ Window(s) \subseteq Nat
    <3>1. Len(stored) \in Nat /\ 1 .. Len(stored) \subseteq Nat
      BY <1>0 DEF StoreTypeOK
    <3>2. kept \subseteq 1 .. Len(stored) /\ expired \subseteq kept
      BY <1>0 DEF StoreTypeOK
    <3> QED
      BY <3>1, <3>2, WindowKept
  <2>3. [done |-> TRUE, kept |-> kept, expired |-> expired, newest |-> Len(stored)]
           \in CatchUpFound
    BY <2>2 DEF CatchUpFound
  <2>4. found' \in [Session -> CatchUpFound]
    BY <1>0, <2>1, <2>3 DEF SessTypeOK
  <2>5. stored' = stored
    BY <2>1 DEF storeVars
  <2>6. /\ backlog' \in [Session -> SUBSET Nat]
        /\ \A t \in Session : backlog'[t] \subseteq 1 .. Len(stored)
    BY <1>0, <2>1, <2>2 DEF SessTypeOK
  <2>7. phase' \in [Session -> {"off", "joined", "replay", "live", "over"}]
    BY <1>0, <2>1 DEF SessTypeOK
  <2>8. SessTypeOK'
    BY <1>0, <2>1, <2>4, <2>5, <2>6, <2>7 DEF SessTypeOK
  <2>9. \A t \in Session : phase'[t] = "off" => phase[t] = "off" /\ t # s
    BY <1>0, <2>1 DEF SessTypeOK
  <2>10. FeedTypeOK' /\ FeedInv' /\ recv' = recv
    BY <1>0, <2>1, FeedStutter DEF feedVars
  <2> QED
    BY <1>r, <1>q, <2>1, <2>8, <2>9, <2>10
<1>3. CASE CatchUpFails(s) \/ GoLive(s)
  <2>1. /\ phase' = [phase EXCEPT ![s] = "live"]
        /\ UNCHANGED <<feedVars, storeVars, sendVars, after, backlog, caught, seen,
                       found>>
    BY <1>3 DEF CatchUpFails, GoLive
  <2>2. FeedTypeOK' /\ FeedInv' /\ recv' = recv
    BY <1>0, <2>1, FeedStutter DEF feedVars
  <2>3. SessTypeOK'
    BY <1>0, <2>1 DEF SessTypeOK, storeVars
  <2>4. \A t \in Session : phase'[t] = "off" => phase[t] = "off" /\ t # s
    BY <1>0, <2>1 DEF SessTypeOK
  <2> QED
    BY <1>r, <1>q, <2>1, <2>2, <2>3, <2>4
<1>4. ASSUME NEW k \in backlog[s], Replay(s, k) PROVE Inv'
  <2>1. /\ phase[s] = "replay"
        /\ caught' = [caught EXCEPT ![s] = @ \cup {k}]
        /\ seen' = [seen EXCEPT ![s] = Append(@, stored[k])]
        /\ backlog' = [backlog EXCEPT ![s] = @ \ {k}]
        /\ UNCHANGED <<feedVars, storeVars, sendVars, phase, after, found>>
    BY <1>4 DEF Replay
  <2>2. FeedTypeOK' /\ FeedInv' /\ recv' = recv
    BY <1>0, <2>1, FeedStutter DEF feedVars
  <2>3. k \in 1 .. Len(stored) /\ k \in Nat /\ stored[k] \in Envelope
    BY <1>0 DEF SessTypeOK, StoreTypeOK
  <2>4. seen' \in [Session -> Seq(Envelope)]
    BY <1>0, <2>1, <2>3 DEF SessTypeOK
  <2>5. SessTypeOK'
    BY <1>0, <2>1, <2>3, <2>4 DEF SessTypeOK, storeVars
  <2> QED
    BY <1>r, <1>q, <2>1, <2>2, <2>5
<1>5. CASE Deliver(s)
  <2>1. /\ phase[s] = "live" /\ Live!Read(s)
        /\ seen' = [seen EXCEPT ![s] = Append(@, NextLive(s))]
        /\ UNCHANGED <<storeVars, sendVars, phase, after, backlog, caught, found>>
    BY <1>5 DEF Deliver
  <2>2. FeedTypeOK' /\ FeedInv' /\ NextLive(s) \in Envelope
    BY <1>0, <2>1, ReadOutcome
  <2>3. seen' \in [Session -> Seq(Envelope)]
    BY <1>0, <2>1, <2>2 DEF SessTypeOK
  <2>4. SessTypeOK'
    BY <1>0, <2>1, <2>3 DEF SessTypeOK, storeVars
  <2>5. \A t \in Session \ {s} : recv'[t] = recv[t]
    BY <1>0, <2>1 DEF Live!Read, FeedTypeOK
  <2> QED
    BY <1>r, <1>q, <2>1, <2>2, <2>4, <2>5
<1>6. CASE End(s)
  <2>1. /\ phase' = [phase EXCEPT ![s] = "over"]
        /\ Live!Leave(s) \/ UNCHANGED feedVars
        /\ UNCHANGED <<storeVars, sendVars, after, backlog, caught, seen, found>>
    BY <1>6 DEF End
  <2>2. FeedTypeOK' /\ FeedInv' /\ recv' = recv
    BY <1>0, <2>1, FeedStutter, LeaveOutcome DEF feedVars
  <2>3. SessTypeOK'
    BY <1>0, <2>1 DEF SessTypeOK, storeVars
  <2>4. \A t \in Session : phase'[t] = "off" => phase[t] = "off" /\ t # s
    BY <1>0, <2>1 DEF SessTypeOK
  <2> QED
    BY <1>r, <1>q, <2>1, <2>2, <2>3, <2>4
<1> QED
  BY <1>1, <1>2, <1>3, <1>4, <1>5, <1>6

LEMMA SenderStep ==
    ASSUME Inv, NEW p \in Sender,
           \/ p \in WsSender /\ (WsAppend(p) \/ WsPublish(p))
           \/ p \in HttpSender /\ (HttpPublish(p) \/ HttpAppend(p))
    PROVE  Inv'
<1>0. /\ FeedTypeOK /\ StoreTypeOK /\ SendTypeOK /\ SessTypeOK /\ FeedInv
      /\ \A t \in Session : phase[t] = "off" => recv[t] = <<>>
  BY TypeParts DEF Inv
<1>1. ASSUME FeedTypeOK', FeedInv', recv' = recv, StoreTypeOK', SendTypeOK',
             1 .. Len(stored) \subseteq 1 .. Len(stored'), UNCHANGED sessVars
      PROVE  Inv'
  <2>1. SessTypeOK'
    BY <1>0, <1>1, SessStays
  <2>2. TypeOK'
    BY <1>1, <2>1 DEF TypeOK, FeedTypeOK, StoreTypeOK, SendTypeOK, SessTypeOK
  <2> QED
    BY <1>0, <1>1, <2>2 DEF Inv, sessVars
\* The two halves of a publish, whichever comes first.
<1>2. ASSUME NEW e \in Envelope, Store(e), UNCHANGED <<feedVars, sessVars>>,
             SendTypeOK'
      PROVE  Inv'
  <2>1. FeedTypeOK' /\ FeedInv' /\ recv' = recv
    BY <1>0, <1>2, FeedStutter DEF feedVars
  <2>2. StoreTypeOK' /\ 1 .. Len(stored) \subseteq 1 .. Len(stored')
    BY <1>0, <1>2, StoreOutcome, StoreGrows
  <2> QED
    BY <1>1, <1>2, <2>1, <2>2
<1>3. ASSUME NEW e \in Envelope, Post(e), UNCHANGED <<storeVars, sessVars>>,
             SendTypeOK'
      PROVE  Inv'
  <2>1. FeedTypeOK' /\ FeedInv' /\ recv' = recv
    BY <1>0, <1>3, PostOutcome
  <2>2. StoreTypeOK' /\ stored' = stored
    BY <1>0, <1>3 DEF StoreTypeOK, storeVars
  <2> QED
    BY <1>1, <1>3, <2>1, <2>2
<1>4. CASE WsAppend(p)
  BY <1>0, <1>2, <1>4, BeginsOutcome DEF WsAppend
<1>5. CASE WsPublish(p)
  BY <1>0, <1>3, <1>5, FinishesOutcome DEF WsPublish
<1>6. CASE HttpPublish(p)
  BY <1>0, <1>3, <1>6, BeginsOutcome DEF HttpPublish
<1>7. CASE HttpAppend(p)
  BY <1>0, <1>2, <1>7, FinishesOutcome DEF HttpAppend
<1> QED
  BY <1>4, <1>5, <1>6, <1>7

\* Entries expire, or one is swept.
Aging == \/ \E dead \in SUBSET kept : Expire(dead)
         \/ \E k \in expired : Sweep(k)

\* Neither the feed, nor the senders, nor what was ever stored.
LEMMA AgingLeaves ==
    ASSUME StoreTypeOK, Aging
    PROVE  /\ UNCHANGED <<feedVars, stored, refused, sendVars, sessVars>>
           /\ kept' \subseteq kept /\ expired' \subseteq kept'
<1>0. expired \subseteq kept
  BY DEF StoreTypeOK
<1>1. ASSUME NEW dead \in SUBSET kept, Expire(dead)
      PROVE  /\ UNCHANGED <<feedVars, stored, refused, sendVars, sessVars>>
             /\ kept' \subseteq kept /\ expired' \subseteq kept'
  BY <1>0, <1>1 DEF Expire, Stream!Age
<1>2. ASSUME NEW k \in expired, Sweep(k)
      PROVE  /\ UNCHANGED <<feedVars, stored, refused, sendVars, sessVars>>
             /\ kept' \subseteq kept /\ expired' \subseteq kept'
  BY <1>0, <1>2 DEF Sweep, Stream!Remove
<1> QED
  BY <1>1, <1>2 DEF Aging

LEMMA AgingStep ==
    ASSUME Inv, Aging
    PROVE  Inv'
<1>0. /\ FeedTypeOK /\ StoreTypeOK /\ SendTypeOK /\ SessTypeOK /\ FeedInv
      /\ \A t \in Session : phase[t] = "off" => recv[t] = <<>>
  BY TypeParts DEF Inv
<1>1. /\ UNCHANGED <<feedVars, stored, refused, sendVars, sessVars>>
      /\ kept' \subseteq kept /\ expired' \subseteq kept'
  BY <1>0, AgingLeaves
<1>2. FeedTypeOK' /\ FeedInv' /\ recv' = recv
  BY <1>0, <1>1, FeedStutter DEF feedVars
<1>3. StoreTypeOK'
  BY <1>0, <1>1 DEF StoreTypeOK
<1>4. SendTypeOK'
  BY <1>0, <1>1 DEF SendTypeOK, sendVars
<1>5. SessTypeOK'
  BY <1>0, <1>1, SessStays
<1>6. TypeOK'
  BY <1>2, <1>3, <1>4, <1>5 DEF TypeOK, FeedTypeOK, StoreTypeOK, SendTypeOK, SessTypeOK
<1> QED
  BY <1>0, <1>1, <1>2, <1>6 DEF Inv, sessVars

LEMMA StepCases ==
    ASSUME [Next]_vars
    PROVE  \/ \E p \in Sender :
                 \/ p \in WsSender /\ (WsAppend(p) \/ WsPublish(p))
                 \/ p \in HttpSender /\ (HttpPublish(p) \/ HttpAppend(p))
           \/ Aging
           \/ \E s \in Session :
                 \/ Attach(s) \/ CatchUp(s) \/ CatchUpFails(s)
                 \/ \E k \in backlog[s] : Replay(s, k)
                 \/ GoLive(s) \/ Deliver(s) \/ End(s)
           \/ UNCHANGED vars
  BY SenderKinds DEF Next, Aging

LEMMA InvStep ==
    ASSUME Inv, [Next]_vars
    PROVE  Inv'
<1>1. CASE UNCHANGED vars
  <2>1. UNCHANGED <<feedVars, storeVars, sendVars, sessVars>>
    BY <1>1 DEF vars
  <2>2. FeedTypeOK' /\ FeedInv' /\ StoreTypeOK' /\ SendTypeOK' /\ SessTypeOK'
    BY <2>1, TypeParts, FeedStutter
       DEF Inv, StoreTypeOK, SendTypeOK, SessTypeOK, storeVars, sendVars, sessVars
  <2>3. TypeOK'
    BY <2>2 DEF TypeOK, FeedTypeOK, StoreTypeOK, SendTypeOK, SessTypeOK
  <2> QED
    BY <2>1, <2>2, <2>3 DEF Inv, feedVars, sessVars
<1> QED
  BY <1>1, SenderStep, AgingStep, SessionStep, StepCases

LEMMA Start == Init => Inv
<1>1. SUFFICES ASSUME Init PROVE Inv
  OBVIOUS
<1>2. log = [c \in {Topic} |-> <<>>] /\ on = [r \in Session |-> NoChannel]
      /\ source = [r \in Session |-> NoChannel] /\ since = [r \in Session |-> 0]
      /\ limit = [r \in Session |-> 0] /\ recv = [r \in Session |-> <<>>]
  BY <1>1 DEF Init, Live!Init
<1>3. FeedTypeOK
  BY <1>2 DEF FeedTypeOK
<1>4. FeedInv
  BY <1>2, DeliveryAssumption DEF FeedInv
<1>5. StoreTypeOK /\ SendTypeOK
  BY <1>1, DeliveryAssumption DEF Init, StoreTypeOK, SendTypeOK
<1>6. NoCatchUp \in CatchUpFound
  BY DEF NoCatchUp, CatchUpFound
<1>7. SessTypeOK
  BY <1>1, <1>6 DEF Init, SessTypeOK
<1> QED
  BY <1>2, <1>3, <1>4, <1>5, <1>7, TypeParts DEF Inv

LEMMA InvAlways == Spec => []Inv
  BY Start, InvStep, PTL DEF Spec

\* Every reachable state of the delivery path is well typed: what a replay still
\* has to write is in the store, and nothing that is not an envelope is sent.
THEOREM DeliveryTypeCorrect == Spec => []TypeOK
  BY InvAlways, PTL DEF Inv

-----------------------------------------------------------------------------
(* The replay *)

\* What the catch-up of s could have returned.
Readable(s) == {k \in found[s].kept \ found[s].expired : k > after[s]}

\* What is known of one session: nothing is replayed before a catch-up, and after
\* it the replay is what could be read of its first batch, in order.
ReplayOf(s) ==
    /\ phase[s] \in {"off", "joined"} => ~ found[s].done
    /\ ~ found[s].done => caught[s] = {} /\ backlog[s] = {}
    /\ found[s].kept \subseteq 1 .. found[s].newest
    /\ found[s].newest <= Len(stored)
    /\ found[s].done =>
          /\ Replayed(s) \subseteq Readable(s)
          /\ \A k \in Readable(s) : k \in Replayed(s) <=> ~ BeyondBatch(s, k)
          /\ \A k \in caught[s], j \in backlog[s] : k < j

ReplayInv == \A s \in Session : ReplayOf(s)

LEMMA FoundType ==
    ASSUME SessTypeOK, NEW s \in Session
    PROVE  /\ found[s].done \in BOOLEAN /\ found[s].newest \in Nat
           /\ found[s].kept \subseteq Nat
<1>1. found[s] \in CatchUpFound
  BY DEF SessTypeOK
<1> QED
  BY <1>1 DEF CatchUpFound

\* A session of which only the store changed.
LEMMA ReplayStays ==
    ASSUME StoreTypeOK, StoreTypeOK', SessTypeOK, NEW s \in Session, ReplayOf(s),
           phase'[s] = phase[s]
             \/ phase'[s] \notin {"off", "joined"},
           after'[s] = after[s], backlog'[s] = backlog[s], caught'[s] = caught[s],
           found'[s] = found[s],
           1 .. Len(stored) \subseteq 1 .. Len(stored')
    PROVE  ReplayOf(s)'
<1>1. /\ Len(stored) \in Nat /\ Len(stored') \in Nat
  BY DEF StoreTypeOK
<1>2. Len(stored) <= Len(stored')
  BY <1>1
<1>3. found[s].newest \in Nat
  BY FoundType
<1>4. Replayed(s)' = Replayed(s) /\ Readable(s)' = Readable(s)
  BY DEF Replayed, Readable
<1>5. \A k : BeyondBatch(s, k)' <=> BeyondBatch(s, k)
  BY DEF BeyondBatch
<1>6. found'[s].newest <= Len(stored')
  <2>1. found[s].newest <= Len(stored)
    BY DEF ReplayOf
  <2> QED
    BY <1>1, <1>2, <1>3, <2>1
<1> QED
  BY <1>4, <1>5, <1>6 DEF ReplayOf

\* The batch that lies before k in what CatchUp reads.
LEMMA WindowIsBatch ==
    ASSUME StoreTypeOK, SessTypeOK, NEW s \in Session, NEW k \in kept, k > after[s]
    PROVE  k \in Window(s) <=>
              ~ (Cardinality({j \in kept : after[s] < j /\ j < k}) >= Batch)
<1> DEFINE S == {j \in kept : after[s] < j /\ j < k}
<1>0. Len(stored) \in Nat /\ kept \subseteq 1 .. Len(stored) /\ after[s] \in Nat
  BY DEF StoreTypeOK, SessTypeOK
<1>1. {j \in {i \in kept : i > after[s]} : j < k} = S
  BY <1>0
<1>2. Cardinality(S) \in Nat
  <2>1. IsFiniteSet(1 .. Len(stored))
    BY <1>0, FS_Interval
  <2>2. S \subseteq 1 .. Len(stored)
    BY <1>0
  <2>3. IsFiniteSet(S)
    BY <2>1, <2>2, FS_Subset
  <2> QED
    BY <2>3, FS_CardinalityType
<1>3. k \in Window(s) <=> Cardinality({j \in {i \in kept : i > after[s]} : j < k}) < Batch
  BY DEF Window, Lowest
<1>4. Batch \in Nat
  BY DeliveryAssumption
<1> QED
  BY <1>1, <1>2, <1>3, <1>4

LEMMA CatchUpReplays ==
    ASSUME Inv, NEW s \in Session, ReplayOf(s), CatchUp(s)
    PROVE  ReplayOf(s)'
<1>0. StoreTypeOK /\ SessTypeOK
  BY TypeParts DEF Inv
<1>1. /\ phase[s] = "joined"
      /\ backlog' = [backlog EXCEPT ![s] = Window(s) \ expired]
      /\ found' = [found EXCEPT ![s] = [done |-> TRUE, kept |-> kept,
                                        expired |-> expired,
                                        newest |-> Len(stored)]]
      /\ phase' = [phase EXCEPT ![s] = "replay"]
      /\ stored' = stored /\ after' = after /\ caught' = caught
  BY DEF CatchUp, storeVars
<1>2. /\ backlog'[s] = Window(s) \ expired
      /\ found'[s] = [done |-> TRUE, kept |-> kept, expired |-> expired,
                      newest |-> Len(stored)]
      /\ phase'[s] = "replay" /\ after'[s] = after[s]
  BY <1>0, <1>1 DEF SessTypeOK
<1>3. /\ found'[s].done = TRUE /\ found'[s].kept = kept
      /\ found'[s].expired = expired /\ found'[s].newest = Len(stored)
  BY <1>2
<1>4. caught'[s] = {}
  BY <1>1 DEF ReplayOf
<1>5. Replayed(s)' = Window(s) \ expired
  BY <1>2, <1>4 DEF Replayed
<1>6. Readable(s)' = {k \in kept \ expired : k > after[s]}
  BY <1>2, <1>3 DEF Readable
<1>7. \A k : BeyondBatch(s, k)' <=>
               Cardinality({j \in kept : after[s] < j /\ j < k}) >= Batch
  BY <1>2, <1>3 DEF BeyondBatch
<1>8. Window(s) \subseteq {k \in kept : k > after[s]}
  BY DEF Window, Lowest
<1>9. \A k \in Readable(s)' : k \in Replayed(s)' <=> ~ BeyondBatch(s, k)'
  <2>1. ASSUME NEW k \in kept, k > after[s], k \notin expired
        PROVE  k \in Replayed(s)' <=> ~ BeyondBatch(s, k)'
    BY <1>0, <1>5, <1>7, <2>1, WindowIsBatch
  <2> QED
    BY <1>6, <2>1
<1>10. Replayed(s)' \subseteq Readable(s)'
  BY <1>5, <1>6, <1>8
<1>11. /\ kept \subseteq 1 .. Len(stored) /\ Len(stored) <= Len(stored')
  BY <1>0, <1>1 DEF StoreTypeOK
<1> QED
  BY <1>2, <1>3, <1>4, <1>9, <1>10, <1>11 DEF ReplayOf

LEMMA ReplayReplays ==
    ASSUME Inv, NEW s \in Session, ReplayOf(s), NEW k \in backlog[s], Replay(s, k)
    PROVE  ReplayOf(s)'
<1>0. SessTypeOK
  BY TypeParts DEF Inv
<1>1. /\ phase[s] = "replay" /\ \A j \in backlog[s] : k <= j
      /\ caught' = [caught EXCEPT ![s] = @ \cup {k}]
      /\ backlog' = [backlog EXCEPT ![s] = @ \ {k}]
      /\ stored' = stored /\ after' = after /\ phase' = phase /\ found' = found
  BY DEF Replay, storeVars
<1>2. caught'[s] = caught[s] \cup {k} /\ backlog'[s] = backlog[s] \ {k}
  BY <1>0, <1>1 DEF SessTypeOK
<1>3. found[s].done
  BY DEF ReplayOf
<1>4. Replayed(s)' = Replayed(s) /\ Readable(s)' = Readable(s)
  BY <1>1, <1>2 DEF Replayed, Readable
<1>5. \A j : BeyondBatch(s, j)' <=> BeyondBatch(s, j)
  BY <1>1 DEF BeyondBatch
<1>6. \A i \in caught'[s], j \in backlog'[s] : i < j
  <2>1. \A i \in caught[s], j \in backlog[s] : i < j
    BY <1>3 DEF ReplayOf
  <2>2. backlog[s] \subseteq Nat
    BY <1>0 DEF SessTypeOK
  <2>3. \A j \in backlog[s] \ {k} : k < j
    BY <1>1, <2>2
  <2> QED
    BY <1>2, <2>1, <2>3
<1> QED
  BY <1>1, <1>3, <1>4, <1>5, <1>6 DEF ReplayOf

LEMMA ReplayInvStep ==
    ASSUME Inv, Inv', ReplayInv, [Next]_vars
    PROVE  ReplayInv'
<1>0. StoreTypeOK /\ SessTypeOK /\ StoreTypeOK' /\ SessTypeOK'
  BY TypeParts DEF Inv, TypeOK, StoreTypeOK, SessTypeOK
<1>1. ASSUME UNCHANGED sessVars, 1 .. Len(stored) \subseteq 1 .. Len(stored')
      PROVE  ReplayInv'
  BY <1>0, <1>1, ReplayStays DEF ReplayInv, sessVars
<1>2. ASSUME NEW p \in Sender,
             \/ p \in WsSender /\ (WsAppend(p) \/ WsPublish(p))
             \/ p \in HttpSender /\ (HttpPublish(p) \/ HttpAppend(p))
      PROVE  ReplayInv'
  <2>0. SendTypeOK
    BY TypeParts DEF Inv
  <2>1. CASE WsAppend(p)
    BY <1>0, <1>1, <2>0, <2>1, BeginsOutcome, StoreGrows DEF WsAppend
  <2>2. CASE HttpAppend(p)
    BY <1>0, <1>1, <2>0, <2>2, FinishesOutcome, StoreGrows DEF HttpAppend
  <2>3. CASE WsPublish(p) \/ HttpPublish(p)
    BY <1>1, <2>3 DEF WsPublish, HttpPublish, storeVars
  <2> QED
    BY <1>2, <2>1, <2>2, <2>3
<1>3. CASE Aging
  BY <1>0, <1>1, <1>3, AgingLeaves
<1>4. ASSUME NEW s \in Session,
             \/ Attach(s) \/ CatchUp(s) \/ CatchUpFails(s)
             \/ \E k \in backlog[s] : Replay(s, k)
             \/ GoLive(s) \/ Deliver(s) \/ End(s)
      PROVE  ReplayInv'
  <2>1. stored' = stored
    BY <1>4 DEF Attach, CatchUp, CatchUpFails, Replay, GoLive, Deliver, End, storeVars
  <2>2. ASSUME NEW t \in Session, t # s PROVE ReplayOf(t)'
    <3>1. /\ phase'[t] = phase[t] /\ after'[t] = after[t] /\ found'[t] = found[t]
          /\ backlog'[t] = backlog[t] /\ caught'[t] = caught[t]
      BY <1>0, <1>4, <2>2 DEF Attach, CatchUp, CatchUpFails, Replay, GoLive, Deliver,
                              End, SessTypeOK
    <3> QED
      BY <1>0, <2>1, <3>1, ReplayStays DEF ReplayInv
  <2>3. ReplayOf(s)
    BY DEF ReplayInv
  <2>4. CASE Attach(s)
    <3>1. /\ phase[s] = "off" /\ phase'[s] = "joined" /\ found' = found
          /\ backlog' = backlog /\ caught' = caught
      BY <1>0, <2>4 DEF Attach, SessTypeOK
    <3> QED
      BY <2>1, <2>2, <2>3, <3>1 DEF ReplayOf, ReplayInv
  <2>5. CASE CatchUp(s)
    BY <2>2, <2>3, <2>5, CatchUpReplays DEF ReplayInv
  <2>6. ASSUME NEW k \in backlog[s], Replay(s, k) PROVE ReplayInv'
    BY <2>2, <2>3, <2>6, ReplayReplays DEF ReplayInv
  <2>7. CASE CatchUpFails(s) \/ GoLive(s) \/ Deliver(s) \/ End(s)
    <3>1. /\ phase'[s] = phase[s] \/ phase'[s] \notin {"off", "joined"}
          /\ after' = after /\ found' = found /\ backlog' = backlog /\ caught' = caught
      BY <1>0, <2>7 DEF CatchUpFails, GoLive, Deliver, End, SessTypeOK
    <3>2. ReplayOf(s)'
      BY <1>0, <2>1, <2>3, <3>1, ReplayStays
    <3> QED
      BY <2>2, <3>2 DEF ReplayInv
  <2> QED
    BY <1>4, <2>4, <2>5, <2>6, <2>7
<1>5. CASE UNCHANGED vars
  BY <1>1, <1>5 DEF vars, storeVars
<1> QED
  BY <1>2, <1>3, <1>4, <1>5, StepCases

LEMMA ReplayInvAlways == Spec => []ReplayInv
<1>1. Init => ReplayInv
  <2>1. SUFFICES ASSUME Init, NEW s \in Session PROVE ReplayOf(s)
    BY DEF ReplayInv
  <2>2. /\ phase[s] = "off" /\ caught[s] = {} /\ backlog[s] = {} /\ stored = <<>>
        /\ found[s].done = FALSE /\ found[s].kept = {} /\ found[s].newest = 0
    BY <2>1 DEF Init, NoCatchUp
  <2>3. Len(stored) = 0
    BY <2>2
  <2> QED
    BY <2>2, <2>3 DEF ReplayOf
<1>2. Inv /\ Inv' /\ ReplayInv /\ [Next]_vars => ReplayInv'
  BY ReplayInvStep
<1> QED
  BY <1>1, <1>2, InvAlways, PTL DEF Spec

\* What lies before an earlier message lies before a later one.
LEMMA BatchGrows ==
    ASSUME SessTypeOK, NEW s \in Session, ReplayOf(s),
           NEW j \in Nat, NEW k \in Nat, j < k, BeyondBatch(s, j)
    PROVE  BeyondBatch(s, k)
<1> DEFINE Below(m) == {i \in found[s].kept : after[s] < i /\ i < m}
<1>1. found[s].newest \in Nat /\ found[s].kept \subseteq 1 .. found[s].newest
  BY FoundType DEF ReplayOf
<1>2. IsFiniteSet(1 .. found[s].newest)
  BY <1>1, FS_Interval
<1>3. \A m : Below(m) \subseteq 1 .. found[s].newest
  BY <1>1
<1>4. IsFiniteSet(Below(k)) /\ IsFiniteSet(Below(j))
  BY <1>2, <1>3, FS_Subset
<1>5. Below(j) \subseteq Below(k)
  <2>1. found[s].kept \subseteq Nat
    BY FoundType
  <2> QED
    BY <2>1
<1>6. Cardinality(Below(j)) <= Cardinality(Below(k))
  BY <1>4, <1>5, FS_Subset
<1>7. Cardinality(Below(j)) \in Nat /\ Cardinality(Below(k)) \in Nat
  BY <1>4, FS_CardinalityType
<1>8. Cardinality(Below(j)) >= Batch /\ Batch \in Nat
  BY DeliveryAssumption DEF BeyondBatch
<1>9. Cardinality(Below(k)) >= Batch
  <2> HIDE DEF Below
  <2> QED
    BY <1>6, <1>7, <1>8
<1> QED
  BY <1>9 DEF BeyondBatch

LEMMA RunOfOne ==
    ASSUME SessTypeOK, NEW s \in Session, ReplayOf(s), found[s].done
    PROVE  /\ \A k \in Replayed(s) :
                 /\ after[s] < k /\ k \in found[s].kept \ found[s].expired
                 /\ \A j \in found[s].kept \ found[s].expired :
                       after[s] < j /\ j < k => j \in Replayed(s)
           /\ \A k \in caught[s], j \in backlog[s] : k < j
<1>1. found[s].kept \subseteq Nat /\ after[s] \in Nat
  BY FoundType DEF SessTypeOK
<1>2. /\ Replayed(s) \subseteq Readable(s)
      /\ \A k \in Readable(s) : k \in Replayed(s) <=> ~ BeyondBatch(s, k)
      /\ \A k \in caught[s], j \in backlog[s] : k < j
  BY DEF ReplayOf
<1>3. ASSUME NEW k \in Replayed(s)
      PROVE  /\ after[s] < k /\ k \in found[s].kept \ found[s].expired
             /\ k \in Nat /\ ~ BeyondBatch(s, k)
  BY <1>1, <1>2 DEF Readable
<1>4. ASSUME NEW k \in Replayed(s), NEW j \in found[s].kept \ found[s].expired,
             after[s] < j, j < k
      PROVE  j \in Replayed(s)
  <2>1. j \in Nat /\ j \in Readable(s)
    BY <1>1, <1>4 DEF Readable
  <2>2. ~ BeyondBatch(s, j)
    BY <1>3, <1>4, <2>1, BatchGrows
  <2> QED
    BY <1>2, <2>1, <2>2
<1> QED
  BY <1>2, <1>3, <1>4

\* Every catch-up is a run of what could be read in the store, in order, whatever
\* is published, expires, is swept or evicted while it is written.
THEOREM ReplayIsARunHolds == Spec => []ReplayIsARun
<1>1. Inv /\ ReplayInv => ReplayIsARun
  BY RunOfOne, TypeParts DEF Inv, ReplayInv, ReplayIsARun
<1> QED
  BY <1>1, InvAlways, ReplayInvAlways, PTL

-----------------------------------------------------------------------------
(* The seam between replay and live *)

\* The messages that have been published.
Posted == {log[Topic][i] : i \in 1 .. Len(log[Topic])}

\* Nobody has published or stored a message its sender has not begun, and a
\* sender in the middle of a publish is with a message of its own, which an HTTP
\* one has published.
Begun ==
    /\ \A x \in Members(stored) \cup Posted : x.n <= sent[x.sender]
    /\ \A p \in Sender : half[p] # <<>> =>
          /\ half[p] = <<Head(half[p])>>
          /\ Head(half[p]).sender = p /\ Head(half[p]).n <= sent[p]
    /\ \A p \in HttpSender : half[p] # <<>> => Head(half[p]) \in Posted

\* A stored message is published, or its WebSocket sender is about to.
Published ==
    \A x \in Members(stored) :
        \/ x \in Posted
        \/ x.sender \in WsSender /\ half[x.sender] = <<x>>

\* A WebSocket message that was published before s subscribed had been stored when
\* its catch-up was read.
StoredFirst ==
    \A s \in Session : found[s].done =>
        \A k \in 1 .. Len(stored) :
            stored[k].sender \in WsSender /\ stored[k] \in PublishedBefore(s)
                => k <= found[s].newest

SeamInv == Begun /\ Published /\ StoredFirst

LEMMA EnvelopeFields ==
    ASSUME NEW e \in Envelope
    PROVE  e.sender \in Sender /\ e.n \in Nat
  BY DeliveryAssumption DEF Envelope

LEMMA StoredElements ==
    ASSUME StoreTypeOK, NEW e \in Envelope, Store(e)
    PROVE  /\ Members(stored) \subseteq Envelope
           /\ Members(stored') \subseteq Members(stored) \cup {e}
           /\ \A k \in 1 .. Len(stored') :
                 \/ k \in 1 .. Len(stored) /\ stored'[k] = stored[k]
                 \/ stored'[k] = e
<1>1. stored \in Seq(Envelope) /\ Len(stored) \in Nat
  BY DEF StoreTypeOK
<1> DEFINE n == Len(stored)
<1>2. CASE stored' = stored
  BY <1>1, <1>2 DEF Members
<1>3. CASE stored' = Append(stored, e)
  <2>1. /\ Len(stored') = n + 1 /\ n \in Nat
        /\ \A k \in 1 .. n : stored'[k] = stored[k]
        /\ stored'[n + 1] = e
    BY <1>1, <1>3, Longer
  <2> HIDE DEF n
  <2>2. \A k \in 1 .. n + 1 : k \in 1 .. n \/ k = n + 1
    BY <2>1
  <2>3. \A k \in 1 .. Len(stored') : \/ k \in 1 .. n /\ stored'[k] = stored[k]
                                     \/ stored'[k] = e
    BY <2>1, <2>2
  <2>4. \A k \in 1 .. Len(stored) : stored[k] \in Envelope
    BY <1>1
  <2> QED
    BY <2>3, <2>4 DEF Members, n
<1> QED
  BY <1>2, <1>3, StoreOutcome

\* What was published before a session subscribed has been published.
LEMMA BeforeIsPosted ==
    ASSUME FeedTypeOK, FeedInv, NEW s \in Session
    PROVE  1 .. since[s] \subseteq 1 .. Len(log[Topic]) /\ PublishedBefore(s) \subseteq Posted
<1> DEFINE n == Len(log[Topic])
           m == Len(recv[s])
<1>1. since[s] \in Nat /\ limit[s] \in Nat /\ m \in Nat /\ n \in Nat
  BY DEF FeedTypeOK
<1>2. limit[s] <= n /\ since[s] + m <= limit[s]
  BY DEF FeedInv
<1> HIDE DEF n, m
<1>3. 1 .. since[s] \subseteq 1 .. n
  BY <1>1, <1>2
<1> QED
  BY <1>3 DEF n, PublishedBefore, Posted

LEMMA LogElements ==
    ASSUME FeedTypeOK, FeedInv, NEW e \in Envelope, Post(e)
    PROVE  /\ Posted' = Posted \cup {e}
           /\ \A s \in Session : PublishedBefore(s)' = PublishedBefore(s)
<1>1. log[Topic] \in Seq(Envelope) /\ log'[Topic] = Append(log[Topic], e)
      /\ since' = since
  BY PostOutcome DEF FeedTypeOK
<1> DEFINE n == Len(log[Topic])
<1>2. /\ n \in Nat /\ Len(log'[Topic]) = n + 1
      /\ \A i \in 1 .. n : log'[Topic][i] = log[Topic][i]
      /\ log'[Topic][n + 1] = e
  BY <1>1, Longer
<1>3. \A s \in Session : 1 .. since[s] \subseteq 1 .. n
  BY BeforeIsPosted
<1> HIDE DEF n
<1>4. \A i : i \in 1 .. n + 1 <=> i \in 1 .. n \/ i = n + 1
  BY <1>2
<1>5. Posted' = Posted \cup {e}
  BY <1>2, <1>4 DEF Posted, n
<1>6. \A s \in Session : PublishedBefore(s)' = PublishedBefore(s)
  BY <1>1, <1>2, <1>3 DEF PublishedBefore
<1> QED
  BY <1>5, <1>6

\* A step of sender p that stores or publishes e.
LEMMA BegunStays ==
    ASSUME Begun, NEW p \in Sender, NEW e \in Envelope,
           e.sender = p, e.n <= sent'[p],
           \A q \in Sender : sent[q] \in Nat /\ sent'[q] \in Nat /\ sent[q] <= sent'[q],
           Members(stored) \cup Posted \subseteq Envelope,
           \A q \in Sender : half[q] \in Seq(Envelope),
           Members(stored') \cup Posted' \subseteq Members(stored) \cup Posted \cup {e},
           Posted \subseteq Posted',
           half'[p] \in {<<>>, <<e>>},
           p \in HttpSender /\ half'[p] # <<>> => e \in Posted',
           \A q \in Sender \ {p} : half'[q] = half[q]
    PROVE  Begun'
<1>1. ASSUME NEW x \in Members(stored') \cup Posted' PROVE x.n <= sent'[x.sender]
  <2>1. CASE x = e
    BY <2>1
  <2>2. CASE x \in Members(stored) \cup Posted
    <3>1. x.n <= sent[x.sender] /\ x.sender \in Sender /\ x.n \in Nat
      BY <2>2, EnvelopeFields DEF Begun
    <3>2. /\ sent[x.sender] \in Nat /\ sent'[x.sender] \in Nat
          /\ sent[x.sender] <= sent'[x.sender]
      BY <3>1
    <3> QED
      BY <3>1, <3>2
  <2> QED
    BY <2>1, <2>2
<1>2. ASSUME NEW q \in Sender, half'[q] # <<>>
      PROVE  /\ half'[q] = <<Head(half'[q])>>
             /\ Head(half'[q]).sender = q /\ Head(half'[q]).n <= sent'[q]
             /\ q \in HttpSender => Head(half'[q]) \in Posted'
  <2>1. CASE q = p
    <3>1. half'[q] = <<e>> /\ Head(<<e>>) = e
      BY <1>2, <2>1
    <3>2. Head(half'[q]) = e
      BY <3>1
    <3> QED
      BY <1>2, <2>1, <3>1, <3>2
  <2>2. CASE q # p
    <3>1. half'[q] = half[q] /\ half[q] # <<>>
      BY <1>2, <2>2
    <3>2. /\ half[q] = <<Head(half[q])>>
          /\ Head(half[q]).sender = q /\ Head(half[q]).n <= sent[q]
          /\ q \in HttpSender => Head(half[q]) \in Posted
      BY <3>1 DEF Begun
    <3>3. Head(half[q]) \in Envelope /\ Head(half[q]).n \in Nat
      BY <1>2, <3>1, EnvelopeFields
    <3>4. sent[q] \in Nat /\ sent'[q] \in Nat /\ sent[q] <= sent'[q]
      BY <1>2
    <3>5. Head(half[q]).n <= sent'[q]
      BY <3>2, <3>3, <3>4
    <3> QED
      BY <1>2, <3>1, <3>2, <3>5
  <2> QED
    BY <2>1, <2>2
<1> QED
  BY <1>1, <1>2, SenderKinds DEF Begun

\* What a sender of one message leaves of Published.
LEMMA PublishedStays ==
    ASSUME Published, NEW p \in Sender, NEW e \in Envelope,
           Members(stored) \subseteq Envelope,
           Members(stored') \subseteq Members(stored) \cup {e},
           Posted \subseteq Posted',
           \A q \in Sender \ {p} : half'[q] = half[q],
           \A x \in Members(stored) : half[p] = <<x>> => x \in Posted',
           e \in Members(stored') =>
              e \in Posted' \/ (p \in WsSender /\ e.sender = p /\ half'[p] = <<e>>)
    PROVE  Published'
<1>1. ASSUME NEW x \in Members(stored')
      PROVE  x \in Posted' \/ (x.sender \in WsSender /\ half'[x.sender] = <<x>>)
  <2>1. CASE x = e
    BY <1>1, <2>1
  <2>2. CASE x \in Members(stored)
    <3>1. x.sender \in Sender
      BY <2>2, EnvelopeFields
    <3>2. x \in Posted \/ (x.sender \in WsSender /\ half[x.sender] = <<x>>)
      BY <2>2 DEF Published
    <3>3. CASE x.sender = p
      BY <2>2, <3>2, <3>3
    <3>4. CASE x.sender # p
      BY <3>1, <3>2, <3>4
    <3> QED
      BY <3>3, <3>4
  <2> QED
    BY <1>1, <2>1, <2>2
<1> QED
  BY <1>1 DEF Published

LEMMA StoredFirstStays ==
    ASSUME StoredFirst, NEW e, found' = found,
           \A s \in Session : PublishedBefore(s)' = PublishedBefore(s),
           \A k \in 1 .. Len(stored') :
              \/ k \in 1 .. Len(stored) /\ stored'[k] = stored[k]
              \/ stored'[k] = e,
           \A s \in Session : e \notin PublishedBefore(s) \/ e.sender \notin WsSender
    PROVE  StoredFirst'
  BY DEF StoredFirst

\* What every sender's step starts from.
LEMMA SeamTypes ==
    ASSUME Inv
    PROVE  /\ FeedTypeOK /\ FeedInv /\ StoreTypeOK /\ SendTypeOK
           /\ Members(stored) \cup Posted \subseteq Envelope
           /\ \A q \in Sender : sent[q] \in Nat /\ half[q] \in Seq(Envelope)
           /\ \A s \in Session : PublishedBefore(s) \subseteq Posted
<1>1. FeedTypeOK /\ FeedInv /\ StoreTypeOK /\ SendTypeOK
  BY TypeParts DEF Inv
<1>2. Members(stored) \subseteq Envelope
  <2>1. stored \in Seq(Envelope)
    BY <1>1 DEF StoreTypeOK
  <2>2. \A k \in 1 .. Len(stored) : stored[k] \in Envelope
    BY <2>1
  <2> QED
    BY <2>2 DEF Members
<1>3. Posted \subseteq Envelope
  <2>1. log[Topic] \in Seq(Envelope)
    BY <1>1 DEF FeedTypeOK
  <2>2. \A k \in 1 .. Len(log[Topic]) : log[Topic][k] \in Envelope
    BY <2>1
  <2> QED
    BY <2>2 DEF Posted
<1>4. \A q \in Sender : sent[q] \in Nat /\ half[q] \in Seq(Envelope)
  BY <1>1, DeliveryAssumption DEF SendTypeOK
<1> QED
  BY <1>1, <1>2, <1>3, <1>4, BeforeIsPosted

\* A message its sender has only begun is nowhere yet.
LEMMA FreshIsNew ==
    ASSUME Inv, Begun, NEW p \in Sender, Begins(p)
    PROVE  Fresh(p) \notin Members(stored) \cup Posted
<1>1. Fresh(p).sender = p /\ Fresh(p).n = sent[p] + 1 /\ sent[p] \in Nat
  BY SeamTypes, BeginsOutcome
<1> QED
  BY <1>1 DEF Begun

LEMMA SeamWsAppend ==
    ASSUME Inv, SeamInv, NEW p \in WsSender, WsAppend(p)
    PROVE  SeamInv'
<1>0. /\ FeedTypeOK /\ StoreTypeOK /\ SendTypeOK /\ p \in Sender /\ p \notin HttpSender
      /\ Members(stored) \cup Posted \subseteq Envelope
      /\ \A q \in Sender : sent[q] \in Nat /\ half[q] \in Seq(Envelope)
      /\ \A s \in Session : PublishedBefore(s) \subseteq Posted
  BY SeamTypes, SenderKinds
<1> DEFINE e == Fresh(p)
<1>1. /\ e \in Envelope /\ e.sender = p /\ e.n = sent[p] + 1
      /\ half[p] = <<>> /\ half'[p] = <<e>> /\ sent'[p] = sent[p] + 1
      /\ \A q \in Sender \ {p} : half'[q] = half[q] /\ sent'[q] = sent[q]
  BY <1>0, BeginsOutcome DEF WsAppend
<1>2. /\ Store(e) /\ Begins(p) /\ log' = log /\ since' = since /\ found' = found
  BY DEF WsAppend, feedVars, sessVars
<1>3. e \notin Posted
  BY <1>0, <1>2, FreshIsNew DEF SeamInv
<1> HIDE DEF e
<1>4. /\ Members(stored') \subseteq Members(stored) \cup {e}
      /\ \A k \in 1 .. Len(stored') :
            \/ k \in 1 .. Len(stored) /\ stored'[k] = stored[k]
            \/ stored'[k] = e
  BY <1>0, <1>1, <1>2, StoredElements
<1>5. Posted' = Posted /\ \A s \in Session : PublishedBefore(s)' = PublishedBefore(s)
  BY <1>2 DEF Posted, PublishedBefore
<1>6. \A q \in Sender : sent'[q] \in Nat /\ sent[q] <= sent'[q]
  BY <1>0, <1>1
<1>7. e.n <= sent'[p] /\ half'[p] # <<>> /\ \A x : half[p] # <<x>>
  BY <1>0, <1>1
<1>8. Begun'
  BY <1>0, <1>1, <1>4, <1>5, <1>6, <1>7, BegunStays DEF SeamInv
<1>9. Published'
  BY <1>0, <1>1, <1>4, <1>5, <1>7, PublishedStays DEF SeamInv
<1>10. StoredFirst'
  BY <1>0, <1>2, <1>3, <1>4, <1>5, StoredFirstStays DEF SeamInv
<1> QED
  BY <1>8, <1>9, <1>10 DEF SeamInv

LEMMA SeamWsPublish ==
    ASSUME Inv, SeamInv, NEW p \in WsSender, WsPublish(p)
    PROVE  SeamInv'
<1>0. /\ FeedTypeOK /\ FeedInv /\ SendTypeOK /\ p \in Sender /\ p \notin HttpSender
      /\ Members(stored) \cup Posted \subseteq Envelope
      /\ \A q \in Sender : sent[q] \in Nat /\ half[q] \in Seq(Envelope)
  BY SeamTypes, SenderKinds
<1> DEFINE e == Head(half[p])
<1>1. /\ e \in Envelope /\ half[p] # <<>> /\ half'[p] = <<>> /\ sent' = sent
      /\ \A q \in Sender \ {p} : half'[q] = half[q]
  BY <1>0, FinishesOutcome DEF WsPublish
<1>2. e.sender = p /\ e.n <= sent[p] /\ half[p] = <<e>>
  BY <1>0, <1>1 DEF SeamInv, Begun
<1>3. Post(e) /\ stored' = stored /\ found' = found
  BY DEF WsPublish, storeVars, sessVars
<1> HIDE DEF e
<1>4. Posted' = Posted \cup {e} /\ \A s \in Session : PublishedBefore(s)' = PublishedBefore(s)
  BY <1>0, <1>1, <1>3, LogElements
<1>5. \A q \in Sender : sent'[q] \in Nat /\ sent[q] <= sent'[q]
  BY <1>0, <1>1
<1>6. Begun'
  BY <1>0, <1>1, <1>2, <1>3, <1>4, <1>5, BegunStays DEF SeamInv
<1>7. Published'
  BY <1>0, <1>1, <1>2, <1>3, <1>4, PublishedStays DEF SeamInv
<1>8. StoredFirst'
  BY <1>3, <1>4 DEF SeamInv, StoredFirst
<1> QED
  BY <1>6, <1>7, <1>8 DEF SeamInv

LEMMA SeamHttpPublish ==
    ASSUME Inv, SeamInv, NEW p \in HttpSender, HttpPublish(p)
    PROVE  SeamInv'
<1>0. /\ FeedTypeOK /\ FeedInv /\ SendTypeOK /\ p \in Sender
      /\ Members(stored) \cup Posted \subseteq Envelope
      /\ \A q \in Sender : sent[q] \in Nat /\ half[q] \in Seq(Envelope)
  BY SeamTypes, SenderKinds
<1> DEFINE e == Fresh(p)
<1>1. /\ e \in Envelope /\ e.sender = p /\ e.n = sent[p] + 1
      /\ half[p] = <<>> /\ half'[p] = <<e>> /\ sent'[p] = sent[p] + 1
      /\ \A q \in Sender \ {p} : half'[q] = half[q] /\ sent'[q] = sent[q]
  BY <1>0, BeginsOutcome DEF HttpPublish
<1>2. Post(e) /\ stored' = stored /\ found' = found
  BY DEF HttpPublish, storeVars, sessVars
<1> HIDE DEF e
<1>3. Posted' = Posted \cup {e} /\ \A s \in Session : PublishedBefore(s)' = PublishedBefore(s)
  BY <1>0, <1>1, <1>2, LogElements
<1>4. \A q \in Sender : sent'[q] \in Nat /\ sent[q] <= sent'[q]
  BY <1>0, <1>1
<1>5. e.n <= sent'[p] /\ \A x : half[p] # <<x>>
  BY <1>0, <1>1
<1>6. Begun'
  BY <1>0, <1>1, <1>2, <1>3, <1>4, <1>5, BegunStays DEF SeamInv
<1>7. Published'
  BY <1>0, <1>1, <1>2, <1>3, <1>5, PublishedStays DEF SeamInv
<1>8. StoredFirst'
  BY <1>2, <1>3 DEF SeamInv, StoredFirst
<1> QED
  BY <1>6, <1>7, <1>8 DEF SeamInv

LEMMA SeamHttpAppend ==
    ASSUME Inv, SeamInv, NEW p \in HttpSender, HttpAppend(p)
    PROVE  SeamInv'
<1>0. /\ StoreTypeOK /\ SendTypeOK /\ p \in Sender /\ p \notin WsSender
      /\ Members(stored) \cup Posted \subseteq Envelope
      /\ \A q \in Sender : sent[q] \in Nat /\ half[q] \in Seq(Envelope)
  BY SeamTypes, SenderKinds
<1> DEFINE e == Head(half[p])
<1>1. /\ e \in Envelope /\ half[p] # <<>> /\ half'[p] = <<>> /\ sent' = sent
      /\ \A q \in Sender \ {p} : half'[q] = half[q]
  BY <1>0, FinishesOutcome DEF HttpAppend
<1>2. e.sender = p /\ e.n <= sent[p] /\ half[p] = <<e>> /\ e \in Posted
  BY <1>0, <1>1 DEF SeamInv, Begun
<1>3. Store(e) /\ log' = log /\ since' = since /\ found' = found
  BY DEF HttpAppend, feedVars, sessVars
<1> HIDE DEF e
<1>4. /\ Members(stored') \subseteq Members(stored) \cup {e}
      /\ \A k \in 1 .. Len(stored') :
            \/ k \in 1 .. Len(stored) /\ stored'[k] = stored[k]
            \/ stored'[k] = e
  BY <1>0, <1>1, <1>3, StoredElements
<1>5. Posted' = Posted /\ \A s \in Session : PublishedBefore(s)' = PublishedBefore(s)
  BY <1>3 DEF Posted, PublishedBefore
<1>6. \A q \in Sender : sent'[q] \in Nat /\ sent[q] <= sent'[q]
  BY <1>0, <1>1
<1>7. Begun'
  BY <1>0, <1>1, <1>2, <1>4, <1>5, <1>6, BegunStays DEF SeamInv
<1>8. Published'
  BY <1>0, <1>1, <1>2, <1>4, <1>5, PublishedStays DEF SeamInv
<1>9. StoredFirst'
  BY <1>0, <1>2, <1>3, <1>4, <1>5, StoredFirstStays DEF SeamInv
<1> QED
  BY <1>7, <1>8, <1>9 DEF SeamInv

\* A step that neither publishes nor stores: a session has subscribed, whose
\* catch-up is still to come, or its catch-up has read the whole store.
LEMMA SeamStays ==
    ASSUME StoreTypeOK, SeamInv,
           log' = log, stored' = stored, sent' = sent, half' = half,
           \A s \in Session : \/ since'[s] = since[s] /\ found'[s] = found[s]
                              \/ ~ found'[s].done
                              \/ found'[s].newest = Len(stored)
    PROVE  SeamInv'
<1>1. Posted' = Posted
  BY DEF Posted
<1>2. Begun' /\ Published'
  BY <1>1 DEF SeamInv, Begun, Published
<1>3. ASSUME NEW s \in Session, found'[s].done, NEW k \in 1 .. Len(stored),
             stored[k].sender \in WsSender, stored[k] \in PublishedBefore(s)'
      PROVE  k <= found'[s].newest
  <2>1. CASE since'[s] = since[s] /\ found'[s] = found[s]
    <3>1. PublishedBefore(s)' = PublishedBefore(s)
      BY <2>1 DEF PublishedBefore
    <3> QED
      BY <1>3, <2>1, <3>1 DEF SeamInv, StoredFirst
  <2>2. CASE found'[s].newest = Len(stored)
    <3>1. Len(stored) \in Nat
      BY DEF StoreTypeOK
    <3> QED
      BY <2>2, <3>1
  <2> QED
    BY <1>3, <2>1, <2>2
<1>4. StoredFirst'
  BY <1>3 DEF StoredFirst
<1> QED
  BY <1>2, <1>4 DEF SeamInv

LEMMA SeamSession ==
    ASSUME Inv, ReplayInv, SeamInv, NEW s \in Session,
           \/ Attach(s) \/ CatchUp(s) \/ CatchUpFails(s)
           \/ \E k \in backlog[s] : Replay(s, k)
           \/ GoLive(s) \/ Deliver(s) \/ End(s)
    PROVE  SeamInv'
<1>0. FeedTypeOK /\ StoreTypeOK /\ SessTypeOK /\ FeedInv
      /\ (phase[s] = "off" => recv[s] = <<>>)
  BY TypeParts DEF Inv
<1>1. CASE Attach(s)
  <2>1. /\ phase[s] = "off" /\ Live!Join(s, Topic) /\ found' = found
        /\ stored' = stored /\ sent' = sent /\ half' = half
    BY <1>1 DEF Attach, storeVars, sendVars
  <2>2. ~ found[s].done
    BY <2>1 DEF ReplayInv, ReplayOf
  <2>3. log' = log /\ \A t \in Session \ {s} : since'[t] = since[t]
    BY <1>0, <2>1, JoinOutcome
  <2> QED
    BY <1>0, <2>1, <2>2, <2>3, SeamStays
<1>2. CASE CatchUp(s)
  <2>1. /\ found' = [found EXCEPT ![s] = [done |-> TRUE, kept |-> kept,
                                          expired |-> expired,
                                          newest |-> Len(stored)]]
        /\ log' = log /\ since' = since /\ stored' = stored
        /\ sent' = sent /\ half' = half
    BY <1>2 DEF CatchUp, feedVars, storeVars, sendVars
  <2>2. /\ found'[s].newest = Len(stored)
        /\ \A t \in Session \ {s} : found'[t] = found[t]
    BY <1>0, <2>1 DEF SessTypeOK
  <2> QED
    BY <1>0, <2>1, <2>2, SeamStays
<1>3. CASE \/ CatchUpFails(s) \/ GoLive(s)
           \/ \E k \in backlog[s] : Replay(s, k)
  BY <1>0, <1>3, SeamStays
     DEF CatchUpFails, GoLive, Replay, feedVars, storeVars, sendVars
<1>4. CASE Deliver(s)
  <2>1. Live!Read(s) /\ stored' = stored /\ sent' = sent /\ half' = half /\ found' = found
    BY <1>4 DEF Deliver, storeVars, sendVars
  <2>2. log' = log /\ since' = since
    BY <1>0, <2>1, ReadOutcome
  <2> QED
    BY <1>0, <2>1, <2>2, SeamStays
<1>5. CASE End(s)
  <2>1. /\ stored' = stored /\ sent' = sent /\ half' = half /\ found' = found
        /\ Live!Leave(s) \/ UNCHANGED feedVars
    BY <1>5 DEF End, storeVars, sendVars
  <2>2. log' = log /\ since' = since
    BY <1>0, <2>1, LeaveOutcome DEF feedVars
  <2> QED
    BY <1>0, <2>1, <2>2, SeamStays
<1> QED
  BY <1>1, <1>2, <1>3, <1>4, <1>5

LEMMA SeamInvStep ==
    ASSUME Inv, ReplayInv, SeamInv, [Next]_vars
    PROVE  SeamInv'
<1>0. StoreTypeOK
  BY TypeParts DEF Inv
<1>1. CASE Aging
  BY <1>0, <1>1, AgingLeaves, SeamStays DEF feedVars, sendVars, sessVars
<1>2. CASE UNCHANGED vars
  BY <1>0, <1>2, SeamStays DEF vars, feedVars, storeVars, sendVars, sessVars
<1> QED
  BY <1>1, <1>2, SeamWsAppend, SeamWsPublish, SeamHttpPublish, SeamHttpAppend,
     SeamSession, StepCases

LEMMA SeamInvAlways == Spec => []SeamInv
<1>1. Init => SeamInv
  <2>1. SUFFICES ASSUME Init PROVE SeamInv
    OBVIOUS
  <2>2. /\ stored = <<>> /\ log = [c \in {Topic} |-> <<>>]
        /\ \A p \in Sender : half[p] = <<>>
    BY <2>1 DEF Init, Live!Init
  <2>3. 1 .. Len(stored) = {} /\ 1 .. Len(log[Topic]) = {}
    BY <2>2
  <2>4. Members(stored) = {} /\ Posted = {}
    BY <2>3 DEF Members, Posted
  <2> QED
    BY <2>2, <2>3, <2>4, SenderKinds DEF SeamInv, Begun, Published, StoredFirst
<1>2. Inv /\ ReplayInv /\ SeamInv /\ [Next]_vars => SeamInv'
  BY SeamInvStep
<1> QED
  BY <1>1, <1>2, InvAlways, ReplayInvAlways, PTL DEF Spec

\* A published message is on its session's side of the log.
LEMMA PostedReaches ==
    ASSUME FeedTypeOK, FeedInv, NEW s \in Session, on[s] = Topic, NEW e \in Posted
    PROVE  e \in PublishedBefore(s) \/ e \in Members(recv[s]) \cup Queued(s)
<1> DEFINE n == Len(log[Topic])
           m == Len(recv[s])
<1>1. PICK i \in 1 .. n : log[Topic][i] = e
  BY DEF Posted
<1>2. since[s] \in Nat /\ limit[s] \in Nat /\ m \in Nat /\ n \in Nat
  BY DEF FeedTypeOK
<1>3. /\ limit[s] = n
      /\ \A j \in 1 .. m : recv[s][j] = log[Topic][since[s] + j]
  BY DEF FeedInv
<1>4. Live!Position(s) = since[s] + m
  BY DEF Live!Position
<1> HIDE DEF n, m
<1>5. CASE i <= since[s]
  BY <1>1, <1>2, <1>5 DEF PublishedBefore
<1>6. CASE since[s] < i /\ i <= since[s] + m
  <2>1. i - since[s] \in 1 .. m /\ since[s] + (i - since[s]) = i
    BY <1>1, <1>2, <1>6
  <2>2. recv[s][i - since[s]] = e
    BY <1>1, <1>3, <2>1
  <2> QED
    BY <2>1, <2>2 DEF Members, m
<1>7. CASE i > since[s] + m
  <2>1. i \in Live!Position(s) + 1 .. limit[s]
    BY <1>1, <1>2, <1>3, <1>4, <1>7
  <2> QED
    BY <1>1, <2>1 DEF Queued
<1> QED
  BY <1>1, <1>2, <1>5, <1>6, <1>7

LEMMA SeamOfOne ==
    ASSUME Inv, ReplayInv, SeamInv, NEW s \in Session, Streaming(s),
           NEW k \in 1 .. Len(stored), k > after[s] \/ k > found[s].newest
    PROVE  \/ Reached(s, k)
           \/ k <= found[s].newest /\ k \notin found[s].kept \ found[s].expired
           \/ k <= found[s].newest /\ BeyondBatch(s, k)
           \/ stored[k].sender \in WsSender /\ half[stored[k].sender] = <<stored[k]>>
           \/ /\ stored[k] \in PublishedBefore(s)
              /\ \/ stored[k].sender \in HttpSender /\ k > found[s].newest
                 \/ ~ found[s].done
<1>0. FeedTypeOK /\ FeedInv /\ StoreTypeOK /\ SessTypeOK
  BY TypeParts DEF Inv
<1>1. on[s] = Topic
  BY DEF Streaming
<1>2. found[s].newest \in Nat /\ Len(stored) \in Nat
  BY <1>0, FoundType DEF StoreTypeOK
<1>3. stored[k] \in Members(stored) /\ stored[k] \in Envelope
  BY <1>0 DEF Members, StoreTypeOK
<1>4. \/ stored[k] \in PublishedBefore(s) \/ Reached(s, k)
      \/ stored[k].sender \in WsSender /\ half[stored[k].sender] = <<stored[k]>>
  <2>1. \/ stored[k] \in Posted
        \/ stored[k].sender \in WsSender /\ half[stored[k].sender] = <<stored[k]>>
    BY <1>3 DEF SeamInv, Published
  <2>2. stored[k] \in Posted => stored[k] \in PublishedBefore(s) \/ Reached(s, k)
    BY <1>0, <1>1, PostedReaches DEF Reached
  <2> QED
    BY <2>1, <2>2
<1>5. CASE ~ found[s].done
  BY <1>4, <1>5
<1>6. CASE found[s].done /\ k <= found[s].newest
  <2>1. k > after[s]
    BY <1>2, <1>6
  <2>2. k \in found[s].kept \ found[s].expired => k \in Readable(s)
    BY <2>1 DEF Readable
  <2>3. k \in Readable(s) => k \in Replayed(s) \/ BeyondBatch(s, k)
    BY <1>6 DEF ReplayInv, ReplayOf
  <2> QED
    BY <1>6, <2>2, <2>3 DEF Reached
<1>7. CASE found[s].done /\ k > found[s].newest
  <2>1. stored[k].sender \in WsSender \/ stored[k].sender \in HttpSender
    BY <1>3, EnvelopeFields, SenderKinds
  <2>2. ~ (stored[k].sender \in WsSender /\ stored[k] \in PublishedBefore(s))
    BY <1>2, <1>7 DEF SeamInv, StoredFirst
  <2> QED
    BY <1>7, <1>4, <2>1, <2>2
<1> QED
  BY <1>2, <1>5, <1>6, <1>7

\* Whatever a streaming session is not handed of what was stored past its cursor
\* or after its catch-up, one of the five exceptions accounts for.
THEOREM MissedForAReasonHolds == Spec => []MissedForAReason
<1>1. Inv /\ ReplayInv /\ SeamInv => MissedForAReason
  BY SeamOfOne DEF MissedForAReason
<1> QED
  BY <1>1, InvAlways, ReplayInvAlways, SeamInvAlways, PTL
=============================================================================
