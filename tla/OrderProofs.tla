---------------------------- MODULE OrderProofs ----------------------------
(***************************************************************************)
(* What a session of Delivery first sees of one sender is in the order it  *)
(* was sent, for any sessions, senders, queue depth, batch and bounds.     *)
(*                                                                         *)
(* The argument.  A sender finishes with a message before it begins the    *)
(* next one, so the store and the log each have its messages in order      *)
(* (Increasing), and all it has begun but the last have been stored or     *)
(* refused (Placed).  What a client has been written is the replayed seqs, *)
(* ascending, and then what was read of the queue (SeenAs).  A live        *)
(* message that is older than a replayed one was therefore in the store    *)
(* before it, where the replay has passed it by for a reason.              *)
(***************************************************************************)
EXTENDS DeliveryProofs

\* The messages of each sender are in the order it began them.
Increasing(q) ==
    \A i, j \in 1 .. Len(q) : i < j /\ q[i].sender = q[j].sender => q[i].n < q[j].n

\* A sender that is in the middle of a publish is with the last message it began,
\* and the half that is to come has only earlier ones.
Latest ==
    \A p \in Sender : half[p] # <<>> =>
        /\ Head(half[p]).n = sent[p]
        /\ p \in HttpSender =>
              \A x \in Members(stored) : x.sender = p => x.n < sent[p]
        /\ p \in WsSender =>
              \A x \in Posted : x.sender = p => x.n < sent[p]

\* A message that was begun is stored or refused, or its HTTP sender still has to
\* append it.
Placed ==
    \A x \in Envelope : x.n <= sent[x.sender] =>
        \/ x \in Members(stored) \cup refused
        \/ x.sender \in HttpSender /\ half[x.sender] = <<x>>

OrderInv == Increasing(stored) /\ Increasing(log[Topic]) /\ Latest /\ Placed

-----------------------------------------------------------------------------
(* The order of a sender's messages *)

LEMMA AppendKeepsOrder ==
    ASSUME NEW q \in Seq(Envelope), Increasing(q), NEW e \in Envelope,
           \A x \in Members(q) : x.sender = e.sender => x.n < e.n
    PROVE  Increasing(Append(q, e))
<1> DEFINE r == Append(q, e)
           n == Len(q)
<1>1. /\ n \in Nat /\ Len(r) = n + 1 /\ r[n + 1] = e
      /\ \A i \in 1 .. n : r[i] = q[i] /\ q[i] \in Members(q)
  BY Longer DEF Members
<1>2. SUFFICES ASSUME NEW i \in 1 .. Len(r), NEW j \in 1 .. Len(r),
                      i < j, r[i].sender = r[j].sender
               PROVE  r[i].n < r[j].n
  BY DEF Increasing
<1> HIDE DEF r, n
<1>3. i \in 1 .. n /\ (j \in 1 .. n \/ j = n + 1)
  BY <1>1, <1>2
<1>4. CASE j \in 1 .. n
  BY <1>1, <1>2, <1>3, <1>4 DEF Increasing, n
<1>5. CASE j = n + 1
  BY <1>1, <1>2, <1>3, <1>5
<1> QED
  BY <1>3, <1>4, <1>5

\* What comes of storing a message.
LEMMA StoreChoices ==
    ASSUME NEW e, Store(e)
    PROVE  \/ stored' = stored /\ refused' = refused \cup {e}
           \/ stored' = Append(stored, e) /\ refused' = refused
  BY DEF Store

LEMMA AppendMembers ==
    ASSUME NEW q \in Seq(Envelope), NEW e \in Envelope
    PROVE  Members(Append(q, e)) = Members(q) \cup {e}
<1> DEFINE r == Append(q, e)
           n == Len(q)
<1>1. /\ n \in Nat /\ Len(r) = n + 1 /\ r[n + 1] = e /\ \A i \in 1 .. n : r[i] = q[i]
  BY Longer
<1> HIDE DEF r, n
<1>2. \A i : i \in 1 .. n + 1 <=> i \in 1 .. n \/ i = n + 1
  BY <1>1
<1>3. {r[i] : i \in 1 .. Len(r)} = {q[i] : i \in 1 .. n} \cup {e}
  BY <1>1, <1>2
<1> QED
  BY <1>3 DEF Members, r, n

\* Whatever comes of it the message has its place.
LEMMA StoreMembers ==
    ASSUME stored \in Seq(Envelope), NEW e \in Envelope, Store(e)
    PROVE  /\ Members(stored') \subseteq Members(stored) \cup {e}
           /\ Members(stored) \cup refused \cup {e} = Members(stored') \cup refused'
<1>1. CASE stored' = stored /\ refused' = refused \cup {e}
  BY <1>1
<1>2. CASE stored' = Append(stored, e) /\ refused' = refused
  <2>1. Members(stored') = Members(stored) \cup {e}
    BY <1>2, AppendMembers
  <2> QED
    BY <1>2, <2>1
<1> QED
  BY <1>1, <1>2, StoreChoices

\* The two envelopes of a sender with one number are one.
LEMMA SameEnvelope ==
    ASSUME NEW x \in Envelope, NEW y \in Envelope, x.sender = y.sender, x.n = y.n
    PROVE  x = y
  BY DEF Envelope

\* The senders that do not move.
LEMMA LatestStays ==
    ASSUME Latest, NEW p \in Sender, NEW e \in Envelope, e.sender = p,
           Members(stored') \subseteq Members(stored) \cup {e},
           Posted' \subseteq Posted \cup {e},
           \A q \in Sender \ {p} : half'[q] = half[q] /\ sent'[q] = sent[q],
           half'[p] # <<>> =>
              /\ Head(half'[p]).n = sent'[p]
              /\ p \in HttpSender =>
                    \A x \in Members(stored') : x.sender = p => x.n < sent'[p]
              /\ p \in WsSender =>
                    \A x \in Posted' : x.sender = p => x.n < sent'[p]
    PROVE  Latest'
<1>1. ASSUME NEW q \in Sender, half'[q] # <<>>
      PROVE  /\ Head(half'[q]).n = sent'[q]
             /\ q \in HttpSender =>
                   \A x \in Members(stored') : x.sender = q => x.n < sent'[q]
             /\ q \in WsSender =>
                   \A x \in Posted' : x.sender = q => x.n < sent'[q]
  <2>1. CASE q = p
    BY <1>1, <2>1
  <2>2. CASE q # p
    <3>1. half'[q] = half[q] /\ sent'[q] = sent[q]
      BY <2>2
    <3> QED
      BY <1>1, <2>2, <3>1 DEF Latest
  <2> QED
    BY <2>1, <2>2
<1> QED
  BY <1>1 DEF Latest, Members

LEMMA PlacedStays ==
    ASSUME Placed, NEW p \in Sender,
           Members(stored) \cup refused \subseteq Members(stored') \cup refused',
           \A q \in Sender \ {p} : half'[q] = half[q] /\ sent'[q] = sent[q],
           \A x \in Envelope : x.sender = p /\ x.n <= sent'[p] =>
              \/ x \in Members(stored') \cup refused'
              \/ p \in HttpSender /\ half'[p] = <<x>>
    PROVE  Placed'
<1>1. ASSUME NEW x \in Envelope, x.n <= sent'[x.sender]
      PROVE  \/ x \in Members(stored') \cup refused'
             \/ x.sender \in HttpSender /\ half'[x.sender] = <<x>>
  <2>1. CASE x.sender = p
    BY <1>1, <2>1
  <2>2. CASE x.sender # p
    <3>1. half'[x.sender] = half[x.sender] /\ sent'[x.sender] = sent[x.sender]
      BY <2>2, EnvelopeFields
    <3> QED
      BY <1>1, <3>1 DEF Placed
  <2> QED
    BY <2>1, <2>2
<1> QED
  BY <1>1 DEF Placed, Members

\* A sender begins a message: it is later than all it has stored or published.
LEMMA BeginsLater ==
    ASSUME Inv, Begun, NEW p \in Sender, Begins(p)
    PROVE  /\ Fresh(p) \in Envelope /\ Fresh(p).sender = p /\ Fresh(p).n = sent'[p]
           /\ half'[p] = <<Fresh(p)>> /\ Head(half'[p]) = Fresh(p)
           /\ \A x \in Members(stored) \cup Posted :
                 x.sender = p => x.n < Fresh(p).n
           /\ \A q \in Sender \ {p} : half'[q] = half[q] /\ sent'[q] = sent[q]
           /\ \A x \in Envelope : x.sender = p /\ x.n <= sent'[p] =>
                 x = Fresh(p) \/ (x.n <= sent[p] /\ half[p] # <<x>>)
<1>1. /\ Fresh(p) \in Envelope /\ Fresh(p).sender = p /\ Fresh(p).n = sent[p] + 1
      /\ half[p] = <<>> /\ half'[p] = <<Fresh(p)>> /\ sent'[p] = sent[p] + 1
      /\ \A q \in Sender \ {p} : half'[q] = half[q] /\ sent'[q] = sent[q]
      /\ sent[p] \in Nat /\ Members(stored) \cup Posted \subseteq Envelope
  BY SeamTypes, BeginsOutcome
<1>2. Head(half'[p]) = Fresh(p)
  BY <1>1
<1>3. ASSUME NEW x \in Members(stored) \cup Posted, x.sender = p
      PROVE  x.n < Fresh(p).n
  <2>1. x.n \in Nat /\ x.n <= sent[p]
    BY <1>1, <1>3, EnvelopeFields DEF Begun
  <2> QED
    BY <1>1, <2>1
<1>4. ASSUME NEW x \in Envelope, x.sender = p, x.n <= sent'[p]
      PROVE  x = Fresh(p) \/ (x.n <= sent[p] /\ half[p] # <<x>>)
  <2>1. x.n = sent[p] + 1 \/ x.n <= sent[p]
    BY <1>1, <1>4, EnvelopeFields
  <2>2. x.n = sent[p] + 1 => x = Fresh(p)
    BY <1>1, <1>4, SameEnvelope
  <2> QED
    BY <1>1, <2>1, <2>2
<1> QED
  BY <1>1, <1>2, <1>3, <1>4

LEMMA OrderWsAppend ==
    ASSUME Inv, SeamInv, OrderInv, NEW p \in WsSender, WsAppend(p)
    PROVE  OrderInv'
<1>0. /\ StoreTypeOK /\ p \in Sender /\ p \notin HttpSender
      /\ stored \in Seq(Envelope) /\ Begun
  BY SeamTypes, SenderKinds DEF SeamInv, StoreTypeOK
<1> DEFINE e == Fresh(p)
<1>1. /\ e \in Envelope /\ e.sender = p /\ e.n = sent'[p]
      /\ half'[p] = <<e>> /\ Head(half'[p]) = e
      /\ \A x \in Members(stored) \cup Posted : x.sender = p => x.n < e.n
      /\ \A q \in Sender \ {p} : half'[q] = half[q] /\ sent'[q] = sent[q]
      /\ \A x \in Envelope : x.sender = p /\ x.n <= sent'[p] =>
            x = e \/ (x.n <= sent[p] /\ half[p] # <<x>>)
  BY <1>0, BeginsLater DEF WsAppend
<1>2. Store(e) /\ log' = log
  BY DEF WsAppend, feedVars
<1> HIDE DEF e
<1>3. \/ stored' = stored /\ refused' = refused \cup {e}
      \/ stored' = Append(stored, e) /\ refused' = refused
  BY <1>2, StoreChoices
<1>4. /\ Members(stored') \subseteq Members(stored) \cup {e}
      /\ Members(stored) \cup refused \cup {e} = Members(stored') \cup refused'
  BY <1>0, <1>1, <1>2, StoreMembers
<1>5. Increasing(stored)'
  <2>1. Increasing(stored) /\ Increasing(Append(stored, e))
    BY <1>0, <1>1, AppendKeepsOrder DEF OrderInv
  <2> QED
    BY <1>3, <2>1 DEF Increasing
<1>6. Increasing(log[Topic])' /\ Posted' = Posted
  BY <1>2 DEF OrderInv, Increasing, Posted
<1>7. Latest'
  BY <1>0, <1>1, <1>4, <1>6, LatestStays DEF OrderInv
<1>8. Placed'
  <2>1. ASSUME NEW x \in Envelope, x.sender = p, x.n <= sent'[p]
        PROVE  x \in Members(stored') \cup refused'
    BY <1>0, <1>1, <1>4, <2>1 DEF OrderInv, Placed
  <2> QED
    BY <1>0, <1>1, <1>4, <2>1, PlacedStays DEF OrderInv
<1> QED
  BY <1>5, <1>6, <1>7, <1>8 DEF OrderInv

LEMMA OrderHttpPublish ==
    ASSUME Inv, SeamInv, OrderInv, NEW p \in HttpSender, HttpPublish(p)
    PROVE  OrderInv'
<1>0. /\ FeedTypeOK /\ FeedInv /\ p \in Sender /\ p \notin WsSender
      /\ log[Topic] \in Seq(Envelope) /\ Begun
  BY SeamTypes, SenderKinds DEF SeamInv, FeedTypeOK
<1> DEFINE e == Fresh(p)
<1>1. /\ e \in Envelope /\ e.sender = p /\ e.n = sent'[p]
      /\ half'[p] = <<e>> /\ Head(half'[p]) = e
      /\ \A x \in Members(stored) \cup Posted : x.sender = p => x.n < e.n
      /\ \A q \in Sender \ {p} : half'[q] = half[q] /\ sent'[q] = sent[q]
      /\ \A x \in Envelope : x.sender = p /\ x.n <= sent'[p] =>
            x = e \/ (x.n <= sent[p] /\ half[p] # <<x>>)
  BY <1>0, BeginsLater DEF HttpPublish
<1>2. Post(e) /\ stored' = stored /\ refused' = refused
  BY DEF HttpPublish, storeVars
<1> HIDE DEF e
<1>3. log'[Topic] = Append(log[Topic], e) /\ Posted' = Posted \cup {e}
  BY <1>0, <1>1, <1>2, PostOutcome, LogElements
<1>4. Members(log[Topic]) = Posted
  BY DEF Members, Posted
<1>5. Increasing(log[Topic])'
  <2>1. Increasing(Append(log[Topic], e))
    BY <1>0, <1>1, <1>4, AppendKeepsOrder DEF OrderInv
  <2> QED
    BY <1>3, <2>1 DEF Increasing
<1>6. Increasing(stored)' /\ Members(stored') = Members(stored)
  BY <1>2 DEF OrderInv, Increasing
<1>7. Latest'
  BY <1>0, <1>1, <1>3, <1>6, LatestStays DEF OrderInv
<1>8. Placed'
  <2>1. ASSUME NEW x \in Envelope, x.sender = p, x.n <= sent'[p]
        PROVE  x \in Members(stored') \cup refused' \/ half'[p] = <<x>>
    BY <1>0, <1>1, <1>2, <1>6, <2>1 DEF OrderInv, Placed
  <2> QED
    BY <1>0, <1>1, <1>2, <1>6, <2>1, PlacedStays DEF OrderInv
<1> QED
  BY <1>5, <1>6, <1>7, <1>8 DEF OrderInv

\* A sender ends with the message it is in the middle of, its last one.
LEMMA FinishesLast ==
    ASSUME Inv, Begun, Latest, NEW p \in Sender, Finishes(p)
    PROVE  /\ Head(half[p]) \in Envelope /\ Head(half[p]).sender = p
           /\ Head(half[p]).n = sent[p] /\ half[p] = <<Head(half[p])>> /\ half[p] # <<>>
           /\ half'[p] = <<>> /\ sent' = sent
           /\ \A q \in Sender \ {p} : half'[q] = half[q] /\ sent'[q] = sent[q]
           /\ \A x : half[p] = <<x>> => x = Head(half[p])
<1>1. /\ Head(half[p]) \in Envelope /\ half[p] # <<>> /\ half'[p] = <<>> /\ sent' = sent
      /\ \A q \in Sender \ {p} : half'[q] = half[q]
  BY SeamTypes, FinishesOutcome
<1>2. \A x : half[p] = <<x>> => x = Head(half[p])
  OBVIOUS
<1> QED
  BY <1>1, <1>2 DEF Begun, Latest

LEMMA OrderWsPublish ==
    ASSUME Inv, SeamInv, OrderInv, NEW p \in WsSender, WsPublish(p)
    PROVE  OrderInv'
<1>0. /\ FeedTypeOK /\ FeedInv /\ p \in Sender /\ p \notin HttpSender
      /\ log[Topic] \in Seq(Envelope) /\ Begun /\ Latest
  BY SeamTypes, SenderKinds DEF SeamInv, OrderInv, FeedTypeOK
<1> DEFINE e == Head(half[p])
<1>1. /\ e \in Envelope /\ e.sender = p /\ e.n = sent[p] /\ half[p] # <<>>
      /\ half'[p] = <<>> /\ sent' = sent
      /\ \A q \in Sender \ {p} : half'[q] = half[q] /\ sent'[q] = sent[q]
  BY <1>0, FinishesLast DEF WsPublish
<1>2. Post(e) /\ stored' = stored /\ refused' = refused
  BY DEF WsPublish, storeVars
<1> HIDE DEF e
<1>3. log'[Topic] = Append(log[Topic], e) /\ Posted' = Posted \cup {e}
  BY <1>0, <1>1, <1>2, PostOutcome, LogElements
<1>4. Members(log[Topic]) = Posted /\ \A x \in Posted : x.sender = p => x.n < e.n
  BY <1>0, <1>1 DEF Members, Posted, Latest
<1>5. Increasing(log[Topic])'
  <2>1. Increasing(Append(log[Topic], e))
    BY <1>0, <1>1, <1>4, AppendKeepsOrder DEF OrderInv
  <2> QED
    BY <1>3, <2>1 DEF Increasing
<1>6. Increasing(stored)' /\ Members(stored') = Members(stored)
  BY <1>2 DEF OrderInv, Increasing
<1>7. Latest'
  BY <1>0, <1>1, <1>3, <1>6, LatestStays
<1>8. Placed'
  <2>1. ASSUME NEW x \in Envelope, x.sender = p, x.n <= sent'[p]
        PROVE  x \in Members(stored') \cup refused'
    BY <1>0, <1>1, <1>2, <1>6, <2>1 DEF OrderInv, Placed
  <2> QED
    BY <1>0, <1>1, <1>2, <1>6, <2>1, PlacedStays DEF OrderInv
<1> QED
  BY <1>5, <1>6, <1>7, <1>8 DEF OrderInv

LEMMA OrderHttpAppend ==
    ASSUME Inv, SeamInv, OrderInv, NEW p \in HttpSender, HttpAppend(p)
    PROVE  OrderInv'
<1>0. /\ p \in Sender /\ p \notin WsSender
      /\ stored \in Seq(Envelope) /\ Begun /\ Latest
  BY SeamTypes, SenderKinds DEF SeamInv, OrderInv, StoreTypeOK
<1> DEFINE e == Head(half[p])
<1>1. /\ e \in Envelope /\ e.sender = p /\ e.n = sent[p] /\ half[p] # <<>>
      /\ half'[p] = <<>> /\ sent' = sent
      /\ \A q \in Sender \ {p} : half'[q] = half[q] /\ sent'[q] = sent[q]
      /\ \A x : half[p] = <<x>> => x = e
  BY <1>0, FinishesLast DEF HttpAppend
<1>2. Store(e) /\ log' = log
  BY DEF HttpAppend, feedVars
<1> HIDE DEF e
<1>3. \/ stored' = stored /\ refused' = refused \cup {e}
      \/ stored' = Append(stored, e) /\ refused' = refused
  BY <1>2, StoreChoices
<1>4. /\ Members(stored') \subseteq Members(stored) \cup {e}
      /\ Members(stored) \cup refused \cup {e} = Members(stored') \cup refused'
  BY <1>0, <1>1, <1>2, StoreMembers
<1>5. Increasing(stored)'
  <2>1. \A x \in Members(stored) : x.sender = e.sender => x.n < e.n
    BY <1>0, <1>1 DEF Latest
  <2>2. Increasing(stored) /\ Increasing(Append(stored, e))
    BY <1>0, <1>1, <2>1, AppendKeepsOrder DEF OrderInv
  <2> QED
    BY <1>3, <2>2 DEF Increasing
<1>6. Increasing(log[Topic])' /\ Posted' = Posted
  BY <1>2 DEF OrderInv, Increasing, Posted
<1>7. Latest'
  BY <1>0, <1>1, <1>4, <1>6, LatestStays
<1>8. Placed'
  <2>1. ASSUME NEW x \in Envelope, x.sender = p, x.n <= sent'[p]
        PROVE  x \in Members(stored') \cup refused'
    BY <1>0, <1>1, <1>4, <2>1 DEF OrderInv, Placed
  <2> QED
    BY <1>0, <1>1, <1>4, <2>1, PlacedStays DEF OrderInv
<1> QED
  BY <1>5, <1>6, <1>7, <1>8 DEF OrderInv

\* A session's step does not touch what was published or stored.
LEMMA SessionLeaves ==
    ASSUME Inv, NEW s \in Session,
           \/ Attach(s) \/ CatchUp(s) \/ CatchUpFails(s)
           \/ \E k \in backlog[s] : Replay(s, k)
           \/ GoLive(s) \/ Deliver(s) \/ End(s)
    PROVE  UNCHANGED <<log, stored, refused, sent, half>>
<1>0. FeedTypeOK /\ FeedInv /\ (phase[s] = "off" => recv[s] = <<>>)
  BY TypeParts DEF Inv
<1>1. UNCHANGED <<stored, refused, sent, half>>
  BY DEF Attach, CatchUp, CatchUpFails, Replay, GoLive, Deliver, End, storeVars, sendVars
<1>2. log' = log
  <2>1. CASE Attach(s)
    BY <1>0, <2>1, JoinOutcome DEF Attach
  <2>2. CASE Deliver(s)
    BY <1>0, <2>2, ReadOutcome DEF Deliver
  <2>3. CASE End(s)
    BY <1>0, <2>3, LeaveOutcome DEF End, feedVars
  <2>4. CASE \/ CatchUp(s) \/ CatchUpFails(s) \/ GoLive(s)
             \/ \E k \in backlog[s] : Replay(s, k)
    BY <2>4 DEF CatchUp, CatchUpFails, GoLive, Replay, feedVars
  <2> QED
    BY <2>1, <2>2, <2>3, <2>4
<1> QED
  BY <1>1, <1>2

LEMMA OrderStays ==
    ASSUME OrderInv, UNCHANGED <<log, stored, refused, sent, half>>
    PROVE  OrderInv'
<1>1. Posted' = Posted /\ Members(stored)' = Members(stored)
  BY DEF Posted, Members
<1>2. Increasing(stored)' /\ Increasing(log[Topic])'
  BY DEF OrderInv, Increasing
<1>3. Latest' /\ Placed'
  BY <1>1 DEF OrderInv, Latest, Placed
<1> QED
  BY <1>2, <1>3 DEF OrderInv

LEMMA OrderInvStep ==
    ASSUME Inv, SeamInv, OrderInv, [Next]_vars
    PROVE  OrderInv'
<1>0. StoreTypeOK
  BY TypeParts DEF Inv
<1>1. CASE Aging
  BY <1>0, <1>1, AgingLeaves, OrderStays DEF feedVars, sendVars
<1>2. CASE UNCHANGED vars
  BY <1>2, OrderStays DEF vars, feedVars, storeVars, sendVars
<1>3. ASSUME NEW s \in Session,
             \/ Attach(s) \/ CatchUp(s) \/ CatchUpFails(s)
             \/ \E k \in backlog[s] : Replay(s, k)
             \/ GoLive(s) \/ Deliver(s) \/ End(s)
      PROVE  OrderInv'
  BY <1>3, SessionLeaves, OrderStays
<1> QED
  BY <1>1, <1>2, <1>3, OrderWsAppend, OrderWsPublish, OrderHttpPublish, OrderHttpAppend,
     StepCases

LEMMA OrderInvAlways == Spec => []OrderInv
<1>1. Init => OrderInv
  <2>1. SUFFICES ASSUME Init PROVE OrderInv
    OBVIOUS
  <2>2. /\ stored = <<>> /\ log[Topic] = <<>>
        /\ \A p \in Sender : half[p] = <<>> /\ sent[p] = 0
    BY <2>1 DEF Init, Live!Init
  <2>3. Increasing(stored) /\ Increasing(log[Topic])
    BY <2>2 DEF Increasing
  <2>4. Latest
    BY <2>2 DEF Latest
  <2>5. \A x \in Envelope : x.sender \in Sender /\ ~ x.n <= 0
    BY DeliveryAssumption DEF Envelope
  <2>6. Placed
    BY <2>2, <2>5 DEF Placed
  <2> QED
    BY <2>3, <2>4, <2>6 DEF OrderInv
<1>2. Inv /\ SeamInv /\ OrderInv /\ [Next]_vars => OrderInv'
  BY OrderInvStep
<1> QED
  BY <1>1, <1>2, InvAlways, SeamInvAlways, PTL DEF Spec

-----------------------------------------------------------------------------
(* What a session's client was written *)

\* The seqs in q, ascending, are those that were replayed; their messages were
\* written first, and then what was read of the queue.
SeenAs(s, q) ==
    /\ \A i \in 1 .. Len(q) : q[i] \in caught[s] /\ q[i] \in 1 .. Len(stored)
    /\ \A i, j \in 1 .. Len(q) : i < j => q[i] < q[j]
    /\ \A k \in caught[s] : \E i \in 1 .. Len(q) : q[i] = k
    /\ Len(seen[s]) = Len(q) + Len(recv[s])
    /\ \A i \in 1 .. Len(q) : seen[s][i] = stored[q[i]]
    /\ \A i \in 1 .. Len(recv[s]) : seen[s][Len(q) + i] = recv[s][i]

\* Nothing is read of the queue until the replay is over.
SeenOf(s) ==
    /\ phase[s] \notin {"live", "over"} => recv[s] = <<>>
    /\ \E q \in Seq(Nat) : SeenAs(s, q)

SeenInv == \A s \in Session : SeenOf(s)

\* A session of which at most the phase changed.
LEMMA SeenStays ==
    ASSUME NEW s \in Session, SeenOf(s),
           seen'[s] = seen[s], caught'[s] = caught[s], recv'[s] = recv[s],
           phase'[s] = phase[s] \/ phase'[s] \in {"live", "over"} \/ recv[s] = <<>>,
           \A k \in 1 .. Len(stored) : k \in 1 .. Len(stored') /\ stored'[k] = stored[k]
    PROVE  SeenOf(s)'
<1>1. PICK q \in Seq(Nat) : SeenAs(s, q)
  BY DEF SeenOf
<1>2. SeenAs(s, q)'
  BY <1>1 DEF SeenAs
<1> QED
  BY <1>2 DEF SeenOf

\* The store keeps what it has in its place.
LEMMA StoredStays ==
    ASSUME StoreTypeOK, NEW e \in Envelope, Store(e)
    PROVE  \A k \in 1 .. Len(stored) : k \in 1 .. Len(stored') /\ stored'[k] = stored[k]
<1>1. stored \in Seq(Envelope)
  BY DEF StoreTypeOK
<1>2. CASE stored' = stored
  BY <1>2
<1>3. CASE stored' = Append(stored, e)
  BY <1>1, <1>3, Longer
<1> QED
  BY <1>2, <1>3, StoreOutcome

\* A message is replayed: its seq is past those replayed before it.
LEMMA SeenReplay ==
    ASSUME Inv, ReplayInv, NEW s \in Session, SeenOf(s), NEW k \in backlog[s], Replay(s, k)
    PROVE  SeenOf(s)'
<1>0. /\ StoreTypeOK /\ SessTypeOK /\ seen[s] \in Seq(Envelope) /\ stored \in Seq(Envelope)
      /\ k \in 1 .. Len(stored) /\ k \in Nat
  BY TypeParts DEF Inv, SessTypeOK, StoreTypeOK
<1>1. /\ phase[s] = "replay" /\ phase' = phase /\ recv' = recv /\ stored' = stored
      /\ caught'[s] = caught[s] \cup {k} /\ seen'[s] = Append(seen[s], stored[k])
  BY <1>0 DEF Replay, SessTypeOK, feedVars, storeVars
<1>2. recv[s] = <<>>
  BY <1>1 DEF SeenOf
<1>3. \A j \in caught[s] : j < k
  BY DEF ReplayInv, ReplayOf
<1>4. PICK q \in Seq(Nat) : SeenAs(s, q)
  BY DEF SeenOf
<1> DEFINE r == Append(q, k)
           n == Len(q)
<1>5. /\ r \in Seq(Nat) /\ n \in Nat /\ Len(r) = n + 1 /\ r[n + 1] = k
      /\ \A i \in 1 .. n : r[i] = q[i]
  BY <1>0, <1>4
<1>6. stored[k] \in Envelope
  BY <1>0
<1>7. /\ Len(seen[s]) = n /\ Len(seen'[s]) = n + 1 /\ seen'[s][n + 1] = stored[k]
      /\ \A i \in 1 .. n : seen'[s][i] = seen[s][i]
  <2>1. Len(seen[s]) = n
    BY <1>2, <1>4, <1>5 DEF SeenAs
  <2> HIDE DEF n
  <2> QED
    BY <1>0, <1>1, <1>6, <2>1, Longer
<1>8. /\ \A i \in 1 .. n : q[i] \in caught[s] /\ q[i] \in 1 .. Len(stored)
      /\ \A i, j \in 1 .. n : i < j => q[i] < q[j]
      /\ \A j \in caught[s] : \E i \in 1 .. n : q[i] = j
      /\ \A i \in 1 .. n : seen[s][i] = stored[q[i]]
  BY <1>4 DEF SeenAs
<1> HIDE DEF n, r
<1>9. \A i \in 1 .. Len(r) : i \in 1 .. n \/ i = n + 1
  BY <1>5
<1>10. \A i \in 1 .. n : i \in 1 .. Len(r)
  BY <1>5
<1>11. n + 1 \in 1 .. Len(r)
  BY <1>5
<1>12. SeenAs(s, r)'
  <2>1. \A i \in 1 .. Len(r) : r[i] \in caught'[s] /\ r[i] \in 1 .. Len(stored')
    BY <1>0, <1>1, <1>5, <1>8, <1>9
  <2>2. ASSUME NEW i \in 1 .. Len(r), NEW j \in 1 .. Len(r), i < j PROVE r[i] < r[j]
    <3>1. i \in 1 .. n
      BY <1>5, <2>2
    <3>2. CASE j \in 1 .. n
      BY <1>5, <1>8, <2>2, <3>1, <3>2
    <3>3. CASE j = n + 1
      BY <1>3, <1>5, <1>8, <3>1, <3>3
    <3> QED
      BY <1>9, <3>2, <3>3
  <2>3. \A j \in caught'[s] : \E i \in 1 .. Len(r) : r[i] = j
    <3>1. ASSUME NEW j \in caught'[s] PROVE \E i \in 1 .. Len(r) : r[i] = j
      <4>1. CASE j = k
        BY <1>5, <1>11, <4>1
      <4>2. CASE j \in caught[s]
        BY <1>5, <1>8, <1>10, <4>2
      <4> QED
        BY <1>1, <3>1, <4>1, <4>2
    <3> QED
      BY <3>1
  <2>4. \A i \in 1 .. Len(r) : seen'[s][i] = stored'[r[i]]
    BY <1>1, <1>5, <1>7, <1>8, <1>9
  <2>5. Len(recv'[s]) = 0 /\ 1 .. Len(recv'[s]) = {}
    BY <1>1, <1>2
  <2>6. Len(seen'[s]) = Len(r) + Len(recv'[s])
    BY <1>5, <1>7, <2>5
  <2> QED
    BY <2>1, <2>2, <2>3, <2>4, <2>5, <2>6 DEF SeenAs
<1> QED
  BY <1>1, <1>2, <1>5, <1>12 DEF SeenOf

\* A live message is written.
LEMMA SeenDeliver ==
    ASSUME Inv, NEW s \in Session, SeenOf(s), Deliver(s)
    PROVE  SeenOf(s)'
<1> DEFINE x == NextLive(s)
           m == Len(recv[s])
<1>0. /\ FeedTypeOK /\ FeedInv /\ SessTypeOK
      /\ seen[s] \in Seq(Envelope) /\ recv[s] \in Seq(Envelope)
  BY TypeParts DEF Inv, SessTypeOK, FeedTypeOK
<1>1. /\ phase[s] = "live" /\ Live!Read(s) /\ phase' = phase
      /\ stored' = stored /\ caught' = caught
      /\ seen'[s] = Append(seen[s], x)
  BY <1>0 DEF Deliver, SessTypeOK, storeVars
<1>2. x \in Envelope
  BY <1>0, <1>1, ReadOutcome
<1>3. recv'[s] = Append(recv[s], x)
  BY <1>0, <1>1 DEF Live!Read, NextLive, Live!Position, FeedTypeOK
<1> HIDE DEF x
<1>4. PICK q \in Seq(Nat) : SeenAs(s, q)
  BY DEF SeenOf
<1> DEFINE n == Len(q)
           l == Len(seen[s])
<1>5. /\ n \in Nat /\ m \in Nat /\ l = n + m
      /\ Len(recv'[s]) = m + 1 /\ recv'[s][m + 1] = x
      /\ \A i \in 1 .. m : recv'[s][i] = recv[s][i]
      /\ Len(seen'[s]) = l + 1 /\ seen'[s][l + 1] = x
      /\ \A i \in 1 .. l : seen'[s][i] = seen[s][i]
  <2>1. n \in Nat /\ l = n + m
    BY <1>4 DEF SeenAs
  <2> HIDE DEF n
  <2>2. /\ m \in Nat /\ Len(recv'[s]) = m + 1 /\ recv'[s][m + 1] = x
        /\ \A i \in 1 .. m : recv'[s][i] = recv[s][i]
    BY <1>0, <1>2, <1>3, Longer
  <2>3. /\ Len(seen'[s]) = l + 1 /\ seen'[s][l + 1] = x
        /\ \A i \in 1 .. l : seen'[s][i] = seen[s][i]
    BY <1>0, <1>1, <1>2, Longer
  <2> QED
    BY <2>1, <2>2, <2>3
<1>6. /\ \A i \in 1 .. n : seen[s][i] = stored[q[i]]
      /\ \A i \in 1 .. m : seen[s][n + i] = recv[s][i]
  BY <1>4 DEF SeenAs
<1> HIDE DEF m, n, l
<1>7. /\ \A i \in 1 .. n : i \in 1 .. l
      /\ \A i \in 1 .. m : n + i \in 1 .. l
      /\ \A i \in 1 .. m + 1 : i \in 1 .. m \/ i = m + 1
      /\ n + (m + 1) = l + 1
  BY <1>5
<1>8. \A i \in 1 .. n : seen'[s][i] = stored'[q[i]]
  BY <1>1, <1>5, <1>6, <1>7
<1>9. ASSUME NEW i \in 1 .. m + 1 PROVE seen'[s][n + i] = recv'[s][i]
  <2>1. CASE i \in 1 .. m
    BY <1>5, <1>6, <1>7, <2>1
  <2>2. CASE i = m + 1
    BY <1>5, <1>7, <2>2
  <2> QED
    BY <1>7, <2>1, <2>2
<1>10. SeenAs(s, q)'
  <2>1. Len(seen'[s]) = Len(q) + Len(recv'[s])
    BY <1>5 DEF n
  <2> QED
    BY <1>1, <1>4, <1>5, <1>8, <1>9, <2>1 DEF SeenAs, n
<1> QED
  BY <1>1, <1>10 DEF SeenOf

LEMMA SeenSession ==
    ASSUME Inv, ReplayInv, SeenInv, NEW s \in Session,
           \/ Attach(s) \/ CatchUp(s) \/ CatchUpFails(s)
           \/ \E k \in backlog[s] : Replay(s, k)
           \/ GoLive(s) \/ Deliver(s) \/ End(s)
    PROVE  SeenInv'
<1>0. /\ FeedTypeOK /\ FeedInv /\ SessTypeOK /\ (phase[s] = "off" => recv[s] = <<>>)
      /\ stored' = stored
  BY TypeParts, SessionLeaves DEF Inv
<1>1. ASSUME NEW t \in Session \ {s} PROVE SeenOf(t)'
  <2>1. /\ seen'[t] = seen[t] /\ caught'[t] = caught[t] /\ phase'[t] = phase[t]
    BY <1>0 DEF Attach, CatchUp, CatchUpFails, Replay, GoLive, Deliver, End, SessTypeOK
  <2>2. recv'[t] = recv[t]
    <3>1. CASE Attach(s)
      BY <1>0, <3>1, JoinOutcome DEF Attach
    <3>2. CASE Deliver(s)
      BY <1>0, <3>2 DEF Deliver, Live!Read, FeedTypeOK
    <3>3. CASE End(s)
      BY <1>0, <3>3, LeaveOutcome DEF End, feedVars
    <3>4. CASE \/ CatchUp(s) \/ CatchUpFails(s) \/ GoLive(s)
               \/ \E k \in backlog[s] : Replay(s, k)
      BY <3>4 DEF CatchUp, CatchUpFails, GoLive, Replay, feedVars
    <3> QED
      BY <3>1, <3>2, <3>3, <3>4
  <2> QED
    BY <1>0, <2>1, <2>2, SeenStays DEF SeenInv
<1>2. SeenOf(s)'
  <2>0. SeenOf(s)
    BY DEF SeenInv
  <2>1. CASE Attach(s)
    <3>1. /\ phase[s] = "off" /\ Live!Join(s, Topic)
          /\ seen' = seen /\ caught' = caught
      BY <2>1 DEF Attach
    <3>2. recv' = recv /\ recv[s] = <<>>
      BY <1>0, <3>1, JoinOutcome
    <3> QED
      BY <1>0, <2>0, <3>1, <3>2, SeenStays
  <2>2. CASE CatchUp(s)
    <3>1. /\ phase[s] = "joined" /\ seen' = seen /\ caught' = caught /\ recv' = recv
      BY <2>2 DEF CatchUp, feedVars
    <3>2. recv[s] = <<>>
      BY <2>0, <3>1 DEF SeenOf
    <3> QED
      BY <1>0, <2>0, <3>1, <3>2, SeenStays
  <2>3. CASE CatchUpFails(s) \/ GoLive(s)
    <3>1. /\ phase'[s] = "live" /\ seen' = seen /\ caught' = caught /\ recv' = recv
      BY <1>0, <2>3 DEF CatchUpFails, GoLive, feedVars, SessTypeOK
    <3> QED
      BY <1>0, <2>0, <3>1, SeenStays
  <2>4. ASSUME NEW k \in backlog[s], Replay(s, k) PROVE SeenOf(s)'
    BY <2>0, <2>4, SeenReplay
  <2>5. CASE Deliver(s)
    BY <2>0, <2>5, SeenDeliver
  <2>6. CASE End(s)
    <3>1. /\ phase'[s] = "over" /\ seen' = seen /\ caught' = caught
          /\ Live!Leave(s) \/ UNCHANGED feedVars
      BY <1>0, <2>6 DEF End, SessTypeOK
    <3>2. recv' = recv
      BY <1>0, <3>1, LeaveOutcome DEF feedVars
    <3> QED
      BY <1>0, <2>0, <3>1, <3>2, SeenStays
  <2> QED
    BY <2>1, <2>2, <2>3, <2>4, <2>5, <2>6
<1> QED
  BY <1>1, <1>2 DEF SeenInv

\* A sender's step extends the log and the store.
LEMMA SeenSender ==
    ASSUME Inv, SeamInv, SeenInv, NEW p \in Sender,
           \/ p \in WsSender /\ (WsAppend(p) \/ WsPublish(p))
           \/ p \in HttpSender /\ (HttpPublish(p) \/ HttpAppend(p))
    PROVE  SeenInv'
<1>0. FeedTypeOK /\ FeedInv /\ StoreTypeOK /\ SendTypeOK
  BY TypeParts DEF Inv
<1>1. seen' = seen /\ caught' = caught /\ phase' = phase
  BY DEF WsAppend, WsPublish, HttpPublish, HttpAppend, sessVars
<1>2. /\ Fresh(p) \in Envelope \/ ~ Begins(p)
      /\ Head(half[p]) \in Envelope \/ ~ Finishes(p)
  BY <1>0, BeginsOutcome, FinishesOutcome
<1>3. recv' = recv
  BY <1>0, <1>2, PostOutcome DEF WsAppend, WsPublish, HttpPublish, HttpAppend, feedVars
<1>4. \A k \in 1 .. Len(stored) : k \in 1 .. Len(stored') /\ stored'[k] = stored[k]
  <2>1. CASE WsPublish(p) \/ HttpPublish(p)
    BY <2>1 DEF WsPublish, HttpPublish, storeVars
  <2>2. CASE WsAppend(p) \/ HttpAppend(p)
    BY <1>0, <1>2, <2>2, StoredStays DEF WsAppend, HttpAppend
  <2> QED
    BY <2>1, <2>2
<1> QED
  BY <1>1, <1>3, <1>4, SeenStays DEF SeenInv

LEMMA SeenInvStep ==
    ASSUME Inv, ReplayInv, SeamInv, SeenInv, [Next]_vars
    PROVE  SeenInv'
<1>1. ASSUME UNCHANGED <<seen, caught, phase, recv, stored>> PROVE SeenInv'
  BY <1>1, SeenStays DEF SeenInv
<1>0. StoreTypeOK
  BY TypeParts DEF Inv
<1>2. CASE Aging
  BY <1>0, <1>1, <1>2, AgingLeaves DEF feedVars, sessVars
<1>3. CASE UNCHANGED vars
  BY <1>1, <1>3 DEF vars, feedVars, storeVars, sessVars
<1> QED
  BY <1>2, <1>3, SeenSession, SeenSender, StepCases

LEMMA SeenInvAlways == Spec => []SeenInv
<1>1. Init => SeenInv
  <2>1. SUFFICES ASSUME Init, NEW s \in Session PROVE SeenOf(s)
    BY DEF SeenInv
  <2>2. /\ recv[s] = <<>> /\ seen[s] = <<>> /\ caught[s] = {}
    BY <2>1 DEF Init, Live!Init
  <2>3. <<>> \in Seq(Nat) /\ SeenAs(s, <<>>)
    BY <2>2 DEF SeenAs
  <2> QED
    BY <2>2, <2>3 DEF SeenOf
<1>2. Inv /\ ReplayInv /\ SeamInv /\ SeenInv /\ [Next]_vars => SeenInv'
  BY SeenInvStep
<1> QED
  BY <1>1, <1>2, InvAlways, ReplayInvAlways, SeamInvAlways, PTL DEF Spec

-----------------------------------------------------------------------------
(* First seen in order *)

\* A live message that is older than the replayed message k of its sender.
LEMMA PassedBy ==
    ASSUME Inv, ReplayInv, SeamInv, OrderInv, NEW s \in Session,
           NEW k \in caught[s], k \in 1 .. Len(stored),
           NEW y \in Envelope, y.sender = stored[k].sender, y.n < stored[k].n
    PROVE  \/ y \in refused
           \/ \E j \in 1 .. Len(stored) :
                 /\ stored[j] = y
                 /\ \/ j <= after[s] \/ j \notin found[s].kept \ found[s].expired
                    \/ j \in caught[s] /\ j < k
<1> DEFINE x == stored[k]
           p == y.sender
<1>0. /\ stored \in Seq(Envelope) /\ SessTypeOK /\ found[s].done
      /\ Len(stored) \in Nat /\ after[s] \in Nat
  BY TypeParts DEF Inv, StoreTypeOK, SessTypeOK, ReplayInv, ReplayOf
<1>1. /\ x \in Members(stored) /\ x \in Envelope /\ x.sender = p
      /\ x.n \in Nat /\ y.n \in Nat /\ p \in Sender /\ sent[p] \in Nat
  <2>1. x \in Members(stored) /\ x \in Envelope /\ x.sender = p
    BY <1>0 DEF Members
  <2> QED
    BY <2>1, EnvelopeFields, SeamTypes
<1>2. x.n <= sent[p]
  BY <1>1 DEF SeamInv, Begun
<1>3. y.n < sent[p]
  BY <1>1, <1>2
<1>4. half[p] # <<y>>
  <2>1. half[p] # <<>> => Head(half[p]).n = sent[p]
    BY <1>1 DEF OrderInv, Latest
  <2>2. half[p] = <<y>> => half[p] # <<>> /\ Head(half[p]) = y
    OBVIOUS
  <2> QED
    BY <1>1, <1>3, <2>1, <2>2
<1>5. y \in Members(stored) \cup refused
  <2>1. y.n <= sent[y.sender]
    BY <1>1, <1>3
  <2> QED
    BY <1>4, <2>1 DEF OrderInv, Placed
<1>6. CASE y \in Members(stored)
  <2>1. PICK j \in 1 .. Len(stored) : stored[j] = y
    BY <1>6 DEF Members
  <2>2. j < k
    <3>1. ~ k < j
      <4>1. k < j => x.n < y.n
        BY <1>1, <2>1 DEF OrderInv, Increasing
      <4> QED
        BY <1>1, <4>1
    <3>2. j # k
      BY <1>1, <2>1
    <3> QED
      BY <1>0, <3>1, <3>2
  <2>3. CASE j > after[s] /\ j \in found[s].kept \ found[s].expired
    <3>1. j \in Replayed(s)
      BY <1>0, <2>2, <2>3, RunOfOne DEF Inv, ReplayInv, Replayed
    <3>2. j \notin backlog[s]
      <4>1. \A i \in backlog[s] : k < i
        BY <1>0 DEF ReplayInv, ReplayOf
      <4> QED
        BY <1>0, <2>2, <4>1
    <3> QED
      BY <2>1, <2>2, <3>1, <3>2 DEF Replayed
  <2>4. CASE j <= after[s] \/ j \notin found[s].kept \ found[s].expired
    BY <2>1, <2>4
  <2> QED
    BY <1>0, <2>3, <2>4
<1> QED
  BY <1>5, <1>6

LEMMA OrderOfOne ==
    ASSUME Inv, ReplayInv, SeamInv, OrderInv, NEW s \in Session, SeenOf(s),
           NEW i \in 1 .. Len(seen[s]), NEW j \in 1 .. Len(seen[s]), i < j,
           seen[s][i].sender = seen[s][j].sender, seen[s][j].n < seen[s][i].n
    PROVE  \/ \E m \in 1 .. i : seen[s][m] = seen[s][j]
           \/ seen[s][j] \in refused
           \/ \E k \in 1 .. Len(stored) :
                 /\ stored[k] = seen[s][j]
                 /\ k <= after[s] \/ k \notin found[s].kept \ found[s].expired
<1> DEFINE x == seen[s][i]
           y == seen[s][j]
           m == Len(recv[s])
<1>0. /\ seen[s] \in Seq(Envelope) /\ recv[s] \in Seq(Envelope) /\ SessTypeOK /\ FeedInv
      /\ log[Topic] \in Seq(Envelope) /\ since[s] \in Nat /\ limit[s] \in Nat
  BY TypeParts DEF Inv, SessTypeOK, FeedTypeOK
<1>1. x \in Envelope /\ y \in Envelope
  BY <1>0
<1>2. x.n \in Nat /\ y.n \in Nat
  BY <1>1, EnvelopeFields
<1>3. PICK q \in Seq(Nat) : SeenAs(s, q)
  BY DEF SeenOf
<1> DEFINE n == Len(q)
<1>4. /\ n \in Nat /\ m \in Nat /\ Len(seen[s]) = n + m
      /\ \A a \in 1 .. n : q[a] \in caught[s] /\ q[a] \in 1 .. Len(stored) /\ q[a] \in Nat
      /\ \A a, b \in 1 .. n : a < b => q[a] < q[b]
      /\ \A k \in caught[s] : \E a \in 1 .. n : q[a] = k
      /\ \A a \in 1 .. n : seen[s][a] = stored[q[a]]
      /\ \A a \in 1 .. m : seen[s][n + a] = recv[s][a]
  <2>1. n \in Nat /\ m \in Nat /\ \A a \in 1 .. n : q[a] \in Nat
    BY <1>0
  <2>2. /\ Len(seen[s]) = n + m
        /\ \A a \in 1 .. n : q[a] \in caught[s] /\ q[a] \in 1 .. Len(stored)
    BY <1>3 DEF SeenAs
  <2>3. /\ \A a, b \in 1 .. n : a < b => q[a] < q[b]
        /\ \A k \in caught[s] : \E a \in 1 .. n : q[a] = k
    BY <1>3 DEF SeenAs
  <2>4. /\ \A a \in 1 .. n : seen[s][a] = stored[q[a]]
        /\ \A a \in 1 .. m : seen[s][n + a] = recv[s][a]
    BY <1>3 DEF SeenAs
  <2> HIDE DEF n, m
  <2> QED
    BY <2>1, <2>2, <2>3, <2>4
<1>5. \A a \in 1 .. m : /\ recv[s][a] = log[Topic][since[s] + a]
                        /\ since[s] + a \in 1 .. Len(log[Topic])
  <2> DEFINE L == Len(log[Topic])
  <2>1. /\ limit[s] <= L /\ since[s] + m <= limit[s] /\ L \in Nat
        /\ \A a \in 1 .. m : recv[s][a] = log[Topic][since[s] + a]
    BY <1>0 DEF FeedInv
  <2>2. since[s] \in Nat /\ limit[s] \in Nat /\ m \in Nat
    BY <1>0, <1>4
  <2> HIDE DEF m, L
  <2>3. ASSUME NEW a \in 1 .. m PROVE since[s] + a \in 1 .. L
    <3>1. \A b, l, k, d \in Nat :
             b + k <= l /\ l <= L /\ 1 <= d /\ d <= k => b + d \in 1 .. L
      BY <2>1
    <3>2. a \in Nat /\ 1 <= a /\ a <= m
      BY <2>2
    <3> QED
      BY <2>1, <2>2, <3>1, <3>2
  <2> QED
    BY <2>1, <2>3 DEF L
<1> HIDE DEF m, n, x, y
<1>6. \A a \in 1 .. Len(seen[s]) : a \in 1 .. n \/ \E b \in 1 .. m : a = n + b
  <2>1. ASSUME NEW a \in 1 .. Len(seen[s]), a \notin 1 .. n
        PROVE  \E b \in 1 .. m : a = n + b
    <3>1. a - n \in 1 .. m /\ a = n + (a - n)
      BY <1>4, <2>1
    <3> QED
      BY <3>1
  <2> QED
    BY <2>1
<1>7. ASSUME NEW a \in 1 .. m, i = n + a PROVE FALSE
  <2>1. PICK b \in 1 .. m : j = n + b
    <3>1. j \notin 1 .. n
      BY <1>4, <1>7
    <3> QED
      BY <1>6, <3>1
  <2>2. a < b
    BY <1>4, <1>7, <2>1
  <2>3. x = log[Topic][since[s] + a] /\ y = log[Topic][since[s] + b]
    BY <1>4, <1>5, <1>7, <2>1 DEF x, y
  <2>4. since[s] + a < since[s] + b
    BY <1>0, <1>4, <2>2
  <2>5. x.n < y.n
    BY <1>5, <2>3, <2>4 DEF OrderInv, Increasing, x, y
  <2> QED
    BY <1>2, <2>5 DEF x, y
<1>8. i \in 1 .. n
  BY <1>6, <1>7
<1>9. x = stored[q[i]] /\ q[i] \in caught[s] /\ q[i] \in 1 .. Len(stored)
  BY <1>4, <1>8 DEF x
<1>10. CASE j \in 1 .. n
  <2>1. q[i] < q[j] /\ y = stored[q[j]] /\ q[j] \in 1 .. Len(stored)
    BY <1>4, <1>8, <1>10 DEF y
  <2>2. x.n < y.n
    BY <1>9, <2>1 DEF OrderInv, Increasing, x, y
  <2> QED
    BY <1>2, <2>2 DEF x, y
<1>11. CASE j \notin 1 .. n
  <2>1. \/ y \in refused
        \/ \E k \in 1 .. Len(stored) :
              /\ stored[k] = y
              /\ \/ k <= after[s] \/ k \notin found[s].kept \ found[s].expired
                 \/ k \in caught[s] /\ k < q[i]
    <3>1. y.sender = stored[q[i]].sender /\ y.n < stored[q[i]].n
      BY <1>9 DEF x, y
    <3> QED
      BY <1>1, <1>9, <3>1, PassedBy
  <2>2. ASSUME NEW k \in 1 .. Len(stored), stored[k] = y, k \in caught[s], k < q[i]
        PROVE  \E c \in 1 .. i : seen[s][c] = y
    <3>1. PICK c \in 1 .. n : q[c] = k
      BY <1>4, <2>2
    <3>2. c \in 1 .. i
      <4>1. ~ i < c
        <5>1. i < c => q[i] < q[c]
          BY <1>4, <1>8
        <5>2. q[i] \in Nat /\ q[c] \in Nat
          BY <1>4, <1>8
        <5> QED
          BY <2>2, <3>1, <5>1, <5>2
      <4> QED
        BY <1>4, <1>8, <4>1
    <3>3. seen[s][c] = y
      BY <1>4, <2>2, <3>1
    <3> QED
      BY <3>2, <3>3
  <2> QED
    BY <2>1, <2>2 DEF y
<1> QED
  BY <1>10, <1>11

\* The replay of a session and the queue behind it show the messages of a sender
\* for the first time in the order they were sent, but for those its client had
\* already and those the store did not have when a later one was replayed.
THEOREM FirstSeenInOrderHolds == Spec => []FirstSeenInOrder
<1>1. Inv /\ ReplayInv /\ SeamInv /\ OrderInv /\ SeenInv => FirstSeenInOrder
  BY OrderOfOne DEF FirstSeenInOrder, SeenInv
<1> QED
  BY <1>1, InvAlways, ReplayInvAlways, SeamInvAlways, OrderInvAlways, SeenInvAlways, PTL
=============================================================================
