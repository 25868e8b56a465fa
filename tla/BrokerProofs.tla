---------------------------- MODULE BrokerProofs ----------------------------
(***************************************************************************)
(* Theorems about Broker, for any number of channels, senders and          *)
(* subscriptions and any queue depth.                                      *)
(*                                                                         *)
(* The argument.  TypeOK is not inductive: a write appends the envelope in *)
(* the writer's hand, so the loop's program counter must say that there is *)
(* one.  Shape adds that, and ties ids, the map and the handlers together. *)
(* On top of it Window is preserved piece by piece: publishing extends the *)
(* log and the queues by the same envelope, taking and writing move the    *)
(* boundary between the three pieces, and nothing else touches them.       *)
(***************************************************************************)
EXTENDS Broker, SequenceTheorems, TLAPS

\* Ids up to nextID are in use, the others are untouched.
IdsInUse ==
    \A s \in Id :
        /\ channel[s] \in Channel <=> s <= nextID
        /\ handler[s] = "idle" <=> nextID < s
        /\ nextID < s => /\ writer[s] = "idle"
                         /\ Len(out[s]) = 0
                         /\ Len(hand[s]) = 0
                         /\ Len(recv[s]) = 0

\* The map holds a subscription only under its own channel.
OwnChannel == \A c \in Channel : \A s \in subs[c] : channel[s] = c

\* A writer has an envelope in hand while it writes, and none while it selects.
HandOK ==
    \A s \in Id :
        /\ writer[s] = "write" => Len(hand[s]) = 1
        /\ writer[s] \in {"idle", "select"} => Len(hand[s]) = 0

Shape == IdsInUse /\ OwnChannel /\ HandOK

\* The head of a sequence that is not empty is one of its elements.
LEMMA HeadOfSeq ==
    ASSUME NEW S, NEW q \in Seq(S), Len(q) > 0
    PROVE  Head(q) = q[1] /\ Head(q) \in S
<1>1. 1 \in 1..Len(q)
  OBVIOUS
<1>2. q[1] \in S
  BY <1>1, ElementOfSeq
<1> QED
  BY <1>2

\* Every variable keeps its type; a write needs HandOK for that.
LEMMA TypeStep ==
    ASSUME TypeOK, HandOK, [Next]_vars PROVE TypeOK'
<1> USE BrokerAssumption DEF TypeOK, brokerVars, senderVars, sessionVars,
                             historyVars
<1>1. ASSUME NEW c \in Channel, NEW k \in {"ws", "sse"}, Subscribe(c, k)
      PROVE TypeOK'
  <2>1. /\ FreshID \in Id
        /\ nextID' \in 0..MaxSubs
    BY <1>1 DEF Subscribe, FreshID, Id
  <2>2. Len(log[c]) \in Nat /\ log[c] \in Seq(Envelope)
    OBVIOUS
  <2>3. subs' \in [Channel -> SUBSET Id]
    BY <1>1, <2>1 DEF Subscribe
  <2>4. out' \in [Id -> Seq(Envelope)]
    BY <1>1, <2>1 DEF Subscribe
  <2>5. since' \in [Id -> Nat]
    BY <1>1, <2>1, <2>2 DEF Subscribe
  <2>6. closed' \in [Id -> BOOLEAN]
    BY <1>1, <2>1 DEF Subscribe
  <2> QED
    BY <1>1, <2>1, <2>3, <2>4, <2>5, <2>6 DEF Subscribe
<1>2. ASSUME NEW p \in Sender, NEW c \in Channel, Publish(p, c)
      PROVE TypeOK'
  <2> DEFINE e == [sender |-> p, n |-> sent[p] + 1]
  <2>1. e \in Envelope
    BY <1>2 DEF Publish, Envelope
  <2>2. Full(c) \subseteq Id
    BY DEF Full
  <2>3. log' \in [Channel -> Seq(Envelope)]
    BY <1>2, <2>1 DEF Publish
  <2>4. out' \in [Id -> Seq(Envelope)]
    BY <1>2, <2>1 DEF Publish
  <2>5. sent' \in [Sender -> 0..MaxSent]
    BY <1>2 DEF Publish
  <2> HIDE DEF e
  <2> QED
    BY <1>2, <2>2, <2>3, <2>4, <2>5 DEF Publish
<1>3. ASSUME NEW p \in Sender, NEW s \in Id, CloseDropped(p, s)
      PROVE TypeOK'
  BY <1>3 DEF CloseDropped
<1>4. ASSUME NEW s \in Id, Unsubscribe(s)
      PROVE TypeOK'
  BY <1>4 DEF Unsubscribe
<1>5. ASSUME NEW s \in Id, UnsubscribeClose(s)
      PROVE TypeOK'
  BY <1>5 DEF UnsubscribeClose
<1>6. ASSUME NEW s \in Id, WriterTake(s)
      PROVE TypeOK'
  <2>1. out[s] \in Seq(Envelope) /\ out[s] # <<>>
    BY <1>6 DEF WriterTake
  <2>2. Head(out[s]) \in Envelope /\ Tail(out[s]) \in Seq(Envelope)
    BY <2>1
  <2>3. <<Head(out[s])>> \in Seq(Envelope)
    BY <2>2
  <2>4. hand' \in [Id -> Seq(Envelope)]
    BY <1>6, <2>3 DEF WriterTake
  <2>5. out' \in [Id -> Seq(Envelope)]
    BY <1>6, <2>2 DEF WriterTake
  <2> QED
    BY <1>6, <2>4, <2>5 DEF WriterTake
<1>7. ASSUME NEW s \in Id, WriterWrote(s)
      PROVE TypeOK'
  <2>1. hand[s] \in Seq(Envelope) /\ Len(hand[s]) > 0
    BY <1>7 DEF WriterWrote, HandOK
  <2>2. Head(hand[s]) \in Envelope
    <3> HIDE DEF TypeOK
    <3> QED
      BY <2>1, HeadOfSeq
  <2>3. recv' \in [Id -> Seq(Envelope)]
    BY <1>7, <2>2 DEF WriterWrote
  <2> QED
    BY <1>7, <2>3 DEF WriterWrote
<1>8. ASSUME NEW s \in Id, WriterFailed(s)
      PROVE TypeOK'
  BY <1>8 DEF WriterFailed
<1>9. ASSUME NEW s \in Id, WriterStops(s)
      PROVE TypeOK'
  BY <1>9 DEF WriterStops
<1>10. ASSUME NEW s \in Id, ClientGone(s)
       PROVE TypeOK'
  BY <1>10 DEF ClientGone
<1>11. CASE UNCHANGED vars
  BY <1>11 DEF vars
<1> HIDE DEF TypeOK
<1> QED
  BY <1>1, <1>2, <1>3, <1>4, <1>5, <1>6, <1>7, <1>8, <1>9, <1>10, <1>11
     DEF Next

\* Shape is preserved.
LEMMA ShapeStep ==
    ASSUME TypeOK, Shape, [Next]_vars PROVE Shape'
<1> USE BrokerAssumption DEF brokerVars, senderVars, sessionVars, historyVars
<1>1. ASSUME NEW c \in Channel, NEW k \in {"ws", "sse"}, Subscribe(c, k)
      PROVE Shape'
  <2>1. FreshID \in Id /\ nextID \in Nat /\ FreshID = nextID + 1
    BY <1>1 DEF Subscribe, FreshID, TypeOK
  <2>2. \A s \in Id : s <= nextID' <=> (s <= nextID \/ s = FreshID)
    BY <1>1, <2>1 DEF Subscribe, Id
  <2>3. \A s \in Id : nextID' < s <=> (nextID < s /\ s # FreshID)
    BY <1>1, <2>1 DEF Subscribe, Id
  <2>4. IdsInUse'
    BY <1>1, <2>1, <2>2, <2>3 DEF Subscribe, TypeOK, Shape, IdsInUse
  <2>5. channel[FreshID] \notin Channel /\ Len(hand[FreshID]) = 0
    <3>1. nextID < FreshID /\ ~(FreshID <= nextID)
      BY <2>1
    <3> QED
      BY <2>1, <3>1 DEF Shape, IdsInUse
  <2>6. OwnChannel'
    BY <1>1, <2>1, <2>5 DEF Subscribe, TypeOK, Shape, OwnChannel
  <2>7. HandOK'
    BY <1>1, <2>1, <2>5 DEF Subscribe, TypeOK, Shape, HandOK
  <2> QED
    BY <2>4, <2>6, <2>7 DEF Shape
<1>2. ASSUME NEW p \in Sender, NEW c \in Channel, Publish(p, c)
      PROVE Shape'
  <2>1. \A s \in Id : s \notin subs[c] => out'[s] = out[s]
    BY <1>2 DEF Publish
  <2>2. \A s \in subs[c] : s \in Id /\ s <= nextID
    BY DEF TypeOK, Shape, OwnChannel, IdsInUse
  <2>3. \A d \in Channel : subs'[d] \subseteq subs[d]
    BY <1>2 DEF Publish, TypeOK
  <2>4. IdsInUse'
    BY <1>2, <2>1, <2>2 DEF Publish, Shape, IdsInUse, TypeOK, Id
  <2>5. OwnChannel'
    BY <1>2, <2>3 DEF Publish, Shape, OwnChannel
  <2>6. HandOK'
    BY <1>2 DEF Publish, Shape, HandOK
  <2> QED
    BY <2>4, <2>5, <2>6 DEF Shape
<1>3. ASSUME NEW p \in Sender, NEW s \in Id, CloseDropped(p, s)
      PROVE Shape'
  BY <1>3 DEF CloseDropped, Shape, IdsInUse, OwnChannel, HandOK
<1>4. ASSUME NEW s \in Id, Unsubscribe(s)
      PROVE Shape'
  <2>1. IdsInUse'
    BY <1>4 DEF Unsubscribe, MayReturn, TypeOK, Shape, IdsInUse
  <2>2. OwnChannel'
    BY <1>4 DEF Unsubscribe, TypeOK, Shape, OwnChannel
  <2>3. HandOK'
    BY <1>4 DEF Unsubscribe, Shape, HandOK
  <2> QED
    BY <2>1, <2>2, <2>3 DEF Shape
<1>5. ASSUME NEW s \in Id, UnsubscribeClose(s)
      PROVE Shape'
  <2>1. IdsInUse'
    BY <1>5 DEF UnsubscribeClose, TypeOK, Shape, IdsInUse
  <2> QED
    BY <1>5, <2>1 DEF UnsubscribeClose, Shape, OwnChannel, HandOK
<1>6. ASSUME NEW s \in Id, WriterTake(s)
      PROVE Shape'
  <2>1. ~ (nextID < s)
    BY <1>6 DEF WriterTake, Shape, IdsInUse
  <2>2. IdsInUse'
    BY <1>6, <2>1 DEF WriterTake, TypeOK, Shape, IdsInUse
  <2>3. HandOK'
    BY <1>6 DEF WriterTake, TypeOK, Shape, HandOK
  <2> QED
    BY <1>6, <2>2, <2>3 DEF WriterTake, Shape, OwnChannel
<1>7. ASSUME NEW s \in Id, WriterWrote(s)
      PROVE Shape'
  <2>1. ~ (nextID < s)
    BY <1>7 DEF WriterWrote, Shape, IdsInUse
  <2>2. IdsInUse'
    BY <1>7, <2>1 DEF WriterWrote, TypeOK, Shape, IdsInUse
  <2>3. HandOK'
    BY <1>7 DEF WriterWrote, TypeOK, Shape, HandOK
  <2> QED
    BY <1>7, <2>2, <2>3 DEF WriterWrote, Shape, OwnChannel
<1>8. ASSUME NEW s \in Id, WriterFailed(s) \/ WriterStops(s)
      PROVE Shape'
  <2>1. ~ (nextID < s)
    BY <1>8 DEF WriterFailed, WriterStops, Shape, IdsInUse
  <2>2. IdsInUse'
    BY <1>8, <2>1 DEF WriterFailed, WriterStops, TypeOK, Shape, IdsInUse
  <2>3. HandOK'
    BY <1>8 DEF WriterFailed, WriterStops, TypeOK, Shape, HandOK
  <2> QED
    BY <1>8, <2>2, <2>3 DEF WriterFailed, WriterStops, Shape, OwnChannel
<1>9. ASSUME NEW s \in Id, ClientGone(s)
      PROVE Shape'
  BY <1>9 DEF ClientGone, Shape, IdsInUse, OwnChannel, HandOK
<1>10. CASE UNCHANGED vars
  BY <1>10 DEF vars, Shape, IdsInUse, OwnChannel, HandOK
<1> QED
  BY <1>1, <1>2, <1>3, <1>4, <1>5, <1>6, <1>7, <1>8, <1>9, <1>10 DEF Next

\* The broker and its pumps keep every variable in its type.
THEOREM TypeCorrect == Spec => []TypeOK
<1>1. Init => TypeOK
  BY BrokerAssumption DEF Init, TypeOK, Id
<1>2. Init => Shape
  BY BrokerAssumption DEF Init, Shape, IdsInUse, OwnChannel, HandOK, Id
<1>3. TypeOK /\ Shape /\ [Next]_vars => (TypeOK /\ Shape)'
  BY TypeStep, ShapeStep DEF Shape
<1> QED
  BY <1>1, <1>2, <1>3, PTL DEF Spec

-----------------------------------------------------------------------------
\* A step that leaves a subscription's pieces and its channel's log alone leaves
\* its window alone.
LEMMA WindowFrame ==
    ASSUME NEW s \in Id, Window(s),
           channel'[s] = channel[s], since'[s] = since[s],
           recv'[s] = recv[s], hand'[s] = hand[s], out'[s] = out[s],
           log'[channel[s]] = log[channel[s]]
    PROVE  Window(s)' /\ Held(s)' = Held(s)
BY DEF Window, Held

\* Taking the oldest queued envelope moves it from the queue to the hand.
LEMMA WindowTake ==
    ASSUME TypeOK, HandOK, NEW s \in Id, channel[s] \in Channel, Window(s),
           WriterTake(s)
    PROVE  Window(s)' /\ Held(s)' = Held(s)
<1>1. /\ out[s] \in Seq(Envelope) /\ Len(out[s]) > 0
      /\ recv[s] \in Seq(Envelope)
      /\ since[s] \in Nat
      /\ hand[s] \in Seq(Envelope) /\ Len(hand[s]) = 0
  BY DEF TypeOK, HandOK, WriterTake
<1>0. /\ since[s] \in Nat /\ Len(recv[s]) \in Nat /\ Len(hand[s]) = 0
      /\ Len(out[s]) \in Nat /\ Len(out[s]) > 0
  BY <1>1
<1>2. hand'[s] = <<Head(out[s])>> /\ out'[s] = Tail(out[s])
  BY DEF WriterTake, TypeOK
<1>3. channel'[s] = channel[s] /\ since'[s] = since[s] /\ recv'[s] = recv[s]
      /\ log' = log
  BY DEF WriterTake, historyVars
<1>4. Head(out[s]) = out[s][1]
  BY <1>1, HeadOfSeq
<1>5. /\ Len(hand'[s]) = 1
      /\ hand'[s][1] = out[s][1]
      /\ Len(out'[s]) = Len(out[s]) - 1
      /\ \A i \in 1..Len(out'[s]) : out'[s][i] = out[s][i + 1]
  BY <1>1, <1>2, <1>4
<1> DEFINE stream == log[channel[s]]
<1>6. Held(s)' = Held(s)
  <2>1. Len(out'[s]) \in Nat /\ Len(out[s]) = Len(out'[s]) + 1
    BY <1>0, <1>5
  <2>2. Held(s)' = Len(recv[s]) + 1 + Len(out'[s])
    BY <1>3, <1>5 DEF Held
  <2>3. Held(s) = Len(recv[s]) + 0 + (Len(out'[s]) + 1)
    BY <1>0, <2>1 DEF Held
  <2>4. \A a, b \in Nat : a + 1 + b = a + 0 + (b + 1)
    OBVIOUS
  <2>5. Len(recv[s]) + 1 + Len(out'[s]) = Len(recv[s]) + 0 + (Len(out'[s]) + 1)
    BY <1>0, <2>1, <2>4
  <2> QED
    BY <2>2, <2>3, <2>5
<1>7. hand'[s][1] = stream[since[s] + Len(recv[s]) + 1]
  <2>1. 1 \in 1..Len(out[s])
    BY <1>1
  <2>2. out[s][1] = stream[since[s] + Len(recv[s]) + Len(hand[s]) + 1]
    BY <2>1 DEF Window
  <2>3. since[s] + Len(recv[s]) + Len(hand[s]) + 1 = since[s] + Len(recv[s]) + 1
    BY <1>1
  <2> QED
    BY <1>5, <2>2, <2>3
<1>8. \A i \in 1..Len(out'[s]) :
         out'[s][i] = stream[since[s] + Len(recv[s]) + 1 + i]
  <2> SUFFICES ASSUME NEW i \in 1..Len(out'[s])
               PROVE  out'[s][i] = stream[since[s] + Len(recv[s]) + 1 + i]
    OBVIOUS
  <2>1. i \in Nat /\ i + 1 \in 1..Len(out[s])
    BY <1>1, <1>5
  <2>2. out[s][i + 1] = stream[since[s] + Len(recv[s]) + Len(hand[s]) + (i + 1)]
    BY <2>1 DEF Window
  <2>3. since[s] + Len(recv[s]) + Len(hand[s]) + (i + 1)
           = since[s] + Len(recv[s]) + 1 + i
    <3>1. \A a, b, j \in Nat : a + b + 0 + (j + 1) = a + b + 1 + j
      OBVIOUS
    <3> QED
      BY <1>0, <2>1, <3>1
  <2> QED
    BY <1>5, <2>2, <2>3
<1> QED
  BY <1>1, <1>3, <1>5, <1>6, <1>7, <1>8 DEF Window

\* A completed write moves the envelope in hand to what the client received.
LEMMA WindowWrote ==
    ASSUME TypeOK, HandOK, NEW s \in Id, channel[s] \in Channel, Window(s),
           WriterWrote(s)
    PROVE  Window(s)' /\ Held(s)' = Held(s)
<1>1. /\ out[s] \in Seq(Envelope)
      /\ recv[s] \in Seq(Envelope)
      /\ since[s] \in Nat
      /\ hand[s] \in Seq(Envelope) /\ Len(hand[s]) = 1
      /\ Len(out[s]) \in Nat /\ Len(recv[s]) \in Nat
  BY DEF TypeOK, HandOK, WriterWrote
<1>2. recv'[s] = Append(recv[s], Head(hand[s])) /\ hand'[s] = <<>>
  BY DEF WriterWrote, TypeOK
<1>3. channel'[s] = channel[s] /\ since'[s] = since[s] /\ out'[s] = out[s]
      /\ log' = log
  BY DEF WriterWrote, brokerVars
<1>4. Head(hand[s]) = hand[s][1] /\ Head(hand[s]) \in Envelope
  BY <1>1, HeadOfSeq
<1>5. /\ Len(hand'[s]) = 0
      /\ Len(recv'[s]) = Len(recv[s]) + 1
      /\ \A i \in 1..Len(recv[s]) : recv'[s][i] = recv[s][i]
      /\ recv'[s][Len(recv[s]) + 1] = hand[s][1]
  BY <1>1, <1>2, <1>4
<1> DEFINE stream == log[channel[s]]
<1>6. Held(s)' = Held(s)
  BY <1>1, <1>3, <1>5 DEF Held
<1>7. hand[s][1] = stream[since[s] + (Len(recv[s]) + 1)]
  <2>1. 1 \in 1..Len(hand[s])
    BY <1>1
  <2>2. hand[s][1] = stream[since[s] + Len(recv[s]) + 1]
    BY <2>1 DEF Window
  <2>3. since[s] + Len(recv[s]) + 1 = since[s] + (Len(recv[s]) + 1)
    BY <1>1
  <2> QED
    BY <2>2, <2>3
<1>8. \A i \in 1..Len(recv'[s]) : recv'[s][i] = stream[since[s] + i]
  <2>1. \A i \in 1..Len(recv[s]) : recv[s][i] = stream[since[s] + i]
    BY DEF Window
  <2>2. \A i \in 1..Len(recv'[s]) : i \in 1..Len(recv[s]) \/ i = Len(recv[s]) + 1
    BY <1>1, <1>5
  <2> QED
    BY <1>5, <1>7, <2>1, <2>2
<1>9. \A i \in 1..Len(out[s]) :
         out[s][i] = stream[since[s] + (Len(recv[s]) + 1) + 0 + i]
  <2>1. \A i \in 1..Len(out[s]) :
          since[s] + Len(recv[s]) + Len(hand[s]) + i
            = since[s] + (Len(recv[s]) + 1) + 0 + i
    BY <1>1
  <2>2. \A i \in 1..Len(out[s]) :
          out[s][i] = stream[since[s] + Len(recv[s]) + Len(hand[s]) + i]
    BY DEF Window
  <2> QED
    BY <2>1, <2>2
<1> QED
  BY <1>1, <1>3, <1>5, <1>6, <1>8, <1>9 DEF Window

\* Arithmetic of consecutive pieces of lengths r, h and o after position a.
LEMMA Positions ==
    ASSUME NEW a \in Nat, NEW r \in Nat, NEW h \in Nat, NEW o \in Nat,
           NEW l \in Nat, a + (r + h + o) <= l
    PROVE  /\ \A i \in 1..r : a + i \in 1..l
           /\ \A i \in 1..h : a + r + i \in 1..l
           /\ \A i \in 1..o : a + r + h + i \in 1..l
           /\ a + (r + h + o) <= l + 1
           /\ a + (r + h + o) = l =>
                 /\ a + (r + h + (o + 1)) = l + 1
                 /\ a + r + h + (o + 1) = l + 1
OBVIOUS

\* A subscription that is in the map is up to date with its channel's log.
UpToDate(s) == Attached(s) => since[s] + Held(s) = Len(log[channel[s]])

\* A publish extends the log by one envelope, and the queue of every subscriber
\* that has room by the same envelope; the others fall out of the map.
LEMMA WindowPublish ==
    ASSUME TypeOK, OwnChannel, NEW p \in Sender, NEW c \in Channel, Publish(p, c),
           NEW s \in Id, channel[s] \in Channel, Window(s), UpToDate(s)
    PROVE  Window(s)' /\ UpToDate(s)'
<1> DEFINE e == [sender |-> p, n |-> sent[p] + 1]
<1>0. /\ channel' = channel /\ since' = since /\ recv' = recv /\ hand' = hand
      /\ log' = [log EXCEPT ![c] = Append(@, e)]
      /\ subs' = [subs EXCEPT ![c] = @ \ Full(c)]
      /\ out'[s] = IF s \in subs[c] \ Full(c) THEN Append(out[s], e) ELSE out[s]
  BY DEF Publish, sessionVars
<1>1. /\ out[s] \in Seq(Envelope) /\ recv[s] \in Seq(Envelope)
      /\ hand[s] \in Seq(Envelope) /\ since[s] \in Nat
      /\ \A d \in Channel : log[d] \in Seq(Envelope)
  BY DEF TypeOK
<1>2. /\ Len(out[s]) \in Nat /\ Len(recv[s]) \in Nat /\ Len(hand[s]) \in Nat
      /\ \A d \in Channel : Len(log[d]) \in Nat
  BY <1>1
<1>5. e \in Envelope
  BY BrokerAssumption DEF Envelope, Publish, TypeOK
<1>3. CASE channel[s] # c
  <2>1. s \notin subs[c] /\ out'[s] = out[s]
    BY <1>0, <1>3 DEF OwnChannel
  <2>2. log'[channel[s]] = log[channel[s]]
    BY <1>0, <1>3 DEF TypeOK
  <2>3. subs'[channel[s]] = subs[channel[s]]
    BY <1>0, <1>3 DEF TypeOK
  <2>4. Window(s)' /\ Held(s)' = Held(s)
    BY <1>0, <2>1, <2>2, WindowFrame
  <2> QED
    BY <1>0, <2>2, <2>3, <2>4 DEF UpToDate, Attached
<1>4. CASE channel[s] = c
  <2> DEFINE stream == log[c]
             stream2 == log'[c]
  <2>1. /\ stream2 = Append(stream, e)
        /\ Len(stream2) = Len(stream) + 1
        /\ \A i \in 1..Len(stream) : stream2[i] = stream[i]
        /\ stream2[Len(stream) + 1] = e
    BY <1>0, <1>1, <1>5 DEF TypeOK
  <2> DEFINE rhs == Len(recv[s]) + Len(hand[s]) + Len(out[s])
  <2>2. Len(stream) \in Nat /\ since[s] + rhs <= Len(stream)
    BY <1>2, <1>4 DEF Held, Window
  <2>0. /\ \A i \in 1..Len(recv[s]) : since[s] + i \in 1..Len(stream)
        /\ \A i \in 1..Len(hand[s]) : since[s] + Len(recv[s]) + i \in 1..Len(stream)
        /\ \A i \in 1..Len(out[s]) :
              since[s] + Len(recv[s]) + Len(hand[s]) + i \in 1..Len(stream)
        /\ since[s] + rhs <= Len(stream) + 1
        /\ since[s] + rhs = Len(stream) =>
              /\ since[s] + (Len(recv[s]) + Len(hand[s]) + (Len(out[s]) + 1))
                    = Len(stream) + 1
              /\ since[s] + Len(recv[s]) + Len(hand[s]) + (Len(out[s]) + 1)
                    = Len(stream) + 1
    <3>1. PICK a \in Nat, r \in Nat, h \in Nat, o \in Nat, l \in Nat :
             /\ a = since[s] /\ r = Len(recv[s]) /\ h = Len(hand[s])
             /\ o = Len(out[s]) /\ l = Len(stream)
      BY <1>1, <1>2, <2>2
    <3>2. a + (r + h + o) <= l
      BY <2>2, <3>1
    <3>3. /\ \A i \in 1..r : a + i \in 1..l
          /\ \A i \in 1..h : a + r + i \in 1..l
          /\ \A i \in 1..o : a + r + h + i \in 1..l
          /\ a + (r + h + o) <= l + 1
          /\ a + (r + h + o) = l =>
                /\ a + (r + h + (o + 1)) = l + 1
                /\ a + r + h + (o + 1) = l + 1
      BY <3>2, Positions
    <3> QED
      BY <3>1, <3>3
  <2>3. \A i \in 1..Len(recv[s]) : recv[s][i] = stream2[since[s] + i]
    BY <1>4, <2>0, <2>1 DEF Window
  <2>4. \A i \in 1..Len(hand[s]) : hand[s][i] = stream2[since[s] + Len(recv[s]) + i]
    BY <1>4, <2>0, <2>1 DEF Window
  <2>5. \A i \in 1..Len(out[s]) :
           out[s][i] = stream2[since[s] + Len(recv[s]) + Len(hand[s]) + i]
    BY <1>4, <2>0, <2>1 DEF Window
  <2>6. CASE s \in subs[c] \ Full(c)
    <3>1. since[s] + rhs = Len(stream)
      BY <1>4, <2>6 DEF UpToDate, Attached, Held
    <3>2. /\ Len(out'[s]) = Len(out[s]) + 1
          /\ \A i \in 1..Len(out[s]) : out'[s][i] = out[s][i]
          /\ out'[s][Len(out[s]) + 1] = e
      BY <1>0, <1>1, <1>5, <2>6
    <3>3. Held(s)' = Len(recv[s]) + Len(hand[s]) + (Len(out[s]) + 1)
      BY <1>0, <3>2 DEF Held
    <3>4. since[s] + (Len(recv[s]) + Len(hand[s]) + (Len(out[s]) + 1))
             = Len(stream) + 1
      BY <2>0, <3>1
    <3>5. since[s] + Len(recv[s]) + Len(hand[s]) + (Len(out[s]) + 1)
             = Len(stream) + 1
      BY <2>0, <3>1
    <3>6. \A i \in 1..Len(out'[s]) : i \in 1..Len(out[s]) \/ i = Len(out[s]) + 1
      BY <1>2, <3>2
    <3>7. \A i \in 1..Len(out'[s]) :
             out'[s][i] = stream2[since[s] + Len(recv[s]) + Len(hand[s]) + i]
      BY <2>1, <2>5, <3>2, <3>5, <3>6
    <3>8. since[s] + Held(s)' = Len(stream2)
      BY <2>1, <3>3, <3>4
    <3>9. Window(s)'
      <4>1. Len(stream2) <= Len(stream2)
        BY <2>1, <2>2
      <4> QED
        BY <1>0, <1>4, <2>3, <2>4, <3>7, <3>8, <4>1 DEF Window
    <3> QED
      BY <1>0, <1>4, <3>8, <3>9 DEF UpToDate
  <2>7. CASE s \notin subs[c] \ Full(c)
    <3>1. out'[s] = out[s] /\ Held(s)' = Held(s)
      BY <1>0, <2>7 DEF Held
    <3>2. Window(s)'
      <4>1. since[s] + Held(s)' <= Len(stream2)
        BY <2>0, <2>1, <3>1 DEF Held
      <4> QED
        BY <1>0, <1>4, <2>3, <2>4, <2>5, <3>1, <4>1 DEF Window
    <3>3. ~ Attached(s)'
      BY <1>0, <1>4, <2>7 DEF Attached, TypeOK
    <3> QED
      BY <3>2, <3>3 DEF UpToDate
  <2> QED
    BY <2>6, <2>7
<1> QED
  BY <1>3, <1>4

-----------------------------------------------------------------------------
\* A new subscription starts with an empty window at the end of its channel.
LEMMA WindowSubscribe ==
    ASSUME TypeOK, IdsInUse, NEW c \in Channel, NEW k \in {"ws", "sse"},
           Subscribe(c, k), NEW s \in Id, s = FreshID
    PROVE  Window(s)' /\ UpToDate(s)'
<1>1. nextID < s
  BY DEF FreshID, TypeOK
<1>2. /\ Len(recv[s]) = 0 /\ Len(hand[s]) = 0
      /\ recv' = recv /\ hand' = hand /\ log' = log
  BY <1>1 DEF IdsInUse, Subscribe
<1>3. /\ channel'[s] = c /\ Len(out'[s]) = 0
      /\ since'[s] = Len(log[c])
  BY DEF Subscribe, TypeOK
<1>4. Held(s)' = 0
  <2>1. Held(s)' = 0 + 0 + 0
    BY <1>2, <1>3 DEF Held
  <2> QED
    BY <2>1
<1>5. Len(log[c]) \in Nat
  BY DEF TypeOK
<1>6. since'[s] + Held(s)' = Len(log'[c])
  BY <1>2, <1>3, <1>4, <1>5
<1>7. Len(log'[c]) <= Len(log'[c])
  BY <1>2, <1>5
<1> QED
  BY <1>2, <1>3, <1>6, <1>7 DEF Window, UpToDate

\* Every step keeps every window, and keeps attached subscriptions up to date.
LEMMA WindowStep ==
    ASSUME TypeOK, Shape, GapFreeRun, AttachedMissesNothing, [Next]_vars
    PROVE  (GapFreeRun /\ AttachedMissesNothing)'
<1> SUFFICES ASSUME NEW t \in Id, channel'[t] \in Channel
             PROVE  Window(t)' /\ UpToDate(t)'
  BY BrokerAssumption DEF GapFreeRun, AttachedMissesNothing, UpToDate, Attached
<1>1. channel[t] \in Channel => Window(t) /\ UpToDate(t)
  BY DEF GapFreeRun, AttachedMissesNothing, UpToDate
<1>2. ASSUME channel[t] \in Channel,
             channel'[t] = channel[t], since'[t] = since[t],
             recv'[t] = recv[t], hand'[t] = hand[t], out'[t] = out[t],
             log' = log, t \in subs'[channel[t]] => t \in subs[channel[t]]
      PROVE  Window(t)' /\ UpToDate(t)'
  <2>1. Window(t)' /\ Held(t)' = Held(t)
    BY <1>1, <1>2, WindowFrame
  <2> QED
    BY <1>1, <1>2, <2>1 DEF UpToDate, Attached
<1> USE DEF brokerVars, senderVars, sessionVars, historyVars
<1>3. ASSUME NEW c \in Channel, NEW k \in {"ws", "sse"}, Subscribe(c, k)
      PROVE  Window(t)' /\ UpToDate(t)'
  <2>1. CASE t = FreshID
    BY <1>3, <2>1, WindowSubscribe DEF Shape
  <2>2. CASE t # FreshID
    <3>1. FreshID \in Id
      BY <1>3 DEF Subscribe
    <3> QED
      BY <1>2, <1>3, <2>2, <3>1 DEF Subscribe, TypeOK
  <2> QED
    BY <2>1, <2>2
<1>4. ASSUME NEW p \in Sender, NEW c \in Channel, Publish(p, c)
      PROVE  Window(t)' /\ UpToDate(t)'
  <2>1. channel' = channel
    BY <1>4 DEF Publish
  <2> QED
    BY <1>1, <1>4, <2>1, WindowPublish DEF Shape
<1>5. ASSUME NEW p \in Sender, NEW s \in Id, CloseDropped(p, s)
      PROVE  Window(t)' /\ UpToDate(t)'
  BY <1>2, <1>5 DEF CloseDropped
<1>6. ASSUME NEW s \in Id, Unsubscribe(s)
      PROVE  Window(t)' /\ UpToDate(t)'
  BY <1>2, <1>6 DEF Unsubscribe, TypeOK
<1>7. ASSUME NEW s \in Id, UnsubscribeClose(s)
      PROVE  Window(t)' /\ UpToDate(t)'
  BY <1>2, <1>7 DEF UnsubscribeClose
<1>8. ASSUME NEW s \in Id, WriterTake(s)
      PROVE  Window(t)' /\ UpToDate(t)'
  <2>1. CASE t = s
    <3>1. /\ channel' = channel /\ since' = since /\ log' = log /\ subs' = subs
      BY <1>8 DEF WriterTake
    <3>2. Window(t)' /\ Held(t)' = Held(t)
      BY <1>1, <1>8, <2>1, <3>1, WindowTake DEF Shape
    <3> QED
      BY <1>1, <3>1, <3>2 DEF UpToDate, Attached
  <2>2. CASE t # s
    BY <1>2, <1>8, <2>2 DEF WriterTake, TypeOK
  <2> QED
    BY <2>1, <2>2
<1>9. ASSUME NEW s \in Id, WriterWrote(s)
      PROVE  Window(t)' /\ UpToDate(t)'
  <2>1. CASE t = s
    <3>1. /\ channel' = channel /\ since' = since /\ log' = log /\ subs' = subs
      BY <1>9 DEF WriterWrote
    <3>2. Window(t)' /\ Held(t)' = Held(t)
      BY <1>1, <1>9, <2>1, <3>1, WindowWrote DEF Shape
    <3> QED
      BY <1>1, <3>1, <3>2 DEF UpToDate, Attached
  <2>2. CASE t # s
    BY <1>2, <1>9, <2>2 DEF WriterWrote, TypeOK
  <2> QED
    BY <2>1, <2>2
<1>10. ASSUME NEW s \in Id, WriterFailed(s) \/ WriterStops(s) \/ ClientGone(s)
       PROVE  Window(t)' /\ UpToDate(t)'
  BY <1>2, <1>10 DEF WriterFailed, WriterStops, ClientGone
<1>11. CASE UNCHANGED vars
  BY <1>2, <1>11 DEF vars
<1> QED
  BY <1>3, <1>4, <1>5, <1>6, <1>7, <1>8, <1>9, <1>10, <1>11 DEF Next

\* Initially nothing is subscribed.
LEMMA InitWindows == Init => GapFreeRun /\ AttachedMissesNothing
BY BrokerAssumption DEF Init, GapFreeRun, AttachedMissesNothing, Attached

\* The strengthened invariant the safety theorems follow from.
LEMMA Safety ==
    Spec => [](TypeOK /\ Shape /\ GapFreeRun /\ AttachedMissesNothing)
<1>1. Init => TypeOK /\ Shape
  BY BrokerAssumption DEF Init, TypeOK, Shape, IdsInUse, OwnChannel, HandOK, Id
<1>2. Init => GapFreeRun /\ AttachedMissesNothing
  BY InitWindows
<1>3. TypeOK /\ Shape /\ GapFreeRun /\ AttachedMissesNothing /\ [Next]_vars
        => (TypeOK /\ Shape /\ GapFreeRun /\ AttachedMissesNothing)'
  <2>1. TypeOK /\ Shape /\ [Next]_vars => TypeOK'
    BY TypeStep DEF Shape
  <2>2. TypeOK /\ Shape /\ [Next]_vars => Shape'
    BY ShapeStep
  <2>3. TypeOK /\ Shape /\ GapFreeRun /\ AttachedMissesNothing /\ [Next]_vars
          => (GapFreeRun /\ AttachedMissesNothing)'
    BY WindowStep
  <2> QED
    BY <2>1, <2>2, <2>3
<1> QED
  BY <1>1, <1>2, <1>3, PTL DEF Spec

\* What a client was sent, what its writer holds and what is queued for it are
\* consecutive, gap-free pieces of the channel's publish order, for every queue
\* depth and every interleaving of Publish, the drop of a slow subscriber, the
\* pumps and Unsubscribe.
THEOREM GapFreeRunHolds == Spec => []GapFreeRun
BY Safety, PTL

\* Being slow never costs an attached subscriber an envelope.
THEOREM AttachedMissesNothingHolds == Spec => []AttachedMissesNothing
BY Safety, PTL

-----------------------------------------------------------------------------
\* A sender's envelopes are logged in the order it published them, and none is
\* numbered beyond its count.
LogOrder ==
    \A c \in Channel : \A j \in 1..Len(log[c]) :
        /\ log[c][j].n <= sent[log[c][j].sender]
        /\ \A i \in 1..Len(log[c]) :
              i < j /\ log[c][i].sender = log[c][j].sender
                  => log[c][i].n < log[c][j].n

\* Only Publish touches the log, and it appends the sender's next envelope.
LEMMA LogOrderStep ==
    ASSUME TypeOK, LogOrder, [Next]_vars
    PROVE  LogOrder'
<1>1. ASSUME NEW p \in Sender, NEW c \in Channel, Publish(p, c)
      PROVE  LogOrder'
  <2> DEFINE e == [sender |-> p, n |-> sent[p] + 1]
  <2>1. e \in Envelope
    BY <1>1, BrokerAssumption DEF Envelope, Publish, TypeOK
  <2>2. /\ log \in [Channel -> Seq(Envelope)]
        /\ log' = [log EXCEPT ![c] = Append(@, e)]
        /\ sent \in [Sender -> Nat]
        /\ sent' = [sent EXCEPT ![p] = @ + 1]
    BY <1>1, BrokerAssumption DEF Publish, TypeOK
  <2>3. \A d \in Channel : \A i \in 1..Len(log[d]) : log[d][i] \in Envelope
    BY <2>2, ElementOfSeq
  <2>4. \A q \in Sender : sent[q] <= sent'[q]
    BY <2>2
  <2> SUFFICES ASSUME NEW d \in Channel, NEW j \in 1..Len(log'[d])
               PROVE  /\ log'[d][j].n <= sent'[log'[d][j].sender]
                      /\ \A i \in 1..Len(log'[d]) :
                            i < j /\ log'[d][i].sender = log'[d][j].sender
                                => log'[d][i].n < log'[d][j].n
    BY DEF LogOrder
  <2>5. ASSUME NEW i \in 1..Len(log[d])
        PROVE  /\ log[d][i].sender \in Sender /\ log[d][i].n \in Nat
               /\ log[d][i].n <= sent[log[d][i].sender]
               /\ log[d][i].n <= sent'[log[d][i].sender]
    <3>1. log[d][i] \in Envelope
      BY <2>3
    <3>2. log[d][i].sender \in Sender /\ log[d][i].n \in Nat
      BY <3>1, BrokerAssumption DEF Envelope
    <3>3. log[d][i].n <= sent[log[d][i].sender]
      BY DEF LogOrder
    <3> QED
      BY <2>2, <2>4, <3>2, <3>3
  <2>6. CASE d # c
    <3>1. log'[d] = log[d]
      BY <2>2, <2>6
    <3> QED
      BY <2>5, <3>1 DEF LogOrder
  <2>7. CASE d = c
    <3> DEFINE len == Len(log[c])
    <3>1. /\ len \in Nat /\ Len(log'[c]) = len + 1
          /\ \A i \in 1..len : log'[c][i] = log[c][i]
          /\ log'[c][len + 1] = e
      BY <2>1, <2>2
    <3>2. \A i \in 1..(len + 1) : i \in 1..len \/ i = len + 1
      BY <3>1
    <3>3. CASE j \in 1..len
      <4>1. \A i \in 1..(len + 1) : i < j => i \in 1..len
        BY <3>1, <3>3
      <4> QED
        BY <2>5, <2>7, <3>1, <3>3, <4>1 DEF LogOrder
    <3>4. CASE j = len + 1
      <4>1. log'[c][j] = e /\ e.sender = p /\ e.n = sent[p] + 1
        BY <3>1, <3>4
      <4>2. sent'[p] = sent[p] + 1 /\ sent[p] \in Nat
        BY <2>2
      <4>3. ASSUME NEW i \in 1..len, log[c][i].sender = p
            PROVE  log[c][i].n < sent[p] + 1
        BY <2>5, <2>7, <4>2, <4>3
      <4>4. \A i \in 1..(len + 1) : i < j => i \in 1..len
        BY <3>1, <3>4
      <4>5. ASSUME NEW i \in 1..(len + 1), i < j,
                   log'[c][i].sender = log'[c][j].sender
            PROVE  log'[c][i].n < log'[c][j].n
        <5>1. i \in 1..len /\ log'[c][i] = log[c][i]
          BY <3>1, <4>4, <4>5
        <5> HIDE DEF e, len
        <5> QED
          BY <4>1, <4>3, <4>5, <5>1
      <4>6. log'[c][j].n <= sent'[log'[c][j].sender]
        <5> HIDE DEF e
        <5> QED
          BY <4>1, <4>2
      <4> QED
        BY <2>7, <3>1, <4>5, <4>6
    <3> QED
      BY <2>7, <3>1, <3>2, <3>3, <3>4
  <2> QED
    BY <2>6, <2>7
<1>2. CASE UNCHANGED <<log, sent>>
  BY <1>2 DEF LogOrder
<1> QED
  BY <1>1, <1>2 DEF Next, vars, brokerVars, senderVars, sessionVars, historyVars,
     Subscribe, CloseDropped, Unsubscribe, UnsubscribeClose, WriterTake,
     WriterWrote, WriterFailed, WriterStops, ClientGone

\* A client never receives an older envelope of a sender after a newer one, nor
\* one twice: the log has that order, and what was received is a run of it.
THEOREM PerSenderOrderHolds == Spec => []PerSenderOrder
<1>1. Init => LogOrder
  BY DEF Init, LogOrder
<1>2. Spec => []LogOrder
  <2>1. TypeOK /\ LogOrder /\ [Next]_vars => LogOrder'
    BY LogOrderStep
  <2> QED
    BY <1>1, <2>1, TypeCorrect, PTL DEF Spec
<1>3. TypeOK /\ Shape /\ GapFreeRun /\ LogOrder => PerSenderOrder
  <2> SUFFICES ASSUME TypeOK, Shape, GapFreeRun, LogOrder, NEW s \in Id,
                      NEW i \in 1..Len(recv[s]), NEW j \in 1..Len(recv[s]),
                      i < j, recv[s][i].sender = recv[s][j].sender
               PROVE  recv[s][i].n < recv[s][j].n
    BY DEF PerSenderOrder
  <2>1. channel[s] \in Channel
    <3>1. Len(recv[s]) # 0
      BY DEF TypeOK
    <3>2. ~ (nextID < s)
      BY <3>1 DEF Shape, IdsInUse
    <3> QED
      BY <3>2, BrokerAssumption DEF Shape, IdsInUse, TypeOK, Id
  <2> DEFINE stream == log[channel[s]]
  <2>2. /\ recv[s][i] = stream[since[s] + i]
        /\ recv[s][j] = stream[since[s] + j]
    BY <2>1 DEF GapFreeRun, Window
  <2>3. /\ since[s] + i \in 1..Len(stream)
        /\ since[s] + j \in 1..Len(stream)
        /\ since[s] + i < since[s] + j
    <3>1. PICK a \in Nat, r \in Nat, h \in Nat, o \in Nat, l \in Nat :
             /\ a = since[s] /\ r = Len(recv[s]) /\ h = Len(hand[s])
             /\ o = Len(out[s]) /\ l = Len(stream)
      BY <2>1 DEF TypeOK
    <3>2. a + (r + h + o) <= l
      BY <2>1, <3>1 DEF GapFreeRun, Window, Held
    <3>3. \A m \in 1..r : a + m \in 1..l
      BY <3>2, Positions
    <3>4. i \in 1..r /\ j \in 1..r
      BY <3>1
    <3>5. a + i < a + j
      BY <3>4
    <3> QED
      BY <3>1, <3>3, <3>4, <3>5
  <2> QED
    BY <2>1, <2>2, <2>3 DEF LogOrder
<1> QED
  BY <1>2, <1>3, Safety, PTL

-----------------------------------------------------------------------------
\* Whoever removes a subscription from the map is committed to closing it.
LEMMA HangingStep ==
    ASSUME TypeOK, Shape, NobodyLeftHanging, [Next]_vars
    PROVE  NobodyLeftHanging'
<1> SUFFICES ASSUME NEW t \in 1..nextID'
             PROVE  \/ Attached(t)'
                    \/ closed'[t]
                    \/ handler'[t] = "unsub"
                    \/ \E q \in Sender : t \in toDrop'[q]
  BY DEF NobodyLeftHanging
<1>1. t \in 1..nextID =>
         \/ Attached(t)
         \/ closed[t]
         \/ handler[t] = "unsub"
         \/ \E q \in Sender : t \in toDrop[q]
  BY DEF NobodyLeftHanging
<1>2. t \in 1..nextID => t \in Id /\ channel[t] \in Channel
  BY BrokerAssumption DEF TypeOK, Shape, IdsInUse, Id
<1> USE DEF brokerVars, senderVars, sessionVars, historyVars
<1>3. ASSUME NEW c \in Channel, NEW k \in {"ws", "sse"}, Subscribe(c, k)
      PROVE  Attached(t)' \/ closed'[t] \/ handler'[t] = "unsub"
                \/ \E q \in Sender : t \in toDrop'[q]
  <2>1. t \in 1..nextID \/ t = FreshID
    BY <1>3 DEF Subscribe, FreshID, TypeOK
  <2>2. CASE t = FreshID
    <3>1. channel'[t] = c /\ t \in subs'[c]
      BY <1>3, <2>2 DEF Subscribe, TypeOK
    <3> QED
      BY <3>1 DEF Attached
  <2>3. CASE t \in 1..nextID /\ t # FreshID
    <3>1. /\ channel'[t] = channel[t] /\ closed'[t] = closed[t]
          /\ handler'[t] = handler[t] /\ toDrop' = toDrop
          /\ subs[channel[t]] \subseteq subs'[channel[t]]
      BY <1>2, <1>3, <2>3 DEF Subscribe, TypeOK
    <3> QED
      BY <1>1, <2>3, <3>1 DEF Attached
  <2> QED
    BY <2>1, <2>2, <2>3
<1>4. ASSUME NEW p \in Sender, NEW c \in Channel, Publish(p, c)
      PROVE  Attached(t)' \/ closed'[t] \/ handler'[t] = "unsub"
                \/ \E q \in Sender : t \in toDrop'[q]
  <2>1. /\ channel' = channel /\ closed' = closed /\ handler' = handler
        /\ nextID' = nextID
        /\ toDrop[p] = {} /\ toDrop' = [toDrop EXCEPT ![p] = Full(c)]
        /\ subs' = [subs EXCEPT ![c] = @ \ Full(c)]
    BY <1>4 DEF Publish
  <2>2. \A q \in Sender : toDrop[q] \subseteq toDrop'[q]
    BY <2>1 DEF TypeOK
  <2>3. ASSUME Attached(t), ~ Attached(t)' PROVE t \in toDrop'[p]
    BY <2>1, <2>3 DEF Attached, TypeOK
  <2> QED
    BY <1>1, <2>1, <2>2, <2>3
<1>5. ASSUME NEW p \in Sender, NEW s \in Id, CloseDropped(p, s)
      PROVE  Attached(t)' \/ closed'[t] \/ handler'[t] = "unsub"
                \/ \E q \in Sender : t \in toDrop'[q]
  <2>1. /\ channel' = channel /\ subs' = subs /\ handler' = handler
        /\ nextID' = nextID
        /\ toDrop' = [toDrop EXCEPT ![p] = @ \ {s}]
        /\ closed' = [closed EXCEPT ![s] = TRUE]
    BY <1>5 DEF CloseDropped
  <2>2. CASE t = s
    BY <2>1, <2>2 DEF TypeOK
  <2>3. CASE t # s
    <3>1. closed'[t] = closed[t]
      BY <1>2, <2>1, <2>3 DEF TypeOK
    <3>2. \A q \in Sender : t \in toDrop[q] => t \in toDrop'[q]
      BY <2>1, <2>3 DEF TypeOK
    <3> QED
      BY <1>1, <2>1, <3>1, <3>2 DEF Attached
  <2> QED
    BY <2>2, <2>3
<1>6. ASSUME NEW s \in Id, Unsubscribe(s)
      PROVE  Attached(t)' \/ closed'[t] \/ handler'[t] = "unsub"
                \/ \E q \in Sender : t \in toDrop'[q]
  <2>1. /\ channel' = channel /\ closed' = closed /\ toDrop' = toDrop
        /\ nextID' = nextID
        /\ subs' = [subs EXCEPT ![channel[s]] = @ \ {s}]
        /\ handler' = [handler EXCEPT ![s] = "unsub"]
        /\ handler[s] = "pump"
    BY <1>6 DEF Unsubscribe, MayReturn
  <2>2. CASE t = s
    BY <2>1, <2>2 DEF TypeOK
  <2>3. CASE t # s
    <3>1. handler'[t] = handler[t]
      BY <1>2, <2>1, <2>3 DEF TypeOK
    <3>2. Attached(t) => Attached(t)'
      BY <2>1, <2>3 DEF Attached, TypeOK
    <3> QED
      BY <1>1, <2>1, <3>1, <3>2
  <2> QED
    BY <2>2, <2>3
<1>7. ASSUME NEW s \in Id, UnsubscribeClose(s)
      PROVE  Attached(t)' \/ closed'[t] \/ handler'[t] = "unsub"
                \/ \E q \in Sender : t \in toDrop'[q]
  <2>1. /\ channel' = channel /\ subs' = subs /\ toDrop' = toDrop
        /\ nextID' = nextID
        /\ closed' = [closed EXCEPT ![s] = TRUE]
        /\ handler' = [handler EXCEPT ![s] = "done"]
    BY <1>7 DEF UnsubscribeClose
  <2>2. CASE t = s
    BY <2>1, <2>2 DEF TypeOK
  <2>3. CASE t # s
    <3>1. closed'[t] = closed[t] /\ handler'[t] = handler[t]
      BY <1>2, <2>1, <2>3 DEF TypeOK
    <3> QED
      BY <1>1, <2>1, <3>1 DEF Attached
  <2> QED
    BY <2>2, <2>3
<1>8. CASE UNCHANGED <<nextID, subs, channel, closed, toDrop, handler>>
  BY <1>1, <1>8 DEF Attached
<1> QED
  BY <1>3, <1>4, <1>5, <1>6, <1>7, <1>8
     DEF Next, vars, WriterTake, WriterWrote, WriterFailed, WriterStops, ClientGone

\* No pump is ever left waiting on a subscription nobody will feed or close.
THEOREM NobodyLeftHangingHolds == Spec => []NobodyLeftHanging
<1>1. Init => NobodyLeftHanging
  BY DEF Init, NobodyLeftHanging
<1>2. TypeOK /\ Shape /\ NobodyLeftHanging /\ [Next]_vars => NobodyLeftHanging'
  BY HangingStep
<1> QED
  BY <1>1, <1>2, Safety, PTL DEF Spec

-----------------------------------------------------------------------------
(* Refinement: every step of the broker is a step of the feed or a stutter. *)

\* What the feed calls "on" and "limit".
FeedOn == [s \in Id |-> IF Attached(s) THEN channel[s] ELSE NoChannel]
FeedLimit == [s \in Id |-> since[s] + Held(s)]

\* What a client is still owed is what is in the writer's hand and the queue.
LEMMA PositionLimit ==
    ASSUME TypeOK, NEW s \in Id
    PROVE  /\ since[s] + Held(s) \in Nat
           /\ Len(out[s]) >= QueueDepth =>
                 since[s] + Held(s) >= since[s] + Len(recv[s]) + QueueDepth
           /\ Len(hand[s]) = 1 => since[s] + Len(recv[s]) < since[s] + Held(s)
<1>1. PICK a \in Nat, r \in Nat, h \in Nat, o \in Nat, d \in Nat :
         /\ a = since[s] /\ r = Len(recv[s]) /\ h = Len(hand[s])
         /\ o = Len(out[s]) /\ d = QueueDepth
  BY BrokerAssumption DEF TypeOK
<1>2. /\ a + (r + h + o) \in Nat
      /\ o >= d => a + (r + h + o) >= a + r + d
      /\ h = 1 => a + r < a + (r + h + o)
  OBVIOUS
<1> QED
  BY <1>1, <1>2 DEF Held

\* The broker starts as the feed does.
LEMMA FeedInit == Init => AbstractFeed!Init
<1> SUFFICES ASSUME Init PROVE AbstractFeed!Init
  OBVIOUS
<1>1. \A s \in Id : ~ Attached(s)
  BY BrokerAssumption DEF Init, Attached
<1>2. \A s \in Id : since[s] + Held(s) = 0
  <2> SUFFICES ASSUME NEW s \in Id PROVE since[s] + Held(s) = 0
    OBVIOUS
  <2>1. Held(s) = 0 + 0 + 0 /\ since[s] = 0
    BY DEF Init, Held
  <2> QED
    BY <2>1
<1> QED
  BY <1>1, <1>2 DEF Init, AbstractFeed!Init

\* Subscribe is Join.
LEMMA FeedJoin ==
    ASSUME TypeOK, Shape, NEW c \in Channel, NEW k \in {"ws", "sse"},
           Subscribe(c, k), NEW s \in Id, s = FreshID
    PROVE  AbstractFeed!Join(s, c)
<1>1. /\ channel[s] = NoChannel
      /\ Len(recv[s]) = 0 /\ Len(hand[s]) = 0
  <2>1. nextID < s /\ ~ (s <= nextID)
    BY DEF FreshID, TypeOK
  <2> QED
    BY <2>1 DEF Shape, IdsInUse, TypeOK
<1>2. /\ channel' = [channel EXCEPT ![s] = c]
      /\ since' = [since EXCEPT ![s] = Len(log[c])]
      /\ subs' = [subs EXCEPT ![c] = @ \cup {s}]
      /\ out' = [out EXCEPT ![s] = <<>>]
      /\ log' = log /\ recv' = recv /\ hand' = hand
  BY DEF Subscribe
<1>3. Attached(s)' /\ channel'[s] = c
  BY <1>2 DEF Attached, TypeOK
<1>4. \A t \in Id \ {s} : (Attached(t)' <=> Attached(t)) /\ channel'[t] = channel[t]
  BY <1>2 DEF Attached, TypeOK
<1>5. FeedOn' = [FeedOn EXCEPT ![s] = c]
  BY <1>3, <1>4 DEF FeedOn
<1>6. since'[s] + Held(s)' = Len(log[c])
  <2>1. Held(s)' = 0 + 0 + 0
    BY <1>1, <1>2 DEF Held, TypeOK
  <2>2. Len(log[c]) \in Nat /\ since'[s] = Len(log[c])
    BY <1>2 DEF TypeOK
  <2> QED
    BY <2>1, <2>2
<1>7. \A t \in Id \ {s} : since'[t] + Held(t)' = since[t] + Held(t)
  BY <1>2 DEF Held, TypeOK
<1>8. FeedLimit' = [FeedLimit EXCEPT ![s] = Len(log[c])]
  BY <1>6, <1>7 DEF FeedLimit
<1> QED
  BY <1>1, <1>2, <1>5, <1>8 DEF AbstractFeed!Join, FeedOn, FeedLimit

\* Publish is Post, with the subscribers whose queue is full as the laggards.
LEMMA FeedPost ==
    ASSUME TypeOK, Shape, NEW p \in Sender, NEW c \in Channel, Publish(p, c),
           NEW e \in Envelope, e = [sender |-> p, n |-> sent[p] + 1],
           NEW laggards \in SUBSET Id, laggards = Full(c)
    PROVE  AbstractFeed!Post(c, e, laggards)
<1>1. laggards \subseteq subs[c]
  BY DEF Full
<1>2. /\ channel' = channel /\ since' = since /\ recv' = recv /\ hand' = hand
      /\ log' = [log EXCEPT ![c] = Append(@, e)]
      /\ subs' = [subs EXCEPT ![c] = @ \ laggards]
      /\ out' = [s \in Id |-> IF s \in subs[c] \ laggards
                                THEN Append(out[s], e) ELSE out[s]]
  BY DEF Publish, sessionVars
<1>3. \A s \in Id : FeedOn[s] = c <=> s \in subs[c]
  BY BrokerAssumption DEF FeedOn, Attached, Shape, OwnChannel, TypeOK
<1>4. ASSUME NEW s \in laggards
      PROVE  /\ FeedOn[s] = c
             /\ FeedLimit[s] >= since[s] + Len(recv[s]) + QueueDepth
  BY <1>1, <1>3, PositionLimit DEF Full, FeedLimit
<1>5. FeedOn' = [s \in Id |-> IF s \in laggards THEN NoChannel ELSE FeedOn[s]]
  <2>1. ASSUME NEW s \in Id
        PROVE  Attached(s)' <=> Attached(s) /\ s \notin laggards
    BY <1>1, <1>2 DEF Attached, TypeOK, Full, Shape, OwnChannel
  <2> QED
    BY <1>2, <2>1 DEF FeedOn
<1>6. FeedLimit' = [s \in Id |-> IF FeedOn[s] = c /\ s \notin laggards
                                   THEN FeedLimit[s] + 1 ELSE FeedLimit[s]]
  <2>1. ASSUME NEW s \in Id, s \in subs[c] \ laggards
        PROVE  since'[s] + Held(s)' = (since[s] + Held(s)) + 1
    <3>1. PICK a \in Nat, r \in Nat, h \in Nat, o \in Nat :
             /\ a = since[s] /\ r = Len(recv[s]) /\ h = Len(hand[s])
             /\ o = Len(out[s])
      BY DEF TypeOK
    <3>2. Len(out'[s]) = Len(out[s]) + 1
      BY <1>1, <1>2, <2>1 DEF TypeOK
    <3>3. a + (r + h + (o + 1)) = (a + (r + h + o)) + 1
      OBVIOUS
    <3> QED
      BY <1>2, <3>1, <3>2, <3>3 DEF Held
  <2>2. ASSUME NEW s \in Id, s \notin subs[c] \ laggards
        PROVE  since'[s] + Held(s)' = since[s] + Held(s)
    BY <1>2, <2>2 DEF Held
  <2> QED
    BY <1>3, <2>1, <2>2 DEF FeedLimit
<1>7. AbstractFeed!Post(c, e, laggards)
  <2>1. \A s \in laggards : /\ FeedOn[s] = c
                           /\ FeedLimit[s] >= AbstractFeed!Position(s) + QueueDepth
    BY <1>4 DEF AbstractFeed!Position
  <2>2. UNCHANGED <<channel, since, recv>>
    BY <1>2
  <2>3. log' = [log EXCEPT ![c] = Append(@, e)]
    BY <1>2
  <2> QED
    BY <1>5, <1>6, <2>1, <2>2, <2>3 DEF AbstractFeed!Post, FeedOn, FeedLimit
<1> QED
  BY <1>7

\* A completed write is Read.
LEMMA FeedRead ==
    ASSUME TypeOK, Shape, GapFreeRun, NEW s \in Id, WriterWrote(s)
    PROVE  AbstractFeed!Read(s)
<1>1. /\ channel' = channel /\ since' = since /\ subs' = subs /\ log' = log
      /\ out' = out
      /\ recv' = [recv EXCEPT ![s] = Append(@, Head(hand[s]))]
      /\ hand' = [hand EXCEPT ![s] = <<>>]
      /\ hand[s] \in Seq(Envelope) /\ Len(hand[s]) = 1
  BY DEF WriterWrote, brokerVars, TypeOK, Shape, HandOK
<1>2. channel[s] \in Channel
  <2>1. ~ (nextID < s)
    BY <1>1 DEF Shape, IdsInUse
  <2> QED
    BY <2>1, BrokerAssumption DEF Shape, IdsInUse, TypeOK, Id
<1>3. Window(s)
  BY <1>2 DEF GapFreeRun
<1>4. /\ since[s] \in Nat /\ Len(recv[s]) \in Nat
      /\ Head(hand[s]) = log[channel[s]][since[s] + Len(recv[s]) + 1]
  <2>1. Head(hand[s]) = hand[s][1] /\ 1 \in 1..Len(hand[s])
    BY <1>1, HeadOfSeq
  <2> QED
    BY <1>3, <2>1 DEF Window, TypeOK
<1>5. FeedOn' = FeedOn
  BY <1>1 DEF FeedOn, Attached
<1>6. FeedLimit' = FeedLimit
  <2>1. \A t \in Id : since'[t] + Held(t)' = since[t] + Held(t)
    <3>1. Held(s)' = Held(s)
      BY <1>2, <1>3, WindowWrote DEF Shape
    <3>2. \A t \in Id \ {s} : Held(t)' = Held(t)
      BY <1>1 DEF Held, TypeOK
    <3> QED
      BY <1>1, <3>1, <3>2
  <2> QED
    BY <2>1 DEF FeedLimit
<1>7. since[s] + Len(recv[s]) < FeedLimit[s]
  BY <1>1, PositionLimit DEF FeedLimit
<1> QED
  BY <1>1, <1>2, <1>4, <1>5, <1>6, <1>7
     DEF AbstractFeed!Read, AbstractFeed!Position, FeedOn, FeedLimit

\* Unsubscribe is Leave, unless a publish has already dropped the subscription.
LEMMA FeedLeave ==
    ASSUME TypeOK, Shape, NEW s \in Id, Unsubscribe(s)
    PROVE  AbstractFeed!Leave(s) \/ UNCHANGED AbstractFeed!vars
<1>1. /\ channel' = channel /\ since' = since /\ log' = log /\ out' = out
      /\ recv' = recv /\ hand' = hand
      /\ subs' = [subs EXCEPT ![channel[s]] = @ \ {s}]
  BY DEF Unsubscribe, historyVars
<1>2. channel[s] \in Channel
  <2>1. ~ (nextID < s)
    BY DEF Shape, IdsInUse, Unsubscribe, MayReturn
  <2> QED
    BY <2>1, BrokerAssumption DEF Shape, IdsInUse, TypeOK, Id
<1>3. FeedLimit' = FeedLimit
  BY <1>1 DEF FeedLimit, Held
<1>4. ~ Attached(s)' /\ \A t \in Id \ {s} : Attached(t)' <=> Attached(t)
  BY <1>1, <1>2 DEF Attached, TypeOK
<1>5. CASE Attached(s)
  <2>1. FeedOn' = [FeedOn EXCEPT ![s] = NoChannel]
    BY <1>1, <1>4 DEF FeedOn
  <2>2. FeedOn[s] \in Channel
    BY <1>2, <1>5 DEF FeedOn
  <2> QED
    BY <1>1, <1>3, <2>1, <2>2 DEF AbstractFeed!Leave, FeedOn, FeedLimit
<1>6. CASE ~ Attached(s)
  <2>1. FeedOn' = FeedOn
    BY <1>1, <1>4, <1>6 DEF FeedOn
  <2> QED
    BY <1>1, <1>3, <2>1 DEF AbstractFeed!vars, FeedOn, FeedLimit
<1> QED
  BY <1>5, <1>6

\* Taking an envelope from the queue is invisible to the feed.
LEMMA FeedTake ==
    ASSUME TypeOK, Shape, GapFreeRun, NEW s \in Id, WriterTake(s)
    PROVE  UNCHANGED AbstractFeed!vars
<1>1. /\ channel' = channel /\ since' = since /\ subs' = subs /\ log' = log
      /\ recv' = recv
      /\ out' = [out EXCEPT ![s] = Tail(@)]
      /\ hand' = [hand EXCEPT ![s] = <<Head(out[s])>>]
  BY DEF WriterTake, historyVars
<1>2. channel[s] \in Channel
  <2>1. ~ (nextID < s)
    BY DEF Shape, IdsInUse, WriterTake
  <2> QED
    BY <2>1, BrokerAssumption DEF Shape, IdsInUse, TypeOK, Id
<1>3. FeedOn' = FeedOn
  BY <1>1 DEF FeedOn, Attached
<1>4. FeedLimit' = FeedLimit
  <2>1. Held(s)' = Held(s)
    BY <1>2, WindowTake DEF Shape, GapFreeRun
  <2>2. \A t \in Id \ {s} : Held(t)' = Held(t)
    BY <1>1 DEF Held, TypeOK
  <2> QED
    BY <1>1, <2>1, <2>2 DEF FeedLimit
<1> QED
  BY <1>1, <1>3, <1>4 DEF AbstractFeed!vars, FeedOn, FeedLimit

\* Every other step leaves what the feed sees unchanged.
LEMMA FeedStutter ==
    ASSUME UNCHANGED <<log, channel, since, recv, subs, hand, out>>
    PROVE  UNCHANGED AbstractFeed!vars
<1>1. FeedOn' = FeedOn /\ FeedLimit' = FeedLimit
  BY DEF FeedOn, FeedLimit, Attached, Held
<1> QED
  BY <1>1 DEF AbstractFeed!vars, FeedOn, FeedLimit

\* The broker, its publishers and its pumps implement the live, at-most-once
\* feed: Publish either extends an attached subscriber's feed or, if its queue
\* is full, cuts it off; nothing else is ever lost, reordered or repeated.
THEOREM BrokerImplementsFeed == Spec => ImplementsFeed
<1>1. Init => AbstractFeed!Init
  BY FeedInit
<1>2. TypeOK /\ Shape /\ GapFreeRun /\ [Next]_vars
        => [AbstractFeed!Next]_(AbstractFeed!vars)
  <2> SUFFICES ASSUME TypeOK, Shape, GapFreeRun, [Next]_vars
               PROVE  AbstractFeed!Next \/ UNCHANGED AbstractFeed!vars
    OBVIOUS
  <2>1. ASSUME NEW c \in Channel, NEW k \in {"ws", "sse"}, Subscribe(c, k)
        PROVE  AbstractFeed!Next
    <3>1. PICK s \in Id : s = FreshID
      BY <2>1 DEF Subscribe
    <3>2. AbstractFeed!Join(s, c)
      BY <2>1, <3>1, FeedJoin
    <3> QED
      BY <3>2, Zenon DEF AbstractFeed!Next
  <2>2. ASSUME NEW p \in Sender, NEW c \in Channel, Publish(p, c)
        PROVE  AbstractFeed!Next
    <3>1. PICK e \in Envelope : e = [sender |-> p, n |-> sent[p] + 1]
      BY <2>2, BrokerAssumption DEF Envelope, Publish, TypeOK
    <3>2. PICK laggards \in SUBSET Id : laggards = Full(c)
      BY DEF Full, TypeOK
    <3>3. AbstractFeed!Post(c, e, laggards)
      BY <2>2, <3>1, <3>2, FeedPost
    <3> QED
      BY <3>3, Zenon DEF AbstractFeed!Next
  <2>3. ASSUME NEW s \in Id, WriterWrote(s)
        PROVE  AbstractFeed!Next
    <3>1. AbstractFeed!Read(s)
      BY <2>3, FeedRead
    <3> QED
      BY <3>1, Zenon DEF AbstractFeed!Next
  <2>4. ASSUME NEW s \in Id, Unsubscribe(s)
        PROVE  AbstractFeed!Next \/ UNCHANGED AbstractFeed!vars
    <3>1. AbstractFeed!Leave(s) \/ UNCHANGED AbstractFeed!vars
      BY <2>4, FeedLeave
    <3> QED
      BY <3>1, Zenon DEF AbstractFeed!Next
  <2>5. ASSUME NEW s \in Id, WriterTake(s)
        PROVE  UNCHANGED AbstractFeed!vars
    BY <2>5, FeedTake
  <2>6. CASE UNCHANGED <<log, channel, since, recv, subs, hand, out>>
    BY <2>6, FeedStutter
  <2>7. ASSUME NEW p \in Sender, NEW s \in Id, CloseDropped(p, s)
        PROVE  UNCHANGED AbstractFeed!vars
    BY <2>7, FeedStutter DEF CloseDropped, sessionVars, historyVars
  <2>8. ASSUME NEW s \in Id,
               \/ UnsubscribeClose(s) \/ WriterFailed(s)
               \/ WriterStops(s) \/ ClientGone(s)
        PROVE  UNCHANGED AbstractFeed!vars
    BY <2>8, FeedStutter DEF UnsubscribeClose, WriterFailed, WriterStops,
       ClientGone, brokerVars, historyVars
  <2>9. CASE UNCHANGED vars
    BY <2>9, FeedStutter DEF vars, brokerVars, sessionVars, historyVars
  <2> QED
    BY <2>1, <2>2, <2>3, <2>4, <2>5, <2>7, <2>8, <2>9 DEF Next
<1>3. Spec => [](TypeOK /\ Shape /\ GapFreeRun)
  BY Safety, PTL
<1> QED
  BY <1>1, <1>2, <1>3, PTL DEF Spec, ImplementsFeed, AbstractFeed!Spec
=============================================================================
