----------------------------- MODULE EdgeProofs -----------------------------
(***************************************************************************)
(* Theorems about Edge, for any connections, publishers, addresses,        *)
(* channel names, connection cap, burst and refill rate.                   *)
(*                                                                         *)
(* The argument.  A goroutine at an Allow knows the channel it publishes   *)
(* to (Addressed), so every token comes from that channel's bucket.  What  *)
(* a channel was sent is then bounded by what its bucket has handed out    *)
(* (Covered), and that by the burst and the time (RateInv of               *)
(* LimitsProofs).  The connection counter is inductive by itself.          *)
(***************************************************************************)
EXTENDS Edge, LimitsProofs, FiniteSetTheorems

\* The part of TypeOK that is Edge's own.
EdgeTypeOK ==
    /\ registered \subseteq Name
    /\ count \in [IP -> Nat]
    /\ stage \in [Caller -> Shaking \cup Pumping \cup Posting \cup {"idle", "leave"}]
    /\ \A p \in Poster : stage[p] \in Posting \cup {"idle"}
    /\ \A h \in Conn : stage[h] \notin {"ip", "body"}
    /\ name \in [Conn -> Name \cup {NoName}]
    /\ target \in [Caller -> Name \cup {NoName}]
    /\ broken \in [Conn -> BOOLEAN]
    /\ posted \in [Name -> Nat]

\* A goroutine that is publishing knows the channel; a reader's is its own.
Addressed ==
    /\ \A h \in Conn : stage[h] \in {"limit", "post"} =>
          target[h] \in Name /\ name[h] = target[h]
    /\ \A p \in Poster : stage[p] # "idle" => target[p] \in Name

\* The goroutines that hold a token of channel n.
Paid(n) == {c \in Caller : target[c] = n /\ stage[c] \in {"post", "ip", "body"}}

\* Every envelope of a channel, and every one that is about to be, was paid for
\* with a token of its bucket.
Covered ==
    \A n \in Name : spent[n] >= Cost * (posted[n] + Cardinality(Paid(n)))

Inv == TypeOK /\ RateInv /\ Addressed

-----------------------------------------------------------------------------
(* Steps *)

LEMMA Callers ==
    /\ \A h \in Conn : h \in Caller /\ h \notin Poster /\ ip[h] \in IP
    /\ \A p \in Poster : p \in Caller /\ p \notin Conn /\ ip[p] \in IP
    /\ \A c \in Caller : c \in Conn \/ c \in Poster
    /\ \A k : k \in Name \/ k \in IP => k \in BucketKey
  BY EdgeAssumption

LEMMA TypeParts == TypeOK <=> LimitsTypeOK /\ EdgeTypeOK
  BY DEF TypeOK, EdgeTypeOK

\* An action of a connection that does not touch the limiter.
Quiet(h) ==
    \/ Acquire(h) \/ Accept(h) \/ \E n \in Name : Hello(h, n)
    \/ Verified(h) \/ HandshakeFails(h) \/ Refuse(h) \/ Greet(h) \/ Replay(h)
    \/ Release(h)
    \/ \E f \in Frame : TakeFrame(h, f) \/ RejectFrame(h, f)
    \/ FramePosted(h) \/ Answered(h) \/ Break(h) \/ ReadFails(h)

LEMMA StepCases ==
    ASSUME [Next]_vars
    PROVE  \/ \E h \in Conn : Quiet(h)
           \/ \E p \in Poster : BodyRead(p) \/ \E n \in Name : OpenPublish(p, n)
           \/ \E n \in Name : Register(n)
           \/ \E c \in Caller : AllowBegins(c)
           \/ \E h \in Conn, granted \in BOOLEAN : FrameLimited(h, granted)
           \/ \E p \in Poster, granted \in BOOLEAN :
                 TopicLimited(p, granted) \/ AddressLimited(p, granted)
           \/ Tick /\ UNCHANGED edgeVars
           \/ UNCHANGED vars
<1>1. CASE \E h \in Conn : HandlerStep(h) \/ ClientStep(h)
  BY <1>1, Callers DEF HandlerStep, ClientStep, Quiet
<1>2. CASE \E p \in Poster : PosterStep(p)
  BY <1>2, Callers DEF PosterStep
<1> QED
  BY <1>1, <1>2 DEF Next

\* Where the limiter's state comes from.
LEMMA LimitsStep ==
    ASSUME Inv, [Next]_vars
    PROVE  LimitsTypeOK' /\ RateInv'
<1>0. LimitsTypeOK /\ RateInv /\ Addressed
  BY DEF Inv, TypeOK
<1>1. CASE UNCHANGED limitVars
  BY <1>0, <1>1, LimitsStutter
<1>2. ASSUME NEW c \in Caller, ReadClock(c) PROVE LimitsTypeOK' /\ RateInv'
  BY <1>0, <1>2, ReadClockOutcome
<1>3. ASSUME NEW c \in Caller, NEW k \in BucketKey, NEW granted \in BOOLEAN,
             Allow(c, k, granted)
      PROVE  LimitsTypeOK' /\ RateInv'
  BY <1>0, <1>3, AllowOutcome
<1>4. CASE \E h \in Conn : Quiet(h)
  <2>1. UNCHANGED limitVars
    BY <1>4 DEF Quiet, Acquire, Accept, Hello, Verified, HandshakeFails, Refuse,
                Greet, Replay, Release, TakeFrame, RejectFrame, FramePosted,
                Answered, Break, ReadFails
  <2> QED
    BY <2>1, <1>1
<1>5. CASE \E p \in Poster : BodyRead(p) \/ \E n \in Name : OpenPublish(p, n)
  BY <1>1, <1>5 DEF BodyRead, OpenPublish
<1>6. CASE \E n \in Name : Register(n)
  BY <1>1, <1>6 DEF Register
<1>7. CASE \E c \in Caller : AllowBegins(c)
  BY <1>2, <1>7 DEF AllowBegins
<1>8. ASSUME NEW h \in Conn, NEW granted \in BOOLEAN, FrameLimited(h, granted)
      PROVE  LimitsTypeOK' /\ RateInv'
  <2>1. name[h] \in BucketKey /\ h \in Caller
    BY <1>0, <1>8, Callers DEF FrameLimited, Moves, Addressed
  <2>2. Allow(h, name[h], granted)
    BY <1>8 DEF FrameLimited
  <2> QED
    BY <1>3, <2>1, <2>2
<1>9. ASSUME NEW p \in Poster, NEW granted \in BOOLEAN, TopicLimited(p, granted)
      PROVE  LimitsTypeOK' /\ RateInv'
  <2>1. target[p] \in BucketKey /\ p \in Caller
    BY <1>0, <1>9, Callers DEF TopicLimited, Moves, Addressed
  <2>2. Allow(p, target[p], granted)
    BY <1>9 DEF TopicLimited
  <2> QED
    BY <1>3, <2>1, <2>2
<1>10. ASSUME NEW p \in Poster, NEW granted \in BOOLEAN, AddressLimited(p, granted)
       PROVE  LimitsTypeOK' /\ RateInv'
  <2>1. ip[p] \in BucketKey /\ p \in Caller
    BY Callers
  <2>2. Allow(p, ip[p], granted)
    BY <1>10 DEF AddressLimited
  <2> QED
    BY <1>3, <2>1, <2>2
<1>11. CASE Tick /\ UNCHANGED edgeVars
  BY <1>0, <1>11, TickOutcome
<1>12. CASE UNCHANGED vars
  BY <1>1, <1>12 DEF vars
<1> QED
  BY <1>4, <1>5, <1>6, <1>7, <1>8, <1>9, <1>10, <1>11, <1>12, StepCases

-----------------------------------------------------------------------------
(* Type correctness *)

LEMMA EdgeTypeStep ==
    ASSUME Inv, [Next]_vars
    PROVE  EdgeTypeOK'
<1>0. EdgeTypeOK /\ Addressed
  BY TypeParts DEF Inv
<1> USE DEF EdgeTypeOK, Moves, Shaking, Pumping, Posting
<1>1. ASSUME NEW h \in Conn, Quiet(h) PROVE EdgeTypeOK'
  <2> USE <1>0, Callers
  <2>1. CASE Acquire(h)
    BY <2>1 DEF Acquire
  <2>2. CASE Accept(h)
    BY <2>2 DEF Accept
  <2>3. CASE \E n \in Name : Hello(h, n)
    BY <2>3 DEF Hello
  <2>4. CASE Verified(h)
    BY <2>4 DEF Verified
  <2>5. CASE HandshakeFails(h)
    BY <2>5 DEF HandshakeFails
  <2>6. CASE Refuse(h)
    BY <2>6 DEF Refuse
  <2>7. CASE Greet(h)
    BY <2>7 DEF Greet
  <2>8. CASE Replay(h)
    BY <2>8 DEF Replay
  <2>9. CASE Release(h)
    BY <2>9 DEF Release
  <2>10. CASE \E f \in Frame : TakeFrame(h, f)
    BY <2>10 DEF TakeFrame, Frame
  <2>11. CASE \E f \in Frame : RejectFrame(h, f)
    BY <2>11 DEF RejectFrame
  <2>12. CASE FramePosted(h)
    BY <2>12 DEF FramePosted, Addressed
  <2>13. CASE Answered(h)
    BY <2>13 DEF Answered
  <2>14. CASE Break(h)
    BY <2>14 DEF Break
  <2>15. CASE ReadFails(h)
    BY <2>15 DEF ReadFails
  <2> QED
    BY <1>1, <2>1, <2>2, <2>3, <2>4, <2>5, <2>6, <2>7, <2>8, <2>9, <2>10, <2>11,
       <2>12, <2>13, <2>14, <2>15 DEF Quiet
<1>2. ASSUME NEW p \in Poster, BodyRead(p) PROVE EdgeTypeOK'
  BY <1>0, <1>2, Callers DEF BodyRead, Addressed
<1>3. ASSUME NEW p \in Poster, NEW n \in Name, OpenPublish(p, n) PROVE EdgeTypeOK'
  BY <1>0, <1>3, Callers DEF OpenPublish
<1>4. CASE \E n \in Name : Register(n)
  BY <1>0, <1>4 DEF Register
<1>5. CASE \E c \in Caller : AllowBegins(c)
  BY <1>0, <1>5 DEF AllowBegins, edgeVars
<1>6. ASSUME NEW h \in Conn, NEW granted \in BOOLEAN, FrameLimited(h, granted)
      PROVE  EdgeTypeOK'
  BY <1>0, <1>6, Callers DEF FrameLimited
<1>7. ASSUME NEW p \in Poster, NEW granted \in BOOLEAN, TopicLimited(p, granted)
      PROVE  EdgeTypeOK'
  BY <1>0, <1>7, Callers DEF TopicLimited
<1>8. ASSUME NEW p \in Poster, NEW granted \in BOOLEAN, AddressLimited(p, granted)
      PROVE  EdgeTypeOK'
  BY <1>0, <1>8, Callers DEF AddressLimited
<1>9. CASE UNCHANGED edgeVars
  BY <1>0, <1>9 DEF edgeVars
<1> QED
  BY <1>1, <1>2, <1>3, <1>4, <1>5, <1>6, <1>7, <1>8, <1>9, StepCases DEF vars

LEMMA AddressedStep ==
    ASSUME Inv, [Next]_vars
    PROVE  Addressed'
<1>0. EdgeTypeOK /\ Addressed
  BY TypeParts DEF Inv
<1> USE DEF EdgeTypeOK, Addressed, Moves, Shaking, Pumping, Posting
<1>1. ASSUME NEW h \in Conn, Quiet(h) PROVE Addressed'
  <2> USE <1>0, Callers
  <2>1. CASE Acquire(h)
    BY <2>1 DEF Acquire
  <2>2. CASE Accept(h)
    BY <2>2 DEF Accept
  <2>3. CASE \E n \in Name : Hello(h, n)
    BY <2>3 DEF Hello
  <2>4. CASE Verified(h)
    BY <2>4 DEF Verified
  <2>5. CASE HandshakeFails(h)
    BY <2>5 DEF HandshakeFails
  <2>6. CASE Refuse(h)
    BY <2>6 DEF Refuse
  <2>7. CASE Greet(h)
    BY <2>7 DEF Greet
  <2>8. CASE Replay(h)
    BY <2>8 DEF Replay
  <2>9. CASE Release(h)
    BY <2>9 DEF Release
  <2>10. CASE \E f \in Frame : TakeFrame(h, f)
    BY <2>10 DEF TakeFrame, Admissible, Frame
  <2>11. CASE \E f \in Frame : RejectFrame(h, f)
    BY <2>11 DEF RejectFrame
  <2>12. CASE FramePosted(h)
    BY <2>12 DEF FramePosted
  <2>13. CASE Answered(h)
    BY <2>13 DEF Answered
  <2>14. CASE Break(h)
    BY <2>14 DEF Break
  <2>15. CASE ReadFails(h)
    BY <2>15 DEF ReadFails
  <2> QED
    BY <1>1, <2>1, <2>2, <2>3, <2>4, <2>5, <2>6, <2>7, <2>8, <2>9, <2>10, <2>11,
       <2>12, <2>13, <2>14, <2>15 DEF Quiet
<1>2. ASSUME NEW p \in Poster, BodyRead(p) PROVE Addressed'
  BY <1>0, <1>2, Callers DEF BodyRead
<1>3. ASSUME NEW p \in Poster, NEW n \in Name, OpenPublish(p, n) PROVE Addressed'
  BY <1>0, <1>3, Callers DEF OpenPublish
<1>4. CASE \E n \in Name : Register(n)
  BY <1>0, <1>4 DEF Register
<1>5. CASE \E c \in Caller : AllowBegins(c)
  BY <1>0, <1>5 DEF AllowBegins, edgeVars
<1>6. ASSUME NEW h \in Conn, NEW granted \in BOOLEAN, FrameLimited(h, granted)
      PROVE  Addressed'
  BY <1>0, <1>6, Callers DEF FrameLimited
<1>7. ASSUME NEW p \in Poster, NEW granted \in BOOLEAN, TopicLimited(p, granted)
      PROVE  Addressed'
  BY <1>0, <1>7, Callers DEF TopicLimited
<1>8. ASSUME NEW p \in Poster, NEW granted \in BOOLEAN, AddressLimited(p, granted)
      PROVE  Addressed'
  BY <1>0, <1>8, Callers DEF AddressLimited
<1>9. CASE UNCHANGED edgeVars
  BY <1>0, <1>9 DEF edgeVars
<1> QED
  BY <1>1, <1>2, <1>3, <1>4, <1>5, <1>6, <1>7, <1>8, <1>9, StepCases DEF vars

LEMMA Start == Init => Inv
<1>1. Init => EdgeTypeOK /\ Addressed
  BY Callers DEF Init, EdgeTypeOK, Addressed
<1> QED
  BY <1>1, LimitsStart, TypeParts DEF Init, Inv

LEMMA InvAlways == Spec => []Inv
<1>1. Inv /\ [Next]_vars => Inv'
  BY LimitsStep, EdgeTypeStep, AddressedStep, TypeParts DEF Inv, TypeOK, EdgeTypeOK
<1> QED
  BY <1>1, Start, PTL DEF Spec

\* Every reachable state of the edge is well typed: no counter is negative, no
\* bucket holds more than a burst or owes a token, and the reader's and the HTTP
\* handler's stages are their own.
THEOREM EdgeTypeCorrect == Spec => []TypeOK
  BY InvAlways, PTL DEF Inv

-----------------------------------------------------------------------------
(* The connection counter *)

\* Only Acquire and Release change the counter or who holds a slot.
LEMMA SlotCases ==
    ASSUME Inv, [Next]_vars
    PROVE  \/ \E h \in Conn : Acquire(h) \/ Release(h)
           \/ /\ count' = count
              /\ \A h \in Conn : stage'[h] = "idle" <=> stage[h] = "idle"
<1> DEFINE Same == /\ count' = count
                   /\ \A h \in Conn : stage'[h] = "idle" <=> stage[h] = "idle"
<1>0. EdgeTypeOK
  BY TypeParts DEF Inv
<1> USE DEF EdgeTypeOK, Moves
<1>1. ASSUME NEW h \in Conn, Quiet(h), ~ Acquire(h), ~ Release(h) PROVE Same
  <2> USE <1>0, Callers
  <2>1. CASE Accept(h) \/ HandshakeFails(h) \/ Greet(h) \/ Replay(h)
    BY <2>1 DEF Accept, HandshakeFails, Greet, Replay
  <2>2. CASE (\E n \in Name : Hello(h, n)) \/ Verified(h) \/ Refuse(h)
    BY <2>2 DEF Hello, Verified, Refuse
  <2>3. CASE \E f \in Frame : TakeFrame(h, f) \/ RejectFrame(h, f)
    BY <2>3 DEF TakeFrame, RejectFrame
  <2>4. CASE FramePosted(h) \/ Answered(h) \/ Break(h) \/ ReadFails(h)
    BY <2>4 DEF FramePosted, Answered, Break, ReadFails
  <2> QED
    BY <1>1, <2>1, <2>2, <2>3, <2>4 DEF Quiet
<1>2. CASE \E p \in Poster : BodyRead(p) \/ \E n \in Name : OpenPublish(p, n)
  BY <1>0, <1>2, Callers DEF BodyRead, OpenPublish
<1>3. CASE (\E n \in Name : Register(n)) \/ \E c \in Caller : AllowBegins(c)
  BY <1>3 DEF Register, AllowBegins, edgeVars
<1>4. ASSUME NEW h \in Conn, NEW granted \in BOOLEAN, FrameLimited(h, granted)
      PROVE  Same
  BY <1>0, <1>4, Callers DEF FrameLimited
<1>5. ASSUME NEW p \in Poster, NEW granted \in BOOLEAN,
             TopicLimited(p, granted) \/ AddressLimited(p, granted)
      PROVE  Same
  BY <1>0, <1>5, Callers DEF TopicLimited, AddressLimited
<1>6. CASE UNCHANGED edgeVars
  BY <1>6 DEF edgeVars
<1> QED
  BY <1>1, <1>2, <1>3, <1>4, <1>5, <1>6, StepCases DEF vars

LEMMA HoldersFinite ==
    \A i \in IP : IsFiniteSet(Holders(i)) /\ Cardinality(Holders(i)) \in Nat
<1>1. ASSUME NEW i \in IP
      PROVE  IsFiniteSet(Holders(i)) /\ Cardinality(Holders(i)) \in Nat
  <2>1. Holders(i) \subseteq Conn /\ IsFiniteSet(Conn)
    BY EdgeAssumption DEF Holders
  <2>2. IsFiniteSet(Holders(i))
    BY <2>1, FS_Subset
  <2> QED
    BY <2>2, FS_CardinalityType
<1> QED
  BY <1>1

LEMMA SlotsMatchStep ==
    ASSUME Inv, SlotsMatch, [Next]_vars
    PROVE  SlotsMatch'
<1>0. EdgeTypeOK
  BY TypeParts DEF Inv
<1>1. ASSUME NEW h \in Conn, Acquire(h) PROVE SlotsMatch'
  <2>1. /\ stage[h] = "idle" /\ stage' = [stage EXCEPT ![h] = "accept"]
        /\ count[ip[h]] < MaxConns
        /\ count' = [count EXCEPT ![ip[h]] = @ + 1]
    BY <1>1 DEF Acquire, Moves
  <2>2. \A g \in Conn : stage'[g] = IF g = h THEN "accept" ELSE stage[g]
    BY <1>0, <2>1, Callers DEF EdgeTypeOK
  <2>3. SUFFICES ASSUME NEW i \in IP
                 PROVE  /\ count'[i] = Cardinality(Holders(i)')
                        /\ count'[i] <= MaxConns
    BY DEF SlotsMatch, Holders
  <2>4. /\ count[i] = Cardinality(Holders(i)) /\ count[i] <= MaxConns
        /\ count[i] \in Nat /\ MaxConns \in Nat
    BY <1>0, EdgeAssumption DEF SlotsMatch, EdgeTypeOK
  <2>5. CASE i = ip[h]
    <3>1. Holders(i)' = Holders(i) \cup {h} /\ h \notin Holders(i)
      BY <2>1, <2>2, <2>5 DEF Holders
    <3>2. Cardinality(Holders(i) \cup {h}) = Cardinality(Holders(i)) + 1
      BY <3>1, HoldersFinite, FS_AddElement
    <3>3. count'[i] = count[i] + 1
      BY <1>0, <2>1, <2>5 DEF EdgeTypeOK
    <3> QED
      BY <2>1, <2>4, <2>5, <3>1, <3>2, <3>3
  <2>6. CASE i # ip[h]
    <3>1. Holders(i)' = Holders(i)
      BY <2>2, <2>6 DEF Holders
    <3>2. count'[i] = count[i]
      BY <1>0, <2>1, <2>6, Callers DEF EdgeTypeOK
    <3> QED
      BY <2>4, <3>1, <3>2
  <2> QED
    BY <2>5, <2>6
<1>2. ASSUME NEW h \in Conn, Release(h) PROVE SlotsMatch'
  <2>1. /\ stage[h] = "leave" /\ stage' = [stage EXCEPT ![h] = "idle"]
        /\ count' = IF count[ip[h]] > 0
                      THEN [count EXCEPT ![ip[h]] = @ - 1] ELSE count
    BY <1>2 DEF Release, Moves
  <2>2. \A g \in Conn : stage'[g] = IF g = h THEN "idle" ELSE stage[g]
    BY <1>0, <2>1, Callers DEF EdgeTypeOK
  <2>3. SUFFICES ASSUME NEW i \in IP
                 PROVE  /\ count'[i] = Cardinality(Holders(i)')
                        /\ count'[i] <= MaxConns
    BY DEF SlotsMatch, Holders
  <2>4. /\ count[i] = Cardinality(Holders(i)) /\ count[i] <= MaxConns
        /\ count[i] \in Nat /\ MaxConns \in Nat
    BY <1>0, EdgeAssumption DEF SlotsMatch, EdgeTypeOK
  <2>5. CASE i = ip[h]
    <3>1. Holders(i)' = Holders(i) \ {h} /\ h \in Holders(i)
      BY <2>1, <2>2, <2>5 DEF Holders
    <3>2. Cardinality(Holders(i) \ {h}) = Cardinality(Holders(i)) - 1
      BY <3>1, HoldersFinite, FS_RemoveElement
    <3>3. Cardinality(Holders(i) \ {h}) \in Nat
      <4>1. IsFiniteSet(Holders(i) \ {h})
        BY HoldersFinite, FS_Subset
      <4> QED
        BY <4>1, FS_CardinalityType
    <3>4. count[i] > 0
      BY <2>4, <3>2, <3>3
    <3>5. count'[i] = count[i] - 1
      BY <1>0, <2>1, <2>5, <3>4 DEF EdgeTypeOK
    <3> QED
      BY <2>4, <3>1, <3>2, <3>5
  <2>6. CASE i # ip[h]
    <3>1. Holders(i)' = Holders(i)
      BY <2>2, <2>6 DEF Holders
    <3>2. count'[i] = count[i]
      BY <1>0, <2>1, <2>6, Callers DEF EdgeTypeOK
    <3> QED
      BY <2>4, <3>1, <3>2
  <2> QED
    BY <2>5, <2>6
<1>3. CASE /\ count' = count
           /\ \A h \in Conn : stage'[h] = "idle" <=> stage[h] = "idle"
  <2>1. \A i \in IP : Holders(i)' = Holders(i)
    BY <1>3 DEF Holders
  <2> QED
    BY <1>3, <2>1 DEF SlotsMatch
<1> QED
  BY <1>1, <1>2, <1>3, SlotCases

\* The counter of an address is the number of its connections in a handler and
\* never exceeds the cap, whatever way handlers end.
THEOREM SlotsMatchHolds == Spec => []SlotsMatch
<1>1. Init => SlotsMatch
  <2>1. SUFFICES ASSUME Init, NEW i \in IP
                 PROVE  count[i] = Cardinality(Holders(i)) /\ count[i] <= MaxConns
    BY DEF SlotsMatch
  <2>2. Holders(i) = {}
    BY <2>1, Callers DEF Init, Holders
  <2>3. Cardinality(Holders(i)) = 0
    BY <2>2, FS_EmptySet
  <2> QED
    BY <2>1, <2>3, EdgeAssumption DEF Init
<1> QED
  BY <1>1, SlotsMatchStep, InvAlways, PTL DEF Spec

-----------------------------------------------------------------------------
(* The rate limit *)

LEMMA CostGrows ==
    ASSUME NEW m \in Nat, NEW n \in Nat, m <= n
    PROVE  Cost * m \in Nat /\ Cost * n \in Nat /\ Cost * m <= Cost * n
  BY CapacityType

LEMMA CostOfOne ==
    ASSUME NEW n \in Nat
    PROVE  Cost * (n + 1) = Cost * n + Cost /\ Cost * n \in Nat
  BY CapacityType

LEMMA PaidFinite ==
    ASSUME NEW n
    PROVE  IsFiniteSet(Paid(n)) /\ Cardinality(Paid(n)) \in Nat
<1>1. Paid(n) \subseteq Conn \cup Poster
  BY EdgeAssumption DEF Paid
<1>2. IsFiniteSet(Conn \cup Poster)
  BY EdgeAssumption, FS_Union
<1>3. IsFiniteSet(Paid(n))
  BY <1>1, <1>2, FS_Subset
<1> QED
  BY <1>3, FS_CardinalityType

\* The three ways a step can touch the account of a channel: nothing but a
\* larger spent, a token for c, or c's envelope done with.
Idles ==
    /\ \A n \in Name : Paid(n)' = Paid(n) /\ spent'[n] >= spent[n]
    /\ posted' = posted

Grants(c, m) ==
    /\ c \notin Paid(m)
    /\ Paid(m)' = Paid(m) \cup {c}
    /\ spent'[m] = spent[m] + Cost
    /\ \A n \in Name \ {m} : Paid(n)' = Paid(n) /\ spent'[n] = spent[n]
    /\ posted' = posted

Settles(c, m) ==
    /\ c \in Paid(m)
    /\ Paid(m)' = Paid(m) \ {c}
    /\ posted'[m] \in {posted[m], posted[m] + 1}
    /\ \A n \in Name \ {m} : Paid(n)' = Paid(n) /\ posted'[n] = posted[n]
    /\ \A n \in Name : spent'[n] >= spent[n]

LEMMA CoveredStep ==
    ASSUME EdgeTypeOK, LimitsTypeOK, LimitsTypeOK', EdgeTypeOK', Covered,
           \/ Idles
           \/ \E c \in Caller, m \in Name : Grants(c, m) \/ Settles(c, m)
    PROVE  Covered'
<1>1. SUFFICES ASSUME NEW n \in Name
               PROVE  spent'[n] >= Cost * (posted'[n] + Cardinality(Paid(n)'))
  BY DEF Covered, Paid
<1> DEFINE s == spent[n]
           q == posted[n]
           k == Cardinality(Paid(n))
<1>2. /\ s \in Nat /\ q \in Nat /\ k \in Nat /\ Cost \in Nat
      /\ s >= Cost * (q + k) /\ spent'[n] \in Nat /\ posted'[n] \in Nat
  <2>1. n \in BucketKey
    BY Callers
  <2>2. k \in Nat
    BY PaidFinite
  <2>3. s >= Cost * (q + k)
    BY DEF Covered
  <2> QED
    BY <2>1, <2>2, <2>3, CapacityType DEF LimitsTypeOK, EdgeTypeOK
<1> HIDE DEF s, q, k
<1>3. CASE /\ Paid(n)' = Paid(n) /\ posted'[n] = posted[n] /\ spent'[n] >= spent[n]
  <2>1. spent'[n] >= s /\ posted'[n] = q /\ Cardinality(Paid(n)') = k
    BY <1>3 DEF s, q, k
  <2>2. Cost * (q + k) \in Nat
    BY <1>2
  <2> QED
    BY <1>2, <2>1, <2>2
<1>4. ASSUME NEW c \in Caller, Grants(c, n)
      PROVE  spent'[n] >= Cost * (posted'[n] + Cardinality(Paid(n)'))
  <2>1. Cardinality(Paid(n)') = k + 1
    BY <1>4, PaidFinite, FS_AddElement DEF Grants, k
  <2>2. spent'[n] = s + Cost /\ posted'[n] = q
    BY <1>4 DEF Grants, s, q
  <2>3. q + k \in Nat
    BY <1>2
  <2>4. Cost * ((q + k) + 1) = Cost * (q + k) + Cost /\ Cost * (q + k) \in Nat
    BY <2>3, CostOfOne
  <2>5. q + (k + 1) = (q + k) + 1
    BY <1>2
  <2> QED
    BY <1>2, <2>1, <2>2, <2>4, <2>5
<1>5. ASSUME NEW c \in Caller, Settles(c, n)
      PROVE  spent'[n] >= Cost * (posted'[n] + Cardinality(Paid(n)'))
  <2> DEFINE j == Cardinality(Paid(n) \ {c})
  <2>1. Paid(n)' = Paid(n) \ {c} /\ c \in Paid(n) /\ spent'[n] >= s
        /\ posted'[n] \in {q, q + 1}
    BY <1>5 DEF Settles, s, q
  <2>2. j = k - 1
    BY <2>1, PaidFinite, FS_RemoveElement DEF k
  <2>3. j \in Nat
    <3>1. IsFiniteSet(Paid(n) \ {c})
      BY PaidFinite, FS_Subset
    <3> QED
      BY <3>1, FS_CardinalityType
  <2>4. Cardinality(Paid(n)') = j
    BY <2>1
  <2> HIDE DEF j
  <2>5. posted'[n] + j \in Nat /\ q + k \in Nat /\ posted'[n] + j <= q + k
    BY <1>2, <2>1, <2>2, <2>3
  <2>6. /\ Cost * (posted'[n] + j) \in Nat /\ Cost * (q + k) \in Nat
        /\ Cost * (posted'[n] + j) <= Cost * (q + k)
    BY <2>5, CostGrows
  <2> QED
    BY <1>2, <2>1, <2>4, <2>6
<1>6. CASE Idles
  BY <1>3, <1>6 DEF Idles
<1>7. ASSUME NEW c \in Caller, NEW m \in Name, Grants(c, m), m # n
      PROVE  spent'[n] >= Cost * (posted'[n] + Cardinality(Paid(n)'))
  <2>1. Paid(n)' = Paid(n) /\ posted'[n] = posted[n] /\ spent'[n] = spent[n]
    BY <1>7 DEF Grants
  <2> QED
    BY <1>2, <1>3, <2>1 DEF s
<1>8. ASSUME NEW c \in Caller, NEW m \in Name, Settles(c, m), m # n
      PROVE  spent'[n] >= Cost * (posted'[n] + Cardinality(Paid(n)'))
  BY <1>3, <1>8 DEF Settles
<1> QED
  BY <1>4, <1>5, <1>6, <1>7, <1>8

\* Who holds a token of n after a step in which only c moved.
LEMMA PaidAfter ==
    ASSUME NEW c \in Caller, NEW n \in Name,
           \A d \in Caller \ {c} : stage'[d] = stage[d] /\ target'[d] = target[d]
    PROVE  Paid(n)' = IF stage'[c] \in {"post", "ip", "body"} /\ target'[c] = n
                        THEN Paid(n) \cup {c} ELSE Paid(n) \ {c}
  BY DEF Paid

\* A step in which a goroutine that holds no token moves and gets none.
LEMMA UnpaidIdles ==
    ASSUME EdgeTypeOK, LimitsTypeOK, NEW c \in Caller,
           posted' = posted, \A n \in Name : spent'[n] >= spent[n],
           stage[c] \notin {"post", "ip", "body"},
           stage'[c] \notin {"post", "ip", "body"},
           \A d \in Caller \ {c} : stage'[d] = stage[d] /\ target'[d] = target[d]
    PROVE  Idles
<1>1. \A n \in Name : Paid(n)' = Paid(n) \ {c}
  BY PaidAfter
<1>2. \A n \in Name : c \notin Paid(n)
  BY DEF Paid
<1> QED
  BY <1>1, <1>2 DEF Idles

LEMMA SpentType ==
    ASSUME Inv
    PROVE  /\ spent \in [BucketKey -> Nat]
           /\ \A n \in Name : n \in BucketKey /\ spent[n] \in Nat
  BY TypeParts, Callers DEF Inv, LimitsTypeOK

\* A connection that neither posts nor asks the limiter.
LEMMA QuietIdles ==
    ASSUME Inv, NEW h \in Conn, Quiet(h), ~ FramePosted(h)
    PROVE  Idles
<1>0. EdgeTypeOK /\ LimitsTypeOK /\ h \in Caller
  BY TypeParts, Callers DEF Inv
<1>1. spent' = spent /\ posted' = posted
  BY DEF Quiet, Acquire, Accept, Hello, Verified, HandshakeFails, Refuse, Greet,
     Replay, Release, TakeFrame, RejectFrame, Answered, Break, ReadFails, limitVars
<1>2. \A n \in Name : spent'[n] >= spent[n]
  BY <1>1, SpentType
<1>3. CASE Break(h)
  <2>1. stage' = stage /\ target' = target
    BY <1>3 DEF Break
  <2> QED
    BY <1>1, <1>2, <2>1 DEF Idles, Paid
<1>4. ASSUME ~ Break(h)
      PROVE  /\ stage[h] \notin {"post", "ip", "body"}
             /\ stage'[h] \notin {"post", "ip", "body"}
             /\ \A d \in Caller \ {h} : stage'[d] = stage[d] /\ target'[d] = target[d]
  <2> USE <1>0 DEF EdgeTypeOK, Moves
  <2>1. CASE Acquire(h) \/ Accept(h) \/ Verified(h) \/ HandshakeFails(h)
    BY <2>1 DEF Acquire, Accept, Verified, HandshakeFails
  <2>2. CASE \E n \in Name : Hello(h, n)
    BY <2>2 DEF Hello
  <2>3. CASE Refuse(h) \/ Greet(h) \/ Replay(h) \/ Release(h)
    BY <2>3 DEF Refuse, Greet, Replay, Release
  <2>4. CASE \E f \in Frame : TakeFrame(h, f)
    BY <2>4 DEF TakeFrame
  <2>5. CASE \E f \in Frame : RejectFrame(h, f)
    BY <2>5 DEF RejectFrame
  <2>6. CASE Answered(h) \/ ReadFails(h)
    BY <2>6 DEF Answered, ReadFails
  <2> QED
    BY <1>4, <2>1, <2>2, <2>3, <2>4, <2>5, <2>6 DEF Quiet
<1>5. CASE ~ Break(h)
  BY <1>0, <1>1, <1>2, <1>4, <1>5, UnpaidIdles
<1> QED
  BY <1>3, <1>5

\* A goroutine whose envelope is posted, or given up.
LEMMA SettledBy ==
    ASSUME Inv, NEW c \in Caller, NEW m \in Name, NEW to,
           target[c] = m, stage[c] \in {"post", "ip", "body"},
           stage' = [stage EXCEPT ![c] = to], to \in {"read", "idle"},
           target' = [target EXCEPT ![c] = NoName],
           posted' = posted \/ posted' = [posted EXCEPT ![m] = @ + 1],
           \A n \in Name : spent'[n] >= spent[n]
    PROVE  Settles(c, m)
<1>0. EdgeTypeOK
  BY TypeParts DEF Inv
<1>1. /\ stage'[c] = to
      /\ \A d \in Caller \ {c} : stage'[d] = stage[d] /\ target'[d] = target[d]
  BY <1>0 DEF EdgeTypeOK
<1>2. \A n \in Name : Paid(n)' = Paid(n) \ {c}
  BY <1>1, PaidAfter
<1>3. c \in Paid(m) /\ \A n \in Name \ {m} : c \notin Paid(n)
  BY DEF Paid
<1>4. /\ posted'[m] \in {posted[m], posted[m] + 1}
      /\ \A n \in Name \ {m} : posted'[n] = posted[n]
  BY <1>0 DEF EdgeTypeOK
<1>5. \A n \in Name \ {m} : Paid(n)' = Paid(n)
  BY <1>2, <1>3
<1> QED
  BY <1>2, <1>3, <1>4, <1>5 DEF Settles

\* A goroutine at the first Allow of its envelope.
LEMMA LimitedBy ==
    ASSUME Inv, NEW c \in Caller, NEW m \in Name, NEW granted \in BOOLEAN, NEW to,
           Allow(c, m, granted), target[c] = m, stage[c] = "limit",
           stage' = [stage EXCEPT ![c] = to],
           granted => to \in {"post", "ip"} /\ target' = target,
           ~ granted => to \in {"answer", "idle"},
           target' = target \/ target' = [target EXCEPT ![c] = NoName],
           posted' = posted
    PROVE  Idles \/ Grants(c, m)
<1>0. EdgeTypeOK /\ LimitsTypeOK /\ RateInv /\ m \in BucketKey
  BY TypeParts, Callers DEF Inv
<1>1. /\ stage'[c] = to
      /\ \A d \in Caller \ {c} : stage'[d] = stage[d] /\ target'[d] = target[d]
  BY <1>0 DEF EdgeTypeOK
<1>2. /\ \A j \in BucketKey \ {m} : spent'[j] = spent[j]
      /\ spent'[m] = spent[m] + (IF granted THEN Cost ELSE 0)
  BY <1>0, AllowOutcome
<1>3. \A n \in Name : n \in BucketKey /\ spent[n] \in Nat
  BY SpentType
<1>4. CASE granted
  <2>1. /\ Paid(m)' = Paid(m) \cup {c} /\ c \notin Paid(m)
        /\ \A n \in Name \ {m} : Paid(n)' = Paid(n) \ {c} /\ c \notin Paid(n)
    BY <1>1, <1>4, PaidAfter DEF Paid
  <2>2. spent'[m] = spent[m] + Cost
    BY <1>2, <1>4
  <2>3. \A n \in Name \ {m} : Paid(n)' = Paid(n) /\ spent'[n] = spent[n]
    BY <1>2, <1>3, <2>1
  <2> QED
    BY <2>1, <2>2, <2>3 DEF Grants
<1>5. CASE ~ granted
  <2>1. \A n \in Name : spent'[n] >= spent[n]
    BY <1>2, <1>3, <1>5
  <2>2. stage'[c] \notin {"post", "ip", "body"}
    BY <1>1, <1>5
  <2> QED
    BY <1>0, <1>1, <2>1, <2>2, UnpaidIdles
<1> QED
  BY <1>4, <1>5

LEMMA CoveredCases ==
    ASSUME Inv, [Next]_vars
    PROVE  Idles \/ \E c \in Caller, m \in Name : Grants(c, m) \/ Settles(c, m)
<1> DEFINE Goal == Idles \/ \E c \in Caller, m \in Name : Grants(c, m) \/ Settles(c, m)
<1> SUFFICES Goal
  OBVIOUS
<1> HIDE DEF Goal
<1>0. EdgeTypeOK /\ LimitsTypeOK /\ RateInv /\ Addressed
  BY TypeParts DEF Inv
<1>s. \A n \in Name : n \in BucketKey /\ spent[n] \in Nat
  BY SpentType
<1>1. CASE UNCHANGED edgeVars /\ spent' = spent
  <2>1. stage' = stage /\ target' = target /\ posted' = posted /\ spent' = spent
    BY <1>1 DEF edgeVars
  <2>2. Idles
    BY <1>s, <2>1 DEF Idles, Paid
  <2> QED
    BY <2>2 DEF Goal
<1>2. ASSUME NEW h \in Conn, Quiet(h) PROVE Goal
  <2>1. CASE FramePosted(h)
    <3>1. h \in Caller /\ target[h] \in Name
      BY <1>0, <2>1, Callers DEF FramePosted, Moves, Addressed
    <3>2. /\ stage[h] = "post" /\ stage' = [stage EXCEPT ![h] = "read"]
          /\ target' = [target EXCEPT ![h] = NoName]
          /\ posted' = [posted EXCEPT ![target[h]] = @ + 1]
          /\ spent' = spent
      BY <2>1 DEF FramePosted, Moves, limitVars
    <3>3. \A n \in Name : spent'[n] >= spent[n]
      BY <1>s, <3>2
    <3>4. Settles(h, target[h])
      BY <3>1, <3>2, <3>3, SettledBy
    <3> QED
      BY <3>1, <3>4 DEF Goal
  <2>2. CASE ~ FramePosted(h)
    BY <1>2, <2>2, QuietIdles DEF Goal
  <2> QED
    BY <2>1, <2>2
<1>3. ASSUME NEW p \in Poster, BodyRead(p) PROVE Goal
  <2>1. p \in Caller /\ target[p] \in Name
    BY <1>0, <1>3, Callers DEF BodyRead, Moves, Addressed
  <2>2. /\ stage[p] = "body" /\ stage' = [stage EXCEPT ![p] = "idle"]
        /\ target' = [target EXCEPT ![p] = NoName]
        /\ posted' = posted \/ posted' = [posted EXCEPT ![target[p]] = @ + 1]
        /\ spent' = spent
    BY <1>3 DEF BodyRead, Moves, limitVars
  <2>3. \A n \in Name : spent'[n] >= spent[n]
    BY <1>s, <2>2
  <2>4. Settles(p, target[p])
    BY <2>1, <2>2, <2>3, SettledBy
  <2> QED
    BY <2>1, <2>4 DEF Goal
<1>4. ASSUME NEW p \in Poster, NEW n \in Name, OpenPublish(p, n) PROVE Goal
  <2>1. /\ stage[p] = "idle" /\ stage' = [stage EXCEPT ![p] = "limit"]
        /\ target' = [target EXCEPT ![p] = n]
        /\ posted' = posted /\ spent' = spent /\ p \in Caller
    BY <1>4, Callers DEF OpenPublish, Moves, limitVars
  <2>2. /\ stage'[p] = "limit" /\ \A k \in Name : spent'[k] >= spent[k]
        /\ \A d \in Caller \ {p} : stage'[d] = stage[d] /\ target'[d] = target[d]
    BY <1>0, <1>s, <2>1 DEF EdgeTypeOK
  <2>3. Idles
    BY <1>0, <2>1, <2>2, UnpaidIdles
  <2> QED
    BY <2>3 DEF Goal
<1>5. CASE \E n \in Name : Register(n)
  <2>1. stage' = stage /\ target' = target /\ posted' = posted /\ spent' = spent
    BY <1>5 DEF Register, limitVars
  <2>2. Idles
    BY <1>s, <2>1 DEF Idles, Paid
  <2> QED
    BY <2>2 DEF Goal
<1>6. ASSUME NEW c \in Caller, AllowBegins(c) PROVE Goal
  <2>1. UNCHANGED edgeVars /\ spent' = spent
    BY <1>6 DEF AllowBegins, ReadClock
  <2> QED
    BY <1>1, <2>1
<1>7. ASSUME NEW h \in Conn, NEW granted \in BOOLEAN, FrameLimited(h, granted)
      PROVE  Goal
  <2>1. h \in Caller /\ target[h] \in Name /\ name[h] = target[h]
    BY <1>0, <1>7, Callers DEF FrameLimited, Moves, Addressed
  <2>2. /\ stage[h] = "limit" /\ target' = target /\ posted' = posted
        /\ stage' = [stage EXCEPT ![h] = IF granted THEN "post" ELSE "answer"]
        /\ Allow(h, target[h], granted)
    BY <1>7, <2>1 DEF FrameLimited, Moves
  <2>3. Idles \/ Grants(h, target[h])
    BY <2>1, <2>2, LimitedBy
  <2> QED
    BY <2>1, <2>3 DEF Goal
<1>8. ASSUME NEW p \in Poster, NEW granted \in BOOLEAN, TopicLimited(p, granted)
      PROVE  Goal
  <2>1. p \in Caller /\ target[p] \in Name
    BY <1>0, <1>8, Callers DEF TopicLimited, Moves, Addressed
  <2>2. /\ stage[p] = "limit" /\ posted' = posted
        /\ target' = IF granted THEN target ELSE [target EXCEPT ![p] = NoName]
        /\ stage' = [stage EXCEPT ![p] = IF granted THEN "ip" ELSE "idle"]
        /\ Allow(p, target[p], granted)
    BY <1>8 DEF TopicLimited, Moves
  <2>3. Idles \/ Grants(p, target[p])
    BY <2>1, <2>2, LimitedBy
  <2> QED
    BY <2>1, <2>3 DEF Goal
<1>9. ASSUME NEW p \in Poster, NEW granted \in BOOLEAN, AddressLimited(p, granted)
      PROVE  Goal
  <2>1. /\ p \in Caller /\ target[p] \in Name /\ ip[p] \in BucketKey
        /\ stage[p] = "ip" /\ Allow(p, ip[p], granted) /\ posted' = posted
    BY <1>0, <1>9, Callers DEF AddressLimited, Moves, Addressed
  <2>2. /\ \A j \in BucketKey \ {ip[p]} : spent'[j] = spent[j]
        /\ spent'[ip[p]] = spent[ip[p]] + (IF granted THEN Cost ELSE 0)
    BY <1>0, <2>1, AllowOutcome
  <2>3. \A n \in Name : spent'[n] >= spent[n]
    BY <1>s, <2>2, CapacityType
  <2>4. CASE granted
    <3>1. stage' = [stage EXCEPT ![p] = "body"] /\ target' = target
      BY <1>9, <2>4 DEF AddressLimited, Moves
    <3>2. \A n \in Name : Paid(n)' = Paid(n)
      BY <1>0, <2>1, <3>1 DEF Paid, EdgeTypeOK
    <3>3. Idles
      BY <2>1, <2>3, <3>2 DEF Idles
    <3> QED
      BY <3>3 DEF Goal
  <2>5. CASE ~ granted
    <3>1. /\ stage' = [stage EXCEPT ![p] = "idle"]
          /\ target' = [target EXCEPT ![p] = NoName]
      BY <1>9, <2>5 DEF AddressLimited, Moves
    <3>2. Settles(p, target[p])
      BY <2>1, <2>3, <3>1, SettledBy
    <3> QED
      BY <2>1, <3>2 DEF Goal
  <2> QED
    BY <2>4, <2>5
<1>10. CASE Tick /\ UNCHANGED edgeVars
  <2>1. spent' = spent
    BY <1>10 DEF Tick
  <2> QED
    BY <1>1, <1>10, <2>1
<1>11. CASE UNCHANGED vars
  <2>1. UNCHANGED edgeVars /\ spent' = spent
    BY <1>11 DEF vars, limitVars
  <2> QED
    BY <1>1, <2>1
<1> QED
  BY <1>2, <1>3, <1>4, <1>5, <1>6, <1>7, <1>8, <1>9, <1>10, <1>11, StepCases

LEMMA CoveredAlways == Spec => []Covered
<1>1. Init => Covered
  <2>1. SUFFICES ASSUME Init, NEW n \in Name
                 PROVE  spent[n] >= Cost * (posted[n] + Cardinality(Paid(n)))
    BY DEF Covered
  <2>2. Paid(n) = {}
    BY <2>1 DEF Init, Paid
  <2>3. Cardinality(Paid(n)) = 0
    BY <2>2, FS_EmptySet
  <2>4. spent[n] = 0 /\ posted[n] = 0
    BY <2>1, Callers DEF Init, LimitsInit
  <2> QED
    BY <2>3, <2>4, CapacityType
<1>2. Inv /\ Covered /\ [Next]_vars => Covered'
  BY CoveredCases, CoveredStep, LimitsStep, EdgeTypeStep, TypeParts DEF Inv
<1> QED
  BY <1>1, <1>2, InvAlways, PTL DEF Spec

\* No channel is sent more than its burst and the refill since its bucket was
\* made, by readers and HTTP handlers together, in any order of their clock
\* readings and with any sharing of buckets between topics and addresses.
THEOREM PostedWithinRateHolds == Spec => []PostedWithinRate
<1>1. ASSUME Inv, Covered, NEW n \in Name, posted[n] > 0
      PROVE  posted[n] * Cost <= Capacity + (now - opened[n])
  <2>0. n \in BucketKey /\ EdgeTypeOK /\ LimitsTypeOK /\ RateInv
    BY <1>1, Callers, TypeParts DEF Inv
  <2> DEFINE k == Cardinality(Paid(n))
             q == posted[n]
  <2>1. k \in Nat /\ q \in Nat /\ q > 0 /\ spent[n] >= Cost * (q + k)
    BY <1>1, <2>0, PaidFinite DEF Covered, EdgeTypeOK
  <2>2. /\ spent[n] \in Nat /\ opened[n] \in Nat /\ now \in Nat
        /\ Capacity \in Nat /\ Cost \in Nat \ {0}
    BY <2>0, CapacityType DEF LimitsTypeOK
  <2> HIDE DEF k, q
  <2>3. /\ Cost * q \in Nat /\ Cost * (q + k) \in Nat
        /\ Cost * q <= Cost * (q + k)
    BY <2>1, CostGrows
  <2>4. Cost * 1 <= Cost * q
    BY <2>1, CostGrows
  <2>5. Cost * q = q * Cost
    BY <2>1, <2>2
  <2>6. spent[n] > 0
    BY <2>1, <2>2, <2>3, <2>4
  <2>7. buckets[n] # NoBucket
    BY <2>0, <2>2, <2>6 DEF RateInv, Fair
  <2>8. /\ buckets[n].tokens \in Nat /\ buckets[n].last \in Nat
        /\ buckets[n].last <= now
        /\ buckets[n].tokens + spent[n] <= Capacity + (buckets[n].last - opened[n])
    BY <2>0, <2>2, <2>7, BucketFields DEF RateInv, Fair
  <2>9. spent[n] <= Capacity + (now - opened[n])
    BY <2>2, <2>8
  <2>10. q * Cost <= Capacity + (now - opened[n])
    BY <2>1, <2>2, <2>3, <2>5, <2>9
  <2> QED
    BY <2>10 DEF q
<1>2. Inv /\ Covered => PostedWithinRate
  BY <1>1 DEF PostedWithinRate
<1> QED
  BY <1>2, InvAlways, CoveredAlways, PTL

LEMMA RefusedStep ==
    ASSUME Inv, [Next]_vars, NEW c \in Caller, NEW k \in BucketKey, Refused(c, k)
    PROVE  spent[k] + Cost > Capacity
<1>0. EdgeTypeOK /\ LimitsTypeOK /\ RateInv /\ Addressed
  BY TypeParts DEF Inv
<1>1. /\ reading[c] # NotCalling /\ reading'[c] = NotCalling /\ spent' = spent
      /\ k = IF stage[c] = "ip" THEN ip[c] ELSE target[c]
  BY DEF Refused
\* The step is an Allow of c that was not granted.
<1>2. ASSUME NEW d \in Caller, NEW j \in BucketKey, NEW granted \in BOOLEAN,
             Allow(d, j, granted), d = c => j = k
      PROVE  spent[k] + Cost > Capacity
  <2>1. /\ \A g \in Caller \ {d} : reading'[g] = reading[g]
        /\ spent'[j] = spent[j] + (IF granted THEN Cost ELSE 0)
        /\ ~ granted => spent[j] + Cost > Capacity
    BY <1>0, <1>2, AllowOutcome
  <2>2. d = c /\ j = k
    BY <1>1, <1>2, <2>1
  <2>3. spent[k] \in Nat /\ Cost \in Nat \ {0}
    BY <1>0, CapacityType DEF LimitsTypeOK
  <2>4. ~ granted
    BY <1>1, <2>1, <2>2, <2>3
  <2> QED
    BY <2>1, <2>2, <2>4
<1>3. ASSUME NEW h \in Conn, NEW granted \in BOOLEAN, FrameLimited(h, granted)
      PROVE  spent[k] + Cost > Capacity
  <2>1. h \in Caller /\ name[h] \in BucketKey /\ stage[h] = "limit"
        /\ name[h] = target[h] /\ Allow(h, name[h], granted)
    BY <1>0, <1>3, Callers DEF FrameLimited, Moves, Addressed
  <2>2. h = c => name[h] = k
    BY <1>1, <2>1
  <2> QED
    BY <1>2, <2>1, <2>2
<1>4. ASSUME NEW p \in Poster, NEW granted \in BOOLEAN, TopicLimited(p, granted)
      PROVE  spent[k] + Cost > Capacity
  <2>1. /\ p \in Caller /\ target[p] \in BucketKey /\ stage[p] = "limit"
        /\ Allow(p, target[p], granted)
    BY <1>0, <1>4, Callers DEF TopicLimited, Moves, Addressed
  <2>2. p = c => target[p] = k
    BY <1>1, <2>1
  <2> QED
    BY <1>2, <2>1, <2>2
<1>5. ASSUME NEW p \in Poster, NEW granted \in BOOLEAN, AddressLimited(p, granted)
      PROVE  spent[k] + Cost > Capacity
  <2>1. /\ p \in Caller /\ ip[p] \in BucketKey /\ stage[p] = "ip"
        /\ Allow(p, ip[p], granted)
    BY <1>5, Callers DEF AddressLimited, Moves
  <2>2. p = c => ip[p] = k
    BY <1>1, <2>1
  <2> QED
    BY <1>2, <2>1, <2>2
<1>6. ASSUME reading' = reading PROVE FALSE
  BY <1>1, <1>6
<1>7. CASE \E h \in Conn : Quiet(h)
  <2>1. reading' = reading
    BY <1>7 DEF Quiet, Acquire, Accept, Hello, Verified, HandshakeFails, Refuse,
                Greet, Replay, Release, TakeFrame, RejectFrame, FramePosted,
                Answered, Break, ReadFails, limitVars
  <2> QED
    BY <1>6, <2>1
<1>8. CASE \/ \E p \in Poster : BodyRead(p) \/ \E n \in Name : OpenPublish(p, n)
           \/ \E n \in Name : Register(n)
  BY <1>6, <1>8 DEF BodyRead, OpenPublish, Register, limitVars
<1>9. ASSUME NEW d \in Caller, AllowBegins(d) PROVE spent[k] + Cost > Capacity
  BY <1>0, <1>1, <1>9, ReadClockOutcome DEF AllowBegins
<1>10. CASE UNCHANGED vars \/ Tick
  BY <1>6, <1>10 DEF vars, limitVars, Tick
<1> QED
  BY <1>3, <1>4, <1>5, <1>7, <1>8, <1>9, <1>10, StepCases

\* Nobody is refused by a bucket that has not handed out its whole burst.
THEOREM RefusedAfterBurstHolds == Spec => RefusedAfterBurst
<1>1. Inv /\ [Next]_vars =>
         \A c \in Caller, k \in BucketKey :
            Refused(c, k) => spent[k] + Cost > Capacity
  BY RefusedStep
<1> QED
  BY <1>1, InvAlways, PTL DEF Spec, RefusedAfterBurst
=============================================================================
