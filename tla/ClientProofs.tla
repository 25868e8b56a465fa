---------------------------- MODULE ClientProofs ----------------------------
(***************************************************************************)
(* Theorems about Client, for any topics, texts, filter size and bounds.   *)
(*                                                                         *)
(* The argument.  A log and a stream only grow, so what is said of a       *)
(* message of either stays true (Lasting).  The duplicate filter is the    *)
(* window of the last SeenCap keys that were shown (FilterInv), and a      *)
(* frame that carries a seq is the message the stream holds under it       *)
(* (FrameInv), so what the filter rejects was shown before.  Below a       *)
(* message of a replay everything is covered or still ahead of it          *)
(* (QueueInv), because the batch is the lowest entries past the cursor:    *)
(* so a cursor that is saved, wherever it is on its way, covers what is    *)
(* below it (CursorsCovered).  And what a connection owes its topic is     *)
(* shown, on its way or left out for one of the reasons (Complete); that   *)
(* these name the cursor of the job needs a job whose connection lives on  *)
(* without it to be that of a removed topic (OwnerInv).                    *)
(***************************************************************************)
EXTENDS Client, FiniteSetTheorems, TLAPS

\* TypeOK by the groups of variables.
ChanTypeOK ==
    /\ mode \in [Topic -> {"ENCRYPTED", "PLAINTEXT", "SEALED"}]
    /\ retained \in [Topic -> BOOLEAN]
    /\ log \in [Topic -> Seq(Text)]
    /\ half \in [Topic -> SUBSET Message]
    /\ stored \in [Topic -> Seq(Message)]
    /\ kept \in [Topic -> SUBSET Message]
    /\ expired \in [Topic -> SUBSET Message]

StoreTypeOK ==
    /\ entry \in [Topic -> {"new", "listed", "removed"}]
    /\ cursor \in [Topic -> 0..MaxLog]
    /\ secret \in [Topic -> BOOLEAN]
    /\ saving \in [Topic -> SUBSET Message]

FlowTypeOK ==
    /\ dirty \in BOOLEAN
    /\ \/ snapshot = NoSnapshot
       \/ DOMAIN snapshot \subseteq Topic /\ Range(snapshot) \subseteq 0..MaxLog

LinkTypeOK ==
    /\ job \in [Topic -> {"none", "run", "backoff", "failed"}]
    /\ conn \in [Topic -> ConnStage]
    /\ after \in [Topic -> 0..MaxLog]
    /\ backlog \in [Topic -> SUBSET Message]
    /\ wire \in [Topic -> Seq(Message)]
    /\ joined \in [Topic -> SUBSET Message]
    /\ found \in [Topic -> CatchUpFound]
    /\ passed \in [Topic -> SUBSET Message]
    /\ \A t \in Topic : /\ conn[t] \notin Subscribed => wire[t] = <<>> /\ backlog[t] = {}
                        /\ job[t] \in {"backoff", "failed"} => conn[t] = "none"

FilterTypeOK ==
    /\ seen \in [Topic -> Seq(Key)]
    /\ posted \in [Topic -> Seq(Frame)]
    /\ ever \in [Topic -> SUBSET Message]
    /\ \A t \in Topic : Len(seen[t]) <= SeenCap

BoundTypeOK == drops \in 0..MaxDrops /\ restarts \in 0..MaxRestarts

LEMMA TypeParts ==
    TypeOK <=> /\ ChanTypeOK /\ StoreTypeOK /\ FlowTypeOK
               /\ LinkTypeOK /\ FilterTypeOK /\ BoundTypeOK
  BY DEF TypeOK, ChanTypeOK, StoreTypeOK, FlowTypeOK, LinkTypeOK, FilterTypeOK, BoundTypeOK

-----------------------------------------------------------------------------
(* The invariant, one topic at a time *)

\* The log is bounded; the stream and the messages with half their way to go are
\* of it, and none is appended twice.
ChanInv(t) ==
    /\ Len(log[t]) <= MaxLog
    /\ half[t] \subseteq 1 .. Len(log[t])
    /\ \A k \in 1 .. Len(stored[t]) : stored[t][k] <= Len(log[t])
    /\ mode[t] = "ENCRYPTED" => Len(stored[t]) <= Len(log[t])
    /\ mode[t] # "ENCRYPTED" => Len(stored[t]) + Cardinality(half[t]) <= Len(log[t])
    /\ kept[t] \subseteq 1 .. Len(stored[t])

\* A frame is of a message of the log; an encrypted one has no seq, and any other
\* the one its message is stored under, or none.
FrameInv(t, f) ==
    /\ f.i <= Len(log[t]) /\ f.seq <= Len(stored[t])
    /\ f.seq > 0 => mode[t] # "ENCRYPTED" /\ stored[t][f.seq] = f.i

\* What was shown since the filter was new.
PostedInv(t) ==
    /\ ever[t] \subseteq 1 .. Len(log[t])
    /\ \A k \in 1 .. Len(posted[t]) : FrameInv(t, posted[t][k]) /\ posted[t][k].i \in ever[t]

\* The filter holds the keys of the last frames shown, SeenCap of them if there
\* are that many.
FilterInv(t) ==
    /\ Len(seen[t]) <= Len(posted[t])
    /\ Len(seen[t]) \in {SeenCap, Len(posted[t])}
    /\ \A k \in 1 .. Len(seen[t]) :
          seen[t][k] = KeyOf(t, posted[t][Len(posted[t]) - Len(seen[t]) + k])

\* A key was shown again only after it had left the filter.
Spaced(t) ==
    \A a, b \in 1 .. Len(posted[t]) :
        a < b /\ KeyOf(t, posted[t][a]) = KeyOf(t, posted[t][b]) => b - a > SeenCap

\* A cursor is a position of the stream and covers what is below it.
Reaches(t, n) == n <= Len(stored[t]) /\ \A k \in 1 .. n : Covered(t, k)

\* Every cursor does, whoever holds it.
CursorsCovered(t) ==
    /\ Reaches(t, cursor[t])
    /\ \A n \in saving[t] : Reaches(t, n)
    /\ snapshot # NoSnapshot /\ t \in DOMAIN snapshot => Reaches(t, snapshot[t])
    /\ Reaches(t, after[t])

\* Below a message of the replay everything is covered or is in front of it.  A
\* catch-up has been read only by a connection that streams.
QueueInv(t) ==
    /\ \A k \in 1 .. Len(wire[t]) : wire[t][k] <= Len(log[t])
    /\ backlog[t] \subseteq 1 .. Len(stored[t])
    /\ \A m \in backlog[t] : \A k \in 1 .. m : Covered(t, k) \/ k \in backlog[t]
    /\ found[t].done => conn[t] = "streaming"
    /\ found[t].newest <= Len(stored[t])

\* A topic that is not listed yet has no job; sync ends a job, or leaves a
\* connection without one, only when the topic has been removed.
OwnerInv(t) ==
    /\ entry[t] = "new" => job[t] = "none" /\ conn[t] = "none"
    /\ snapshot # NoSnapshot =>
          /\ t \in DOMAIN snapshot => entry[t] # "new"
          /\ t \notin DOMAIN snapshot /\ job[t] # "none" => entry[t] = "removed"
    /\ job[t] = "none" /\ conn[t] # "none" =>
          /\ entry[t] = "removed"
          /\ snapshot # NoSnapshot => t \notin DOMAIN snapshot

OnWire(t, i) == \E k \in 1 .. Len(wire[t]) : wire[t][k] = i

\* Why a connection has not shown the stream's k, if it is not on its way.
LeftOut(t, k) ==
    /\ k > after[t]
    /\ \/ ~ found[t].done
       \/ k <= found[t].newest /\ BeyondBatch(t, k)
       \/ k > found[t].newest /\ (mode[t] = "ENCRYPTED" => stored[t][k] \in half[t])

Settled(t, k) ==
    \/ Shown(t, stored[t][k])
    \/ k \in passed[t]
    \/ k \in backlog[t]
    \/ OnWire(t, stored[t][k])
    \/ LeftOut(t, k)

\* What a connection owes its topic has been shown, is on its way or is left out.
Complete(t) ==
    /\ conn[t] \in Subscribed => \A i \in Aired(t) \ joined[t] : Shown(t, i) \/ OnWire(t, i)
    /\ conn[t] = "streaming" => \A k \in 1 .. Len(stored[t]) : Settled(t, k)

Inv ==
    /\ TypeOK
    /\ \A t \in Topic : /\ ChanInv(t) /\ PostedInv(t) /\ FilterInv(t) /\ Spaced(t)
                        /\ CursorsCovered(t) /\ QueueInv(t) /\ OwnerInv(t) /\ Complete(t)

-----------------------------------------------------------------------------
(* Lengths, frames, keys and the filter *)

LEMMA Bounds ==
    /\ MaxLog \in Nat /\ Batch \in Nat /\ SeenCap \in Nat /\ SeenCap >= 1
    /\ MaxDrops \in Nat /\ MaxRestarts \in Nat
  BY ClientAssumption

LEMMA FrameFields == \A f \in Frame : f.i \in 1 .. MaxLog /\ f.seq \in 0 .. MaxLog
  BY DEF Frame, Message

\* The log and the stream of a topic, with bounds to reckon with.
LEMMA Lengths ==
    ASSUME TypeOK, NEW t \in Topic, ChanInv(t)
    PROVE  /\ log[t] \in Seq(Text) /\ Len(log[t]) \in 0 .. MaxLog
           /\ stored[t] \in Seq(Message) /\ Len(stored[t]) \in 0 .. Len(log[t])
           /\ \A k \in 1 .. Len(stored[t]) : stored[t][k] \in 1 .. Len(log[t])
           /\ IsFiniteSet(half[t]) /\ Cardinality(half[t]) \in Nat
           /\ Message = 1 .. MaxLog /\ MaxLog \in Nat
<1>1. /\ log[t] \in Seq(Text) /\ stored[t] \in Seq(Message) /\ half[t] \subseteq Message
      /\ Message = 1 .. MaxLog /\ MaxLog \in Nat
  BY Bounds DEF TypeOK, Message
<1>2. IsFiniteSet(half[t])
  <2>1. MaxLog \in Int /\ 1 \in Int
    BY <1>1
  <2>2. IsFiniteSet(1 .. MaxLog)
    BY <2>1, FS_Interval
  <2>3. half[t] \in SUBSET (1 .. MaxLog)
    BY <1>1
  <2> QED
    BY <2>2, <2>3, FS_Subset
<1>3. Cardinality(half[t]) \in Nat
  BY <1>2, FS_CardinalityType
<1> DEFINE n == Len(log[t])
           s == Len(stored[t])
           c == Cardinality(half[t])
<1>4. /\ n \in Nat /\ s \in Nat /\ c \in Nat /\ n <= MaxLog /\ (s <= n \/ s + c <= n)
      /\ \A k \in 1 .. s : stored[t][k] \in 1 .. MaxLog /\ stored[t][k] <= n
  BY <1>1, <1>3 DEF ChanInv
<1> HIDE DEF n, s, c
<1>5. n \in 0 .. MaxLog /\ s \in 0 .. n /\ \A k \in 1 .. s : stored[t][k] \in 1 .. n
  BY <1>1, <1>4
<1> QED
  BY <1>1, <1>2, <1>3, <1>5 DEF n, s

\* The key of a frame of the log.
LEMMA KeyCases ==
    ASSUME TypeOK, NEW t \in Topic, ChanInv(t), NEW f \in Frame, f.i <= Len(log[t])
    PROVE  /\ KeyOf(t, f) \in Key
           /\ mode[t] = "ENCRYPTED" => KeyOf(t, f) = [kind |-> "id", n |-> f.i]
           /\ mode[t] # "ENCRYPTED" /\ f.seq > 0 =>
                 KeyOf(t, f) = [kind |-> "seq", n |-> f.seq]
           /\ mode[t] # "ENCRYPTED" /\ ~ f.seq > 0 =>
                 KeyOf(t, f) = [kind |-> "txt", text |-> log[t][f.i]]
<1>2. f.i \in 1 .. MaxLog /\ f.seq \in 0 .. MaxLog /\ MaxLog \in Nat /\ log[t] \in Seq(Text)
  BY FrameFields, Lengths
<1>3. log[t][f.i] \in Text
  BY <1>2
<1>4. /\ [kind |-> "id", n |-> f.i] \in Key
      /\ [kind |-> "txt", text |-> log[t][f.i]] \in Key
      /\ f.seq > 0 => [kind |-> "seq", n |-> f.seq] \in Key
  BY <1>2, <1>3 DEF Key, Message
<1> QED
  BY <1>4 DEF KeyOf

\* Frames with one key are of one message, or live ones of one text.
LEMMA KeyMeans ==
    ASSUME TypeOK, NEW t \in Topic, ChanInv(t),
           NEW f \in Frame, FrameInv(t, f), NEW g \in Frame, FrameInv(t, g),
           KeyOf(t, f) = KeyOf(t, g)
    PROVE  /\ f.i = g.i \/ (mode[t] # "ENCRYPTED" /\ log[t][f.i] = log[t][g.i])
           /\ f.seq > 0 => g.i = f.i
<1>1. /\ f.seq \in Nat /\ g.seq \in Nat
      /\ f.i <= Len(log[t]) /\ g.i <= Len(log[t])
  BY FrameFields DEF FrameInv
<1> DEFINE id(x) == [kind |-> "id", n |-> x]
           sq(x) == [kind |-> "seq", n |-> x]
           tx(x) == [kind |-> "txt", text |-> x]
<1>2. /\ \A x, y : id(x) = id(y) => x = y
      /\ \A x, y : sq(x) = sq(y) => x = y
      /\ \A x, y : tx(x) = tx(y) => x = y
      /\ \A x, y : sq(x) # tx(y)
  <2>1. \A x : id(x).n = x /\ sq(x).n = x /\ tx(x).text = x
    OBVIOUS
  <2>2. \A x : sq(x).kind = "seq" /\ tx(x).kind = "txt"
    OBVIOUS
  <2> QED
    BY <2>1, <2>2
<1>3. /\ mode[t] = "ENCRYPTED" => KeyOf(t, f) = id(f.i) /\ KeyOf(t, g) = id(g.i)
      /\ mode[t] # "ENCRYPTED" /\ f.seq > 0 => KeyOf(t, f) = sq(f.seq)
      /\ mode[t] # "ENCRYPTED" /\ g.seq > 0 => KeyOf(t, g) = sq(g.seq)
      /\ mode[t] # "ENCRYPTED" /\ ~ f.seq > 0 => KeyOf(t, f) = tx(log[t][f.i])
      /\ mode[t] # "ENCRYPTED" /\ ~ g.seq > 0 => KeyOf(t, g) = tx(log[t][g.i])
  BY <1>1, KeyCases
<1> HIDE DEF id, sq, tx
<1>4. CASE mode[t] = "ENCRYPTED"
  <2>1. f.i = g.i
    BY <1>2, <1>3, <1>4
  <2> QED
    BY <2>1
<1>5. CASE mode[t] # "ENCRYPTED" /\ f.seq > 0
  <2>1. g.seq > 0 /\ f.seq = g.seq
    BY <1>2, <1>3, <1>5
  <2>2. stored[t][f.seq] = f.i /\ stored[t][g.seq] = g.i
    BY <1>5, <2>1 DEF FrameInv
  <2> QED
    BY <2>1, <2>2
<1>6. CASE mode[t] # "ENCRYPTED" /\ ~ f.seq > 0
  <2>1. log[t][f.i] = log[t][g.i]
    BY <1>2, <1>3, <1>6
  <2> QED
    BY <1>6, <2>1
<1> QED
  BY <1>4, <1>5, <1>6

\* What the filter rejects was shown.
LEMMA RejectedWasShown ==
    ASSUME TypeOK, NEW t \in Topic, ChanInv(t), PostedInv(t), FilterInv(t),
           NEW f \in Frame, FrameInv(t, f), ~ FirstSeen(t, f)
    PROVE  /\ Shown(t, f.i)
           /\ f.seq > 0 \/ mode[t] = "ENCRYPTED" => f.i \in ever[t]
<1>1. seen[t] \in Seq(Key) /\ posted[t] \in Seq(Frame)
  BY DEF TypeOK
<1>2. PICK k \in 1 .. Len(seen[t]) : seen[t][k] = KeyOf(t, f)
  BY DEF FirstSeen, Contains
<1>3. PICK m \in 1 .. Len(posted[t]) : KeyOf(t, posted[t][m]) = KeyOf(t, f)
  <2> DEFINE x == Len(posted[t])
             y == Len(seen[t])
  <2>1. x \in Nat /\ y \in Nat /\ y <= x
    BY <1>1 DEF FilterInv
  <2>2. KeyOf(t, posted[t][x - y + k]) = KeyOf(t, f)
    BY <1>2 DEF FilterInv
  <2>3. k \in 1 .. y
    BY <1>2
  <2> HIDE DEF x, y
  <2>4. x - y + k \in 1 .. x
    BY <2>1, <2>3
  <2> QED
    BY <2>2, <2>4 DEF x
<1> DEFINE g == posted[t][m]
<1>4. g \in Frame
  BY <1>1, <1>3
<1>5. FrameInv(t, g) /\ g.i \in ever[t]
  BY <1>3 DEF PostedInv
<1>6. KeyOf(t, f) = KeyOf(t, g)
  BY <1>3
<1> HIDE DEF g
<1>7. /\ f.i = g.i \/ (mode[t] # "ENCRYPTED" /\ log[t][f.i] = log[t][g.i])
      /\ f.seq > 0 => g.i = f.i
  BY <1>4, <1>5, <1>6, KeyMeans
<1> QED
  BY <1>5, <1>7 DEF Shown

-----------------------------------------------------------------------------
(* What the steps of a channel do *)

Extends(q, s) == Len(s) <= Len(q) /\ \A k \in 1 .. Len(s) : q[k] = s[k]

LEMMA ExtendsSelf == ASSUME NEW S, NEW s \in Seq(S) PROVE Extends(s, s)
  BY DEF Extends

LEMMA ExtendsAppend ==
    ASSUME NEW S, NEW s \in Seq(S), NEW e \in S
    PROVE  /\ Append(s, e) \in Seq(S) /\ Len(Append(s, e)) = Len(s) + 1
           /\ Append(s, e)[Len(s) + 1] = e /\ Extends(Append(s, e), s)
  BY DEF Extends

\* The message is refused, or appended, and entries may go.
LEMMA StoreDoes ==
    ASSUME TypeOK, NEW t \in Topic, NEW i \in Message, ChanInv(t), Store(t, i),
           Len(stored[t]) + 1 <= MaxLog
    PROVE  /\ \E s \in Seq(Message) : stored' = [stored EXCEPT ![t] = s]
           /\ \E k \in SUBSET Message : kept' = [kept EXCEPT ![t] = k]
           /\ \E e \in SUBSET Message : expired' = [expired EXCEPT ![t] = e]
           /\ stored'[t] \in {stored[t], Append(stored[t], i)}
           /\ kept'[t] \subseteq 1 .. Len(stored'[t])
<1>0. /\ stored \in [Topic -> Seq(Message)] /\ kept \in [Topic -> SUBSET Message]
      /\ expired \in [Topic -> SUBSET Message] /\ stored[t] \in Seq(Message)
  BY DEF TypeOK
<1>1. CASE UNCHANGED shelfVars
  <2>1. stored' = stored /\ kept' = kept /\ expired' = expired
    BY <1>1 DEF shelfVars
  <2>2. kept[t] \subseteq 1 .. Len(stored[t])
    BY DEF ChanInv
  <2> QED
    BY <1>0, <2>1, <2>2
<1>2. CASE ~ UNCHANGED shelfVars
  <2> DEFINE n == Len(stored[t])
             entries == kept[t] \cup {n + 1}
  <2>1. PICK gone \in SUBSET entries :
            /\ stored' = [stored EXCEPT ![t] = Append(@, i)]
            /\ kept' = [kept EXCEPT ![t] = entries \ gone]
            /\ expired' = [expired EXCEPT ![t] = @ \ gone]
    BY <1>2 DEF Store
  <2>2. stored'[t] = Append(stored[t], i) /\ Len(stored'[t]) = n + 1 /\ stored'[t] \in Seq(Message)
    BY <1>0, <2>1, ExtendsAppend
  <2>3. n \in Nat /\ n + 1 <= MaxLog /\ MaxLog \in Nat
    BY Lengths
  <2>4. kept[t] \subseteq 1 .. n
    BY DEF ChanInv
  <2> HIDE DEF n
  <2>5. entries \subseteq 1 .. n + 1 /\ entries \subseteq Message
    BY <2>3, <2>4 DEF Message
  <2> HIDE DEF entries
  <2>6. kept'[t] = entries \ gone
    BY <1>0, <2>1
  <2>7. \E s \in Seq(Message) : stored' = [stored EXCEPT ![t] = s]
    BY <1>0, <2>1, <2>2
  <2>8. \E k \in SUBSET Message : kept' = [kept EXCEPT ![t] = k]
    BY <2>1, <2>5
  <2>9. \E e \in SUBSET Message : expired' = [expired EXCEPT ![t] = e]
    BY <1>0, <2>1
  <2> QED
    BY <2>2, <2>5, <2>6, <2>7, <2>8, <2>9
<1> QED
  BY <1>1, <1>2

LEMMA AirDoes ==
    ASSUME TypeOK, NEW t \in Topic, NEW i \in Message, Air(t, i)
    PROVE  /\ \E w \in Seq(Message) : wire' = [wire EXCEPT ![t] = w]
           /\ conn[t] \in Subscribed => wire'[t] = Append(wire[t], i)
           /\ conn[t] \notin Subscribed => wire'[t] = wire[t]
<1>0. wire \in [Topic -> Seq(Message)]
  BY DEF TypeOK
<1>1. CASE conn[t] \in Subscribed
  <2>1. wire' = [wire EXCEPT ![t] = Append(@, i)]
    BY <1>1 DEF Air
  <2>2. Append(wire[t], i) \in Seq(Message)
    BY <1>0
  <2> QED
    BY <1>0, <1>1, <2>1, <2>2
<1>2. CASE conn[t] \notin Subscribed
  BY <1>0, <1>2 DEF Air
<1> QED
  BY <1>1, <1>2

LEMMA BeginsDoes ==
    ASSUME TypeOK, NEW t \in Topic, NEW x \in Text, ChanInv(t), Begins(t, x)
    PROVE  /\ \E l \in Seq(Text) : log' = [log EXCEPT ![t] = l]
           /\ log'[t] = Append(log[t], x) /\ Len(log'[t]) = Len(log[t]) + 1
           /\ Extends(log'[t], log[t])
           /\ Fresh(t) \in Message /\ Fresh(t) = Len(log[t]) + 1
           /\ Fresh(t) <= MaxLog
<1>0. log \in [Topic -> Seq(Text)] /\ log[t] \in Seq(Text)
  BY DEF TypeOK
<1>1. log' = [log EXCEPT ![t] = Append(@, x)] /\ Len(log[t]) < MaxLog
  BY DEF Begins
<1>2. /\ log'[t] = Append(log[t], x) /\ Len(log'[t]) = Len(log[t]) + 1
      /\ Append(log[t], x) \in Seq(Text) /\ Extends(log'[t], log[t])
  BY <1>0, <1>1, ExtendsAppend
<1>3. Len(log[t]) \in Nat /\ Message = 1 .. MaxLog /\ MaxLog \in Nat
  BY <1>0, Lengths
<1>4. Fresh(t) = Len(log[t]) + 1 /\ Fresh(t) \in Message /\ Fresh(t) <= MaxLog
  BY <1>1, <1>3 DEF Fresh
<1> QED
  BY <1>1, <1>2, <1>4

\* The shape of a step of topic t's channel: what it may change, and how.
Channel(t) ==
    /\ UNCHANGED <<mode, retained, storeVars, flowVars, job, conn, after, backlog, joined,
                   found, passed, filterVars, boundVars>>
    /\ \E l \in Seq(Text) : log' = [log EXCEPT ![t] = l]
    /\ \E h \in SUBSET Message : half' = [half EXCEPT ![t] = h]
    /\ \E s \in Seq(Message) : stored' = [stored EXCEPT ![t] = s]
    /\ \E k \in SUBSET Message : kept' = [kept EXCEPT ![t] = k]
    /\ \E e \in SUBSET Message : expired' = [expired EXCEPT ![t] = e]
    /\ \E w \in Seq(Message) : wire' = [wire EXCEPT ![t] = w]

\* And what it makes of topic t: the log, the stream and the queue grow, and what
\* is published goes on the queue of a subscribed connection.
Grown(t) ==
    /\ ChanInv(t)'
    /\ Extends(log'[t], log[t]) /\ Extends(stored'[t], stored[t])
    /\ Extends(wire'[t], wire[t])
    /\ \A k \in 1 .. Len(wire'[t]) : k \in 1 .. Len(wire[t]) \/ wire'[t][k] <= Len(log'[t])
    /\ mode[t] = "ENCRYPTED" =>
          \A k \in 1 .. Len(stored'[t]) : k \in 1 .. Len(stored[t]) \/ stored'[t][k] \in half'[t]
    /\ conn[t] \notin Subscribed => wire'[t] = wire[t]
    /\ conn[t] \in Subscribed =>
          /\ \A i : i \in Aired(t)' => i \in Aired(t) \/ OnWire(t, i)'
          /\ mode[t] = "ENCRYPTED" => \A i \in half[t] : i \in half'[t] \/ OnWire(t, i)'

\* A queue with one more message on it.
LEMMA OnWireAppend ==
    ASSUME NEW t \in Topic, NEW i \in Message, wire[t] \in Seq(Message),
           wire'[t] = Append(wire[t], i)
    PROVE  /\ OnWire(t, i)' /\ Extends(wire'[t], wire[t])
           /\ \A k \in 1 .. Len(wire'[t]) : k \in 1 .. Len(wire[t]) \/ wire'[t][k] = i
<1> DEFINE n == Len(wire[t])
<1>1. /\ n \in Nat /\ Len(wire'[t]) = n + 1 /\ wire'[t][n + 1] = i
      /\ Extends(wire'[t], wire[t])
  BY ExtendsAppend
<1> HIDE DEF n
<1>2. n + 1 \in 1 .. n + 1 /\ \A k \in 1 .. n + 1 : k \in 1 .. n \/ k = n + 1
  BY <1>1
<1> QED
  BY <1>1, <1>2 DEF OnWire, n

LEMMA Same ==
    ASSUME TypeOK, NEW t \in Topic
    PROVE  /\ \E l \in Seq(Text) : log = [log EXCEPT ![t] = l]
           /\ \E h \in SUBSET Message : half = [half EXCEPT ![t] = h]
           /\ \E s \in Seq(Message) : stored = [stored EXCEPT ![t] = s]
           /\ \E k \in SUBSET Message : kept = [kept EXCEPT ![t] = k]
           /\ \E e \in SUBSET Message : expired = [expired EXCEPT ![t] = e]
           /\ \E w \in Seq(Message) : wire = [wire EXCEPT ![t] = w]
           /\ Extends(log[t], log[t]) /\ Extends(stored[t], stored[t])
           /\ Extends(wire[t], wire[t])
<1>1. /\ log \in [Topic -> Seq(Text)] /\ half \in [Topic -> SUBSET Message]
      /\ stored \in [Topic -> Seq(Message)] /\ kept \in [Topic -> SUBSET Message]
      /\ expired \in [Topic -> SUBSET Message] /\ wire \in [Topic -> Seq(Message)]
  BY DEF TypeOK
<1>2. /\ log[t] \in Seq(Text) /\ stored[t] \in Seq(Message) /\ wire[t] \in Seq(Message)
      /\ half[t] \in SUBSET Message /\ kept[t] \in SUBSET Message
      /\ expired[t] \in SUBSET Message
  BY <1>1
<1>3. /\ log = [log EXCEPT ![t] = log[t]] /\ half = [half EXCEPT ![t] = half[t]]
      /\ stored = [stored EXCEPT ![t] = stored[t]] /\ kept = [kept EXCEPT ![t] = kept[t]]
      /\ expired = [expired EXCEPT ![t] = expired[t]] /\ wire = [wire EXCEPT ![t] = wire[t]]
  BY <1>1
<1> QED
  BY <1>2, <1>3, ExtendsSelf

LEMMA WsAppendStep ==
    ASSUME TypeOK, NEW t \in Topic, ChanInv(t), NEW x \in Text, WsAppend(t, x)
    PROVE  Channel(t) /\ Grown(t)
<1> DEFINE n == Len(log[t])
           s == Len(stored[t])
           i == Fresh(t)
<1>1. /\ mode[t] = "ENCRYPTED" /\ Begins(t, x) /\ Store(t, i)
      /\ half' = [half EXCEPT ![t] = @ \cup {i}]
      /\ UNCHANGED <<mode, retained, storeVars, flowVars, linkVars, filterVars, boundVars>>
  BY DEF WsAppend
<1>2. /\ \E l \in Seq(Text) : log' = [log EXCEPT ![t] = l]
      /\ Len(log'[t]) = n + 1 /\ Extends(log'[t], log[t])
      /\ i \in Message /\ i = n + 1 /\ i <= MaxLog
  BY <1>1, BeginsDoes
<1>3. /\ n \in Nat /\ s \in Nat /\ s <= n /\ MaxLog \in Nat /\ n <= MaxLog
      /\ stored[t] \in Seq(Message) /\ \A k \in 1 .. s : stored[t][k] \in 1 .. n
  BY Lengths
<1>4. s + 1 <= MaxLog
  <2> HIDE DEF n, s, i
  <2> QED
    BY <1>2, <1>3
<1> HIDE DEF i
<1>5. /\ \E q \in Seq(Message) : stored' = [stored EXCEPT ![t] = q]
      /\ \E k \in SUBSET Message : kept' = [kept EXCEPT ![t] = k]
      /\ \E e \in SUBSET Message : expired' = [expired EXCEPT ![t] = e]
      /\ stored'[t] \in {stored[t], Append(stored[t], i)}
      /\ kept'[t] \subseteq 1 .. Len(stored'[t])
  BY <1>1, <1>2, <1>4, StoreDoes
<1>6. half'[t] = half[t] \cup {i} /\ half[t] \subseteq 1 .. n /\ half[t] \subseteq Message
  BY <1>1 DEF TypeOK, ChanInv
<1>7. \E h \in SUBSET Message : half' = [half EXCEPT ![t] = h]
  BY <1>1, <1>2, <1>6
<1>8. Channel(t)
  BY <1>1, <1>2, <1>5, <1>7, Same DEF Channel, linkVars, feedVars
<1>9. /\ Extends(stored'[t], stored[t]) /\ Len(stored'[t]) \in {s, s + 1}
      /\ \A k \in 1 .. Len(stored'[t]) : k \in 1 .. s \/ stored'[t][k] = i
  <2>1. CASE stored'[t] = stored[t]
    BY <1>3, <2>1, ExtendsSelf
  <2>2. CASE stored'[t] = Append(stored[t], i)
    <3>1. /\ Len(stored'[t]) = s + 1 /\ stored'[t][s + 1] = i
          /\ Extends(stored'[t], stored[t])
      BY <1>2, <1>3, <2>2, ExtendsAppend
    <3> HIDE DEF s
    <3>2. \A k \in 1 .. s + 1 : k \in 1 .. s \/ k = s + 1
      BY <1>3
    <3> QED
      BY <3>1, <3>2
  <2> QED
    BY <1>5, <2>1, <2>2
<1>10. wire' = wire /\ mode' = mode /\ conn' = conn
  BY <1>1 DEF linkVars, feedVars
<1>11. ChanInv(t)'
  <2> DEFINE z == Len(stored'[t])
  <2>1. \A k \in 1 .. s : stored'[t][k] = stored[t][k]
    BY <1>9 DEF Extends
  <2>2. z \in {s, s + 1} /\ \A k \in 1 .. z : k \in 1 .. s \/ stored'[t][k] = i
    BY <1>9
  <2>3. half'[t] \subseteq 1 .. n + 1 /\ n + 1 <= MaxLog
    <3> HIDE DEF n
    <3> QED
      BY <1>2, <1>3, <1>6
  <2> HIDE DEF n, s, z
  <2>4. z <= n + 1 /\ n <= n + 1 /\ \A m \in 1 .. n : m <= n + 1
    BY <1>3, <2>2
  <2>5. \A k \in 1 .. z : stored'[t][k] <= n + 1
    BY <1>2, <1>3, <2>1, <2>2, <2>4
  <2> QED
    BY <1>1, <1>2, <1>5, <1>10, <2>3, <2>4, <2>5 DEF ChanInv, z
<1>12. \A j : j \in Aired(t)' => j \in Aired(t)
  <2>1. Aired(t)' = 1 .. Len(log'[t]) \ half'[t] /\ Aired(t) = 1 .. n \ half[t]
    BY <1>1, <1>10 DEF Aired
  <2> HIDE DEF n
  <2>2. \A j \in 1 .. n + 1 : j \in 1 .. n \/ j = i
    BY <1>2, <1>3
  <2> QED
    BY <1>2, <1>6, <2>1, <2>2
<1> QED
  BY <1>2, <1>6, <1>8, <1>9, <1>10, <1>11, <1>12, Same DEF Grown

LEMMA WsPublishStep ==
    ASSUME TypeOK, NEW t \in Topic, ChanInv(t), NEW i, WsPublish(t, i)
    PROVE  Channel(t) /\ Grown(t)
<1>1. /\ mode[t] = "ENCRYPTED" /\ i \in half[t] /\ half' = [half EXCEPT ![t] = @ \ {i}]
      /\ Air(t, i) /\ stored' = stored /\ kept' = kept /\ expired' = expired
      /\ UNCHANGED <<mode, retained, log, storeVars, flowVars, job, conn, after, backlog,
                     joined, found, passed, filterVars, boundVars>>
  BY DEF WsPublish, Finishes, shelfVars
<1>2. half \in [Topic -> SUBSET Message] /\ wire[t] \in Seq(Message)
  BY DEF TypeOK
<1>3. i \in Message /\ half[t] \subseteq Message /\ half'[t] = half[t] \ {i}
  BY <1>1, <1>2
<1>4. /\ \E w \in Seq(Message) : wire' = [wire EXCEPT ![t] = w]
      /\ conn[t] \in Subscribed => wire'[t] = Append(wire[t], i)
      /\ conn[t] \notin Subscribed => wire'[t] = wire[t]
  BY <1>1, <1>3, AirDoes
<1>5. \E h \in SUBSET Message : half' = [half EXCEPT ![t] = h]
  BY <1>1, <1>3
<1>6. Channel(t)
  BY <1>1, <1>4, <1>5, Same DEF Channel
<1>7. i \in 1 .. Len(log[t]) /\ Len(log[t]) \in Nat
  BY <1>1, Lengths DEF ChanInv
<1>8. ChanInv(t)'
  BY <1>1, <1>3 DEF ChanInv
<1>9. /\ conn[t] \in Subscribed => OnWire(t, i)'
      /\ Extends(wire'[t], wire[t])
      /\ \A k \in 1 .. Len(wire'[t]) : k \in 1 .. Len(wire[t]) \/ wire'[t][k] = i
  <2>1. CASE conn[t] \in Subscribed
    BY <1>2, <1>3, <1>4, <2>1, OnWireAppend
  <2>2. CASE conn[t] \notin Subscribed
    BY <1>2, <1>4, <2>2, ExtendsSelf
  <2> QED
    BY <2>1, <2>2
<1>10. \A k \in 1 .. Len(wire'[t]) : k \in 1 .. Len(wire[t]) \/ wire'[t][k] <= Len(log'[t])
  BY <1>1, <1>7, <1>9
<1>11. \A j : j \in Aired(t)' => j \in Aired(t) \/ j = i
  BY <1>1, <1>3 DEF Aired
<1>12. \A k \in 1 .. Len(stored'[t]) : k \in 1 .. Len(stored[t])
  BY <1>1
<1> QED
  BY <1>1, <1>3, <1>4, <1>6, <1>8, <1>9, <1>10, <1>11, <1>12, Same DEF Grown

LEMMA PublishStep ==
    ASSUME TypeOK, NEW t \in Topic, ChanInv(t), NEW x \in Text, Publish(t, x)
    PROVE  Channel(t) /\ Grown(t)
<1> DEFINE n == Len(log[t])
<1>0. PICK i : i = Fresh(t)
  OBVIOUS
<1>1. /\ Begins(t, x) /\ Air(t, i) /\ stored' = stored /\ kept' = kept /\ expired' = expired
      /\ half' \in {half, [half EXCEPT ![t] = @ \cup {i}]}
      /\ mode[t] = "ENCRYPTED" => half' = half
      /\ UNCHANGED <<mode, retained, storeVars, flowVars, job, conn, after,
                     backlog, joined, found, passed, filterVars, boundVars>>
  BY <1>0 DEF Publish, shelfVars
<1>2. /\ \E l \in Seq(Text) : log' = [log EXCEPT ![t] = l]
      /\ Len(log'[t]) = n + 1 /\ Extends(log'[t], log[t])
      /\ i \in Message /\ i = n + 1 /\ i <= MaxLog
  BY <1>0, <1>1, BeginsDoes
<1>3. /\ n \in Nat /\ MaxLog \in Nat /\ n <= MaxLog /\ Len(stored[t]) \in 0 .. n
      /\ \A k \in 1 .. Len(stored[t]) : stored[t][k] \in 1 .. n
      /\ IsFiniteSet(half[t]) /\ Cardinality(half[t]) \in Nat
  BY Lengths
<1>4. /\ half \in [Topic -> SUBSET Message] /\ wire[t] \in Seq(Message)
      /\ half[t] \subseteq Message /\ half[t] \subseteq 1 .. n
  BY DEF TypeOK, ChanInv
<1>5. /\ \E w \in Seq(Message) : wire' = [wire EXCEPT ![t] = w]
      /\ conn[t] \in Subscribed => wire'[t] = Append(wire[t], i)
      /\ conn[t] \notin Subscribed => wire'[t] = wire[t]
  BY <1>1, <1>2, AirDoes
<1>6. half'[t] \in {half[t], half[t] \cup {i}}
  BY <1>1, <1>4
<1>7. \E h \in SUBSET Message : half' = [half EXCEPT ![t] = h]
  <2>1. CASE half' = half
    BY <2>1, Same
  <2>2. CASE half' = [half EXCEPT ![t] = @ \cup {i}]
    BY <1>2, <1>4, <2>2
  <2> QED
    BY <1>1, <2>1, <2>2
<1>8. Channel(t)
  BY <1>1, <1>2, <1>5, <1>7, Same DEF Channel
<1>9. Cardinality(half'[t]) <= Cardinality(half[t]) + 1
  <2>1. CASE half'[t] = half[t]
    BY <1>3, <2>1
  <2>2. CASE half'[t] = half[t] \cup {i}
    <3>1. Cardinality(half[t] \cup {i}) \in {Cardinality(half[t]), Cardinality(half[t]) + 1}
      BY <1>3, FS_AddElement
    <3> QED
      BY <1>3, <2>2, <3>1
  <2> QED
    BY <1>6, <2>1, <2>2
<1>10. Cardinality(half'[t]) \in Nat
  BY <1>3, <1>6, FS_AddElement, FS_CardinalityType
<1>11. ChanInv(t)'
  <2> DEFINE s == Len(stored[t])
             c == Cardinality(half[t])
             d == Cardinality(half'[t])
  <2>1. /\ mode[t] = "ENCRYPTED" => s <= n
        /\ mode[t] # "ENCRYPTED" => s + c <= n
        /\ kept[t] \subseteq 1 .. s
    BY DEF ChanInv
  <2>2. s \in Nat /\ c \in Nat /\ d \in Nat /\ d <= c + 1
    BY <1>3, <1>9, <1>10
  <2>3. \A k \in 1 .. s : stored[t][k] \in 1 .. n
    BY <1>3
  <2> HIDE DEF s, c, d, n
  <2>4. /\ mode[t] = "ENCRYPTED" => s <= n + 1
        /\ mode[t] # "ENCRYPTED" => s + d <= n + 1
        /\ half'[t] \subseteq 1 .. n + 1
        /\ \A k \in 1 .. s : stored[t][k] <= n + 1
    BY <1>2, <1>3, <1>4, <1>6, <2>1, <2>2, <2>3
  <2> QED
    BY <1>1, <1>2, <2>1, <2>4 DEF ChanInv, s, d
<1>12. /\ conn[t] \in Subscribed => OnWire(t, i)'
       /\ Extends(wire'[t], wire[t])
       /\ \A k \in 1 .. Len(wire'[t]) : k \in 1 .. Len(wire[t]) \/ wire'[t][k] = i
  <2>1. CASE conn[t] \in Subscribed
    BY <1>2, <1>4, <1>5, <2>1, OnWireAppend
  <2>2. CASE conn[t] \notin Subscribed
    BY <1>4, <1>5, <2>2, ExtendsSelf
  <2> QED
    BY <2>1, <2>2
<1>13. \A k \in 1 .. Len(wire'[t]) : k \in 1 .. Len(wire[t]) \/ wire'[t][k] <= Len(log'[t])
  <2>1. i <= Len(log'[t])
    <3> HIDE DEF n
    <3> QED
      BY <1>2, <1>3
  <2> QED
    BY <1>12, <2>1
<1>14. \A j : j \in Aired(t)' => j \in Aired(t) \/ j = i
  <2>1. \A j \in 1 .. n + 1 : j \in 1 .. n \/ j = i
    <3> HIDE DEF n
    <3> QED
      BY <1>2, <1>3
  <2> QED
    BY <1>1, <1>2, <2>1 DEF Aired
<1>15. mode[t] = "ENCRYPTED" => half'[t] = half[t]
  BY <1>1
<1>16. \A k \in 1 .. Len(stored'[t]) : k \in 1 .. Len(stored[t])
  BY <1>1
<1> QED
  BY <1>1, <1>2, <1>5, <1>8, <1>11, <1>12, <1>13, <1>14, <1>15, <1>16, Same DEF Grown

LEMMA HttpAppendStep ==
    ASSUME TypeOK, NEW t \in Topic, ChanInv(t), NEW i, HttpAppend(t, i)
    PROVE  Channel(t) /\ Grown(t)
<1> DEFINE n == Len(log[t])
           s == Len(stored[t])
           c == Cardinality(half[t])
<1>1. /\ mode[t] # "ENCRYPTED" /\ i \in half[t] /\ half' = [half EXCEPT ![t] = @ \ {i}]
      /\ Store(t, i) /\ wire' = wire
      /\ UNCHANGED <<mode, retained, log, storeVars, flowVars, job, conn, after, backlog,
                     joined, found, passed, filterVars, boundVars>>
  BY DEF HttpAppend, Finishes
<1>2. half \in [Topic -> SUBSET Message]
  BY DEF TypeOK
<1>3. i \in Message /\ half[t] \subseteq Message /\ half'[t] = half[t] \ {i}
  BY <1>1, <1>2
<1>4. /\ n \in Nat /\ s \in Nat /\ MaxLog \in Nat /\ n <= MaxLog /\ c \in Nat
      /\ stored[t] \in Seq(Message) /\ \A k \in 1 .. s : stored[t][k] \in 1 .. n
      /\ IsFiniteSet(half[t]) /\ i \in 1 .. n /\ s + c <= n
  BY <1>1, Lengths DEF ChanInv
<1>5. Cardinality(half'[t]) = c - 1 /\ Cardinality(half'[t]) \in Nat
  <2>1. Cardinality(half'[t]) = c - 1 /\ IsFiniteSet(half'[t])
    BY <1>1, <1>3, <1>4, FS_RemoveElement
  <2> QED
    BY <2>1, FS_CardinalityType
<1>6. s + 1 <= MaxLog
  <2> HIDE DEF n, s, c
  <2> QED
    BY <1>4, <1>5
<1>7. /\ \E q \in Seq(Message) : stored' = [stored EXCEPT ![t] = q]
      /\ \E k \in SUBSET Message : kept' = [kept EXCEPT ![t] = k]
      /\ \E e \in SUBSET Message : expired' = [expired EXCEPT ![t] = e]
      /\ stored'[t] \in {stored[t], Append(stored[t], i)}
      /\ kept'[t] \subseteq 1 .. Len(stored'[t])
  BY <1>1, <1>3, <1>6, StoreDoes
<1>8. \E h \in SUBSET Message : half' = [half EXCEPT ![t] = h]
  BY <1>1, <1>3
<1>9. Channel(t)
  BY <1>1, <1>7, <1>8, Same DEF Channel
<1>10. /\ Extends(stored'[t], stored[t]) /\ Len(stored'[t]) \in {s, s + 1}
       /\ \A k \in 1 .. Len(stored'[t]) : k \in 1 .. s \/ stored'[t][k] = i
  <2>1. CASE stored'[t] = stored[t]
    BY <1>4, <2>1, ExtendsSelf
  <2>2. CASE stored'[t] = Append(stored[t], i)
    <3>1. /\ Len(stored'[t]) = s + 1 /\ stored'[t][s + 1] = i
          /\ Extends(stored'[t], stored[t])
      BY <1>3, <1>4, <2>2, ExtendsAppend
    <3> HIDE DEF s
    <3>2. \A k \in 1 .. s + 1 : k \in 1 .. s \/ k = s + 1
      BY <1>4
    <3> QED
      BY <3>1, <3>2
  <2> QED
    BY <1>7, <2>1, <2>2
<1>11. ChanInv(t)'
  <2> DEFINE z == Len(stored'[t])
             d == Cardinality(half'[t])
  <2>1. \A k \in 1 .. s : stored'[t][k] = stored[t][k]
    BY <1>10 DEF Extends
  <2>2. z \in {s, s + 1} /\ \A k \in 1 .. z : k \in 1 .. s \/ stored'[t][k] = i
    BY <1>10
  <2>3. d = c - 1 /\ d \in Nat
    BY <1>5
  <2>4. half'[t] \subseteq 1 .. n
    BY <1>3 DEF ChanInv
  <2> HIDE DEF n, s, c, z, d
  <2>5. z + d <= n
    BY <1>4, <2>2, <2>3
  <2>6. \A m \in 1 .. n : m <= n
    BY <1>4
  <2>7. \A k \in 1 .. z : stored'[t][k] <= n
    BY <1>4, <2>1, <2>2, <2>6
  <2> QED
    BY <1>1, <1>4, <1>7, <2>4, <2>5, <2>7 DEF ChanInv, z, d, n
<1>12. \A j : j \in Aired(t)' => j \in Aired(t)
  BY <1>1 DEF Aired
<1> QED
  BY <1>1, <1>9, <1>10, <1>11, <1>12, Same DEF Grown

LEMMA ExpireStep ==
    ASSUME TypeOK, NEW t \in Topic, ChanInv(t), NEW k, Expire(t, k) \/ Sweep(t, k), k \in kept[t]
    PROVE  Channel(t) /\ Grown(t)
<1>1. /\ kept' \in {kept, [kept EXCEPT ![t] = @ \ {k}]}
      /\ expired' \in {[expired EXCEPT ![t] = @ \cup {k}], [expired EXCEPT ![t] = @ \ {k}]}
      /\ UNCHANGED <<mode, retained, log, half, stored, storeVars, flowVars, linkVars,
                     filterVars, boundVars>>
  BY DEF Expire, Sweep
<1>2. /\ kept \in [Topic -> SUBSET Message] /\ expired \in [Topic -> SUBSET Message]
      /\ k \in Message
  BY DEF TypeOK
<1>3. \E s \in SUBSET Message : kept' = [kept EXCEPT ![t] = s]
  BY <1>1, <1>2, Same
<1>4. \E s \in SUBSET Message : expired' = [expired EXCEPT ![t] = s]
  <2>1. expired[t] \cup {k} \in SUBSET Message /\ expired[t] \ {k} \in SUBSET Message
    BY <1>2
  <2> QED
    BY <1>1, <1>2, <2>1
<1>5. Channel(t)
  BY <1>1, <1>3, <1>4, Same DEF Channel, linkVars, feedVars
<1>6. kept'[t] \subseteq kept[t]
  BY <1>1, <1>2
<1>7. ChanInv(t)'
  BY <1>1, <1>6 DEF ChanInv
<1>8. wire' = wire /\ (\A j : j \in Aired(t)' => j \in Aired(t))
  BY <1>1 DEF Aired, linkVars, feedVars
<1>9. \A j \in 1 .. Len(stored'[t]) : j \in 1 .. Len(stored[t])
  BY <1>1
<1> QED
  BY <1>1, <1>5, <1>7, <1>8, <1>9, Same DEF Grown

LEMMA ChannelSteps ==
    ASSUME TypeOK, NEW t \in Topic, ChanInv(t), ChannelStep(t)
    PROVE  Channel(t) /\ Grown(t)
  BY WsAppendStep, WsPublishStep, PublishStep, HttpAppendStep, ExpireStep DEF ChannelStep

-----------------------------------------------------------------------------
(* Type correctness *)

LEMMA StepCases ==
    ASSUME [Next]_vars
    PROVE  \/ \E t \in Topic : ChannelStep(t)
           \/ \E t \in Topic : UserStep(t) \/ SaveCursor(t)
           \/ \E t \in Topic : JobStep(t) \/ Answer(t) \/ Accept(t) \/ Refuse(t) \/ Drop(t)
           \/ \E t \in Topic : CatchUp(t) \/ NoReplay(t)
           \/ \E t \in Topic : Receive(t)
           \/ Collect \/ Sync \/ Restart
           \/ UNCHANGED vars
  BY DEF Next, BrokerStep

\* What the steps of the user, of the jobs and of the broker leave alone.
LEMMA Elsewhere ==
    ASSUME TypeOK, NEW t \in Topic
    PROVE  /\ UserStep(t) \/ SaveCursor(t) =>
                 UNCHANGED <<chanVars, linkVars, filterVars, boundVars, snapshot>>
           /\ JobStep(t) \/ Answer(t) \/ Accept(t) \/ Refuse(t) \/ CatchUp(t) \/ NoReplay(t) =>
                 UNCHANGED <<chanVars, storeVars, flowVars, filterVars, boundVars>>
           /\ Drop(t) => UNCHANGED <<chanVars, storeVars, flowVars, filterVars, restarts>>
           /\ Receive(t) => UNCHANGED <<chanVars, entry, cursor, secret, flowVars, job, conn,
                                        after, joined, found, passed, boundVars>>
<1>1. UserStep(t) \/ SaveCursor(t) =>
          UNCHANGED <<chanVars, linkVars, filterVars, boundVars, snapshot>>
  BY DEF UserStep, AddTopic, RemoveTopic, RemoveSecret, SaveCursor, flowVars
<1>2. JobStep(t) => UNCHANGED <<chanVars, storeVars, flowVars, filterVars, boundVars>>
  BY DEF JobStep, Make, NoSecret, Keep, Dial, BackOff, Retry, Moves
<1>3. Answer(t) \/ Accept(t) \/ Refuse(t) \/ CatchUp(t) \/ NoReplay(t) =>
          UNCHANGED <<chanVars, storeVars, flowVars, filterVars, boundVars>>
  BY DEF Answer, Accept, Refuse, CatchUp, NoReplay, Moves
<1>4. Drop(t) => UNCHANGED <<chanVars, storeVars, flowVars, filterVars, restarts>>
  BY DEF Drop
<1>5. Receive(t) => UNCHANGED <<chanVars, entry, cursor, secret, flowVars, job, conn,
                                after, joined, found, passed, boundVars>>
  BY DEF Receive, ReceiveReplay, ReceiveLive, Shows
<1> QED
  BY <1>1, <1>2, <1>3, <1>4, <1>5

\* The channels: only their own steps change them.
LEMMA ChanStep ==
    ASSUME Inv, [Next]_vars
    PROVE  ChanTypeOK' /\ \A u \in Topic : ChanInv(u)'
<1>0. ChanTypeOK /\ TypeOK /\ \A u \in Topic : ChanInv(u)
  BY TypeParts DEF Inv
<1>1. ASSUME NEW t \in Topic, ChannelStep(t)
      PROVE  ChanTypeOK' /\ \A u \in Topic : ChanInv(u)'
  <2>1. Channel(t) /\ ChanInv(t)'
    BY <1>0, <1>1, ChannelSteps DEF Grown
  <2>2. ChanTypeOK'
    BY <1>0, <2>1 DEF Channel, ChanTypeOK
  <2>3. ASSUME NEW u \in Topic, u # t PROVE ChanInv(u)'
    <3>1. /\ mode' = mode /\ log'[u] = log[u] /\ half'[u] = half[u]
          /\ stored'[u] = stored[u] /\ kept'[u] = kept[u]
      BY <1>0, <2>1, <2>3 DEF Channel, ChanTypeOK
    <3> QED
      BY <1>0, <3>1 DEF ChanInv
  <2> QED
    BY <2>1, <2>2, <2>3
<1>2. ASSUME UNCHANGED chanVars PROVE ChanTypeOK' /\ \A u \in Topic : ChanInv(u)'
  BY <1>0, <1>2 DEF chanVars, shelfVars, ChanTypeOK, ChanInv
<1> QED
  BY <1>0, <1>1, <1>2, Elsewhere, StepCases DEF Collect, Sync, Restart, vars

\* The frame a connection is handed, and where it comes from.
LEMMA ReceiveDoes ==
    ASSUME TypeOK, NEW t \in Topic, ChanInv(t), QueueInv(t), Receive(t)
    PROVE  /\ conn[t] = "streaming"
           /\ \E f \in Frame :
                 /\ FrameInv(t, f) /\ f.i \in 1 .. Len(log[t]) /\ Shows(t, f)
                 /\ \/ /\ wire' = wire
                       /\ \E k \in backlog[t] :
                             /\ \A j \in backlog[t] : k <= j
                             /\ backlog' = [backlog EXCEPT ![t] = @ \ {k}]
                             /\ f.i = stored[t][k]
                             /\ f.seq = IF mode[t] = "ENCRYPTED" THEN 0 ELSE k
                    \/ /\ backlog' = backlog /\ backlog[t] = {} /\ wire[t] # <<>>
                       /\ wire' = [wire EXCEPT ![t] = Tail(@)]
                       /\ f.i = Head(wire[t]) /\ f.seq = 0
<1>0. /\ wire[t] \in Seq(Message) /\ Message = 1 .. MaxLog /\ MaxLog \in Nat
      /\ Len(log[t]) \in 0 .. MaxLog /\ Len(stored[t]) \in 0 .. Len(log[t])
      /\ \A k \in 1 .. Len(stored[t]) : stored[t][k] \in 1 .. Len(log[t])
  BY Lengths DEF TypeOK
<1>1. ASSUME NEW k \in backlog[t], ReceiveReplay(t, k)
      PROVE  \E f \in Frame :
                 /\ FrameInv(t, f) /\ f.i \in 1 .. Len(log[t]) /\ Shows(t, f)
                 /\ wire' = wire
                 /\ \A j \in backlog[t] : k <= j
                 /\ backlog' = [backlog EXCEPT ![t] = @ \ {k}]
                 /\ f.i = stored[t][k]
                 /\ f.seq = IF mode[t] = "ENCRYPTED" THEN 0 ELSE k
  <2> DEFINE f == [i |-> stored[t][k], seq |-> IF mode[t] = "ENCRYPTED" THEN 0 ELSE k]
  <2>1. /\ Shows(t, f) /\ wire' = wire /\ \A j \in backlog[t] : k <= j
        /\ backlog' = [backlog EXCEPT ![t] = @ \ {k}]
    BY <1>1 DEF ReceiveReplay
  <2>2. k \in 1 .. Len(stored[t]) /\ stored[t][k] \in 1 .. Len(log[t])
    BY <1>0 DEF QueueInv
  <2>3. f \in Frame
    BY <1>0, <2>2 DEF Frame
  <2>4. FrameInv(t, f)
    BY <1>0, <2>2 DEF FrameInv
  <2> QED
    BY <2>1, <2>2, <2>3, <2>4
<1>2. ASSUME ReceiveLive(t)
      PROVE  \E f \in Frame :
                 /\ FrameInv(t, f) /\ f.i \in 1 .. Len(log[t]) /\ Shows(t, f)
                 /\ backlog' = backlog /\ backlog[t] = {} /\ wire[t] # <<>>
                 /\ wire' = [wire EXCEPT ![t] = Tail(@)]
                 /\ f.i = Head(wire[t]) /\ f.seq = 0
  <2> DEFINE f == [i |-> Head(wire[t]), seq |-> 0]
  <2>1. /\ Shows(t, f) /\ backlog' = backlog /\ backlog[t] = {} /\ wire[t] # <<>>
        /\ wire' = [wire EXCEPT ![t] = Tail(@)]
    BY <1>2 DEF ReceiveLive
  <2>2. Head(wire[t]) = wire[t][1] /\ 1 \in 1 .. Len(wire[t])
    BY <1>0, <2>1
  <2>3. Head(wire[t]) \in Message /\ Head(wire[t]) <= Len(log[t])
    BY <1>0, <2>1, <2>2 DEF QueueInv
  <2>4. f \in Frame /\ f.i \in 1 .. Len(log[t])
    BY <1>0, <2>3 DEF Frame
  <2>5. FrameInv(t, f)
    BY <1>0, <2>3 DEF FrameInv
  <2> QED
    BY <2>1, <2>4, <2>5
<1>3. conn[t] = "streaming"
  BY DEF Receive, ReceiveReplay, ReceiveLive
<1>4. CASE \E k \in backlog[t] : ReceiveReplay(t, k)
  BY <1>1, <1>3, <1>4
<1>5. CASE ReceiveLive(t)
  BY <1>2, <1>3, <1>5
<1> QED
  BY <1>4, <1>5 DEF Receive

\* The topic list: its edits, the saves and what a connection launches.
LEMMA StoreStep == ASSUME Inv, [Next]_vars PROVE StoreTypeOK'
<1>0. StoreTypeOK /\ ChanTypeOK /\ TypeOK
  BY TypeParts DEF Inv
<1>1. ASSUME NEW t \in Topic, UserStep(t) PROVE StoreTypeOK'
  BY <1>0, <1>1 DEF UserStep, AddTopic, RemoveTopic, RemoveSecret, StoreTypeOK, ChanTypeOK
<1>2. ASSUME NEW t \in Topic, SaveCursor(t) PROVE StoreTypeOK'
  <2>1. PICK n \in saving[t] :
              /\ saving' = [saving EXCEPT ![t] = @ \ {n}]
              /\ \/ cursor' = [cursor EXCEPT ![t] = n]
                 \/ cursor' = cursor
              /\ entry' = entry /\ secret' = secret
    BY <1>2 DEF SaveCursor
  <2>2. n \in Message /\ n \in 0 .. MaxLog
    BY <1>0, Bounds DEF StoreTypeOK, Message
  <2> QED
    BY <1>0, <2>1, <2>2 DEF StoreTypeOK
<1>3. ASSUME NEW t \in Topic, Receive(t) PROVE StoreTypeOK'
  <2>1. PICK f \in Frame : Shows(t, f)
    BY <1>0, <1>3, ReceiveDoes DEF Inv
  <2>2. /\ entry' = entry /\ cursor' = cursor /\ secret' = secret
        /\ \/ saving' = [saving EXCEPT ![t] = @ \cup ({f.seq} \ {0})]
           \/ saving' = saving
    BY <2>1 DEF Shows
  <2>3. {f.seq} \ {0} \subseteq Message
    BY <2>1, FrameFields, Bounds DEF Message
  <2> QED
    BY <1>0, <2>2, <2>3 DEF StoreTypeOK
<1>4. CASE Restart
  BY <1>0, <1>4 DEF Restart, StoreTypeOK
<1>5. ASSUME UNCHANGED storeVars PROVE StoreTypeOK'
  BY <1>0, <1>5 DEF storeVars, StoreTypeOK
<1>6. ASSUME NEW t \in Topic, ChannelStep(t) PROVE UNCHANGED storeVars
  BY <1>0, <1>6, ChannelSteps DEF Channel, Inv
<1> QED
  BY <1>0, <1>1, <1>2, <1>3, <1>4, <1>5, <1>6, Elsewhere, StepCases DEF Collect, Sync, vars

LEMMA FlowStep == ASSUME Inv, [Next]_vars PROVE FlowTypeOK'
<1>0. FlowTypeOK /\ StoreTypeOK /\ TypeOK
  BY TypeParts DEF Inv
<1>1. CASE Collect
  <2>1. /\ dirty' = FALSE
        /\ snapshot' = [t \in {u \in Topic : entry[u] = "listed"} |-> cursor[t]]
    BY <1>1 DEF Collect
  <2>2. cursor \in [Topic -> 0..MaxLog]
    BY <1>0 DEF StoreTypeOK
  <2>3. DOMAIN snapshot' = {u \in Topic : entry[u] = "listed"}
    BY <2>1
  <2>4. \A t \in DOMAIN snapshot' : snapshot'[t] \in 0..MaxLog
    BY <2>1, <2>2, <2>3
  <2>5. DOMAIN snapshot' \subseteq Topic
    BY <2>3
  <2>6. Range(snapshot') \subseteq 0..MaxLog
    BY <2>4 DEF Range
  <2>7. dirty' \in BOOLEAN
    BY <2>1
  <2> QED
    BY <2>5, <2>6, <2>7 DEF FlowTypeOK
<1>2. CASE Sync \/ Restart
  BY <1>0, <1>2 DEF Sync, Restart, FlowTypeOK
<1>3. ASSUME snapshot' = snapshot, dirty' \in {TRUE, dirty} PROVE FlowTypeOK'
  BY <1>0, <1>3 DEF FlowTypeOK
<1>4. ASSUME NEW t \in Topic, UserStep(t) \/ SaveCursor(t)
      PROVE  snapshot' = snapshot /\ dirty' \in {TRUE, dirty}
  BY <1>4 DEF UserStep, AddTopic, RemoveTopic, RemoveSecret, SaveCursor, flowVars
<1>5. ASSUME UNCHANGED flowVars PROVE snapshot' = snapshot /\ dirty' \in {TRUE, dirty}
  BY <1>5 DEF flowVars
<1>6. ASSUME NEW t \in Topic, ChannelStep(t) PROVE UNCHANGED flowVars
  BY <1>0, <1>6, ChannelSteps DEF Channel, Inv
<1> QED
  BY <1>0, <1>1, <1>2, <1>3, <1>4, <1>5, <1>6, Elsewhere, StepCases DEF vars

LEMMA BoundStep == ASSUME Inv, [Next]_vars PROVE BoundTypeOK'
<1>0. BoundTypeOK /\ {MaxDrops, MaxRestarts} \subseteq Nat /\ TypeOK
  BY TypeParts, ClientAssumption DEF Inv
<1>1. ASSUME NEW t \in Topic, Drop(t) PROVE BoundTypeOK'
  BY <1>0, <1>1 DEF Drop, BoundTypeOK
<1>2. CASE Restart
  BY <1>0, <1>2 DEF Restart, BoundTypeOK
<1>3. ASSUME UNCHANGED boundVars PROVE BoundTypeOK'
  BY <1>0, <1>3 DEF boundVars, BoundTypeOK
<1>4. ASSUME NEW t \in Topic, ChannelStep(t) PROVE UNCHANGED boundVars
  BY <1>0, <1>4, ChannelSteps DEF Channel, Inv
<1> QED
  BY <1>0, <1>1, <1>2, <1>3, <1>4, Elsewhere, StepCases DEF Collect, Sync, vars

\* The job and the connection of one topic move; what is on its way stays.
LEMMA MoveDoes ==
    ASSUME TypeOK, NEW t \in Topic, JobStep(t) \/ Answer(t) \/ Refuse(t)
    PROVE  /\ UNCHANGED <<after, feedVars, passed>>
           /\ \E j \in {"none", "run", "backoff", "failed"}, c \in ConnStage \ Subscribed :
                 /\ job' = [job EXCEPT ![t] = j] /\ conn' = [conn EXCEPT ![t] = c]
                 /\ j \in {"backoff", "failed"} => c = "none"
                 /\ j = "none" => job[t] = "none" /\ conn[t] # "none"
           /\ conn[t] \notin Subscribed
           /\ job[t] = "none" => conn[t] # "none"
<1>0. /\ job \in [Topic -> {"none", "run", "backoff", "failed"}]
      /\ conn \in [Topic -> ConnStage]
      /\ job[t] \in {"backoff", "failed"} => conn[t] = "none"
  BY DEF TypeOK
<1>1. CASE Make(t)
  BY <1>0, <1>1 DEF Make, Moves, Subscribed, ConnStage
<1>2. CASE Keep(t) \/ Dial(t) \/ Answer(t)
  <2>1. PICK c \in {"kept", "dialing", "answered"} : conn' = [conn EXCEPT ![t] = c]
    BY <1>2 DEF Keep, Dial, Answer, Moves
  <2>2. job' = [job EXCEPT ![t] = job[t]] /\ UNCHANGED <<after, feedVars, passed>>
    BY <1>0, <1>2 DEF Keep, Dial, Answer
  <2>3. conn[t] \in {"made", "kept", "dialing"}
    BY <1>2 DEF Keep, Dial, Answer, Moves
  <2> QED
    BY <1>0, <2>1, <2>2, <2>3 DEF Subscribed, ConnStage
<1>3. CASE NoSecret(t) \/ Retry(t)
  <2>1. /\ conn[t] = "none" /\ UNCHANGED <<conn, after, feedVars, passed>>
        /\ job[t] # "none" /\ \E j \in {"run", "failed"} : job' = [job EXCEPT ![t] = j]
    BY <1>0, <1>3 DEF NoSecret, Retry
  <2>2. conn' = [conn EXCEPT ![t] = "none"]
    BY <1>0, <2>1
  <2> QED
    BY <2>1, <2>2 DEF Subscribed, ConnStage
<1>4. CASE BackOff(t)
  BY <1>0, <1>4 DEF BackOff, Moves, Subscribed, ConnStage
<1>5. CASE Refuse(t)
  <2>1. /\ conn[t] \in {"answered", "dialing"} /\ conn' = [conn EXCEPT ![t] = "none"]
        /\ UNCHANGED <<after, feedVars, passed>>
        /\ job' = [job EXCEPT ![t] = IF @ = "run" THEN "failed" ELSE @]
    BY <1>5 DEF Refuse, Moves
  <2> QED
    BY <1>0, <2>1 DEF Subscribed, ConnStage
<1> QED
  BY <1>1, <1>2, <1>3, <1>4, <1>5 DEF JobStep

LEMMA WindowIsKept == ASSUME NEW t PROVE Window(t) \subseteq {k \in kept[t] : k > after[t]}
  BY DEF Window, Lowest

\* The jobs and the connections: nothing is on its way unless it is subscribed,
\* and a job that waits or failed has no connection.
LEMMA LinkStep == ASSUME Inv, [Next]_vars PROVE LinkTypeOK'
<1>0. LinkTypeOK /\ FlowTypeOK /\ ChanTypeOK /\ TypeOK
  BY TypeParts DEF Inv
<1>1. ASSUME NEW t \in Topic, ChannelStep(t) PROVE LinkTypeOK'
  <2>1. Channel(t) /\ (conn[t] \notin Subscribed => wire'[t] = wire[t])
    BY <1>0, <1>1, ChannelSteps DEF Inv, Grown
  <2>2. UNCHANGED <<job, conn, after, backlog, joined, found, passed>>
    BY <2>1 DEF Channel
  <2>3. PICK w \in Seq(Message) : wire' = [wire EXCEPT ![t] = w]
    BY <2>1 DEF Channel
  <2>4. \A u \in Topic : conn[u] \notin Subscribed => wire'[u] = wire[u]
    BY <1>0, <2>1, <2>3 DEF LinkTypeOK
  <2> QED
    BY <1>0, <2>2, <2>3, <2>4 DEF LinkTypeOK
<1>2. ASSUME NEW t \in Topic, JobStep(t) \/ Answer(t) \/ Refuse(t) PROVE LinkTypeOK'
  <2>1. UNCHANGED <<after, backlog, wire, joined, found, passed>> /\ conn[t] \notin Subscribed
    BY <1>0, <1>2, MoveDoes DEF feedVars
  <2>2. PICK j \in {"none", "run", "backoff", "failed"}, c \in ConnStage \ Subscribed :
            /\ job' = [job EXCEPT ![t] = j] /\ conn' = [conn EXCEPT ![t] = c]
            /\ j \in {"backoff", "failed"} => c = "none"
    BY <1>0, <1>2, MoveDoes
  <2> QED
    BY <1>0, <2>1, <2>2 DEF LinkTypeOK
<1>3. ASSUME NEW t \in Topic, Accept(t) PROVE LinkTypeOK'
  <2>1. /\ conn[t] \in {"answered", "dialing"}
        /\ conn' = [conn EXCEPT ![t] = "subscribed"]
        /\ joined' = [joined EXCEPT ![t] = Aired(t)]
        /\ UNCHANGED <<job, after, backlog, wire, found, passed>>
    BY <1>3 DEF Accept, Moves
  <2>2. Aired(t) \subseteq Message
    <3>1. Len(log[t]) \in 0 .. MaxLog /\ Message = 1 .. MaxLog /\ MaxLog \in Nat
      BY <1>0, Lengths DEF Inv
    <3>2. Aired(t) \subseteq 1 .. Len(log[t])
      BY DEF Aired
    <3> QED
      BY <3>1, <3>2
  <2>3. /\ "subscribed" \in ConnStage /\ "subscribed" \in Subscribed
        /\ {"answered", "dialing"} \cap Subscribed = {}
    BY DEF ConnStage, Subscribed
  <2> QED
    BY <1>0, <2>1, <2>2, <2>3 DEF LinkTypeOK
<1>4. ASSUME NEW t \in Topic, CatchUp(t) \/ NoReplay(t) PROVE LinkTypeOK'
  <2>1. /\ conn[t] = "subscribed"
        /\ conn' = [conn EXCEPT ![t] = "streaming"]
        /\ UNCHANGED <<job, after, wire, joined>>
    BY <1>4 DEF CatchUp, NoReplay, Moves, feedVars
  <2>2. /\ Len(stored[t]) \in Nat /\ Len(stored[t]) \in 0 .. MaxLog
        /\ Message = 1 .. MaxLog /\ MaxLog \in Nat
        /\ kept[t] \subseteq Message /\ after[t] \in Nat
    <3>1. /\ Len(stored[t]) \in 0 .. Len(log[t]) /\ Len(log[t]) \in 0 .. MaxLog
          /\ MaxLog \in Nat /\ Message = 1 .. MaxLog
      BY <1>0, Lengths DEF Inv
    <3>2. kept[t] \subseteq Message /\ after[t] \in 0 .. MaxLog
      BY <1>0 DEF ChanTypeOK, LinkTypeOK
    <3> QED
      BY <3>1, <3>2
  <2>3. /\ \/ backlog' = [backlog EXCEPT ![t] = Window(t) \ expired[t]]
           \/ backlog' = backlog
        /\ \/ found' = [found EXCEPT ![t] = [done |-> TRUE, kept |-> kept[t],
                                             newest |-> Len(stored[t])]]
           \/ found' = found
        /\ \/ passed' = [passed EXCEPT ![t] = @ \cup
                     ((after[t] + 1 .. Len(stored[t])) \ (kept[t] \ expired[t]))]
           \/ passed' = passed
    BY <1>4 DEF CatchUp, NoReplay, feedVars
  <2>4. /\ Window(t) \ expired[t] \subseteq Message
        /\ [done |-> TRUE, kept |-> kept[t], newest |-> Len(stored[t])] \in CatchUpFound
        /\ ((after[t] + 1 .. Len(stored[t])) \ (kept[t] \ expired[t])) \subseteq Message
    <3>1. Window(t) \ expired[t] \subseteq Message
      BY <2>2, WindowIsKept
    <3>2. [done |-> TRUE, kept |-> kept[t], newest |-> Len(stored[t])] \in CatchUpFound
      BY <2>2 DEF CatchUpFound
    <3>3. (after[t] + 1 .. Len(stored[t])) \subseteq Message
      BY <2>2
    <3> QED
      BY <3>1, <3>2, <3>3
  <2>5. "streaming" \in ConnStage /\ "streaming" \in Subscribed
    BY DEF ConnStage, Subscribed
  <2>6. /\ backlog' \in [Topic -> SUBSET Message] /\ found' \in [Topic -> CatchUpFound]
        /\ passed' \in [Topic -> SUBSET Message]
        /\ \A u \in Topic \ {t} : backlog'[u] = backlog[u]
    BY <1>0, <2>3, <2>4 DEF LinkTypeOK
  <2> QED
    BY <1>0, <2>1, <2>5, <2>6 DEF LinkTypeOK
<1>5. ASSUME NEW S \in SUBSET Topic, Cut(S)
      PROVE  /\ backlog' \in [Topic -> SUBSET Message] /\ wire' \in [Topic -> Seq(Message)]
             /\ joined' \in [Topic -> SUBSET Message] /\ found' \in [Topic -> CatchUpFound]
             /\ \A u \in S : wire'[u] = <<>> /\ backlog'[u] = {}
             /\ \A u \in Topic \ S : wire'[u] = wire[u] /\ backlog'[u] = backlog[u]
  <2>1. NoCatchUp \in CatchUpFound /\ <<>> \in Seq(Message)
    BY Bounds DEF NoCatchUp, CatchUpFound
  <2> QED
    BY <1>0, <1>5, <2>1 DEF Cut, LinkTypeOK
<1>6. ASSUME NEW t \in Topic, Drop(t) PROVE LinkTypeOK'
  <2>1. /\ conn' = [conn EXCEPT ![t] = IF job[t] = "run" THEN "down" ELSE "none"]
        /\ Cut({t}) /\ UNCHANGED <<job, after, passed>>
    BY <1>6 DEF Drop
  <2>2. {"down", "none"} \subseteq ConnStage
    BY DEF ConnStage
  <2> QED
    BY <1>0, <1>5, <2>1, <2>2 DEF LinkTypeOK
<1>7. ASSUME NEW t \in Topic, Receive(t) PROVE LinkTypeOK'
  <2>1. conn[t] = "streaming" /\ UNCHANGED <<job, conn, after, joined, found, passed>>
    BY <1>0, <1>7, ReceiveDoes, Elsewhere DEF Inv
  <2>2. /\ wire' \in [Topic -> Seq(Message)] /\ backlog' \in [Topic -> SUBSET Message]
        /\ \A u \in Topic \ {t} : wire'[u] = wire[u] /\ backlog'[u] = backlog[u]
    <3>1. \/ wire' = wire /\ \E k \in backlog[t] : backlog' = [backlog EXCEPT ![t] = @ \ {k}]
          \/ /\ backlog' = backlog /\ wire[t] # <<>>
             /\ wire' = [wire EXCEPT ![t] = Tail(@)]
      BY <1>0, <1>7, ReceiveDoes DEF Inv
    <3>2. wire[t] # <<>> => Tail(wire[t]) \in Seq(Message)
      BY <1>0 DEF LinkTypeOK
    <3> QED
      BY <1>0, <3>1, <3>2 DEF LinkTypeOK
  <2>3. "streaming" \in Subscribed
    BY DEF Subscribed
  <2> QED
    BY <1>0, <2>1, <2>2, <2>3 DEF LinkTypeOK
<1>8. CASE Sync
  <2>1. /\ job' = [t \in Topic |-> IF Starts(t) THEN "run" ELSE IF Stops(t) THEN "none" ELSE job[t]]
        /\ after' = [t \in Topic |-> IF Starts(t) THEN snapshot[t] ELSE after[t]]
        /\ conn' = [t \in Topic |-> IF Stops(t) THEN Closed(t) ELSE conn[t]]
        /\ Cut({t \in Topic : Stops(t)}) /\ passed' = passed /\ snapshot # NoSnapshot
    BY <1>8 DEF Sync
  <2>2. \A t \in Topic : Starts(t) => snapshot[t] \in 0 .. MaxLog
    BY <1>0, <2>1 DEF FlowTypeOK, Starts, Range
  <2>3. \A t \in Topic : Closed(t) \in ConnStage
    BY <1>0 DEF LinkTypeOK, Closed, ConnStage
  <2>4. /\ job' \in [Topic -> {"none", "run", "backoff", "failed"}]
        /\ conn' \in [Topic -> ConnStage]
        /\ after' \in [Topic -> 0 .. MaxLog]
    BY <1>0, <2>1, <2>2, <2>3 DEF LinkTypeOK
  <2>5. /\ backlog' \in [Topic -> SUBSET Message] /\ wire' \in [Topic -> Seq(Message)]
        /\ joined' \in [Topic -> SUBSET Message] /\ found' \in [Topic -> CatchUpFound]
        /\ \A u \in Topic : Stops(u) => wire'[u] = <<>> /\ backlog'[u] = {}
        /\ \A u \in Topic : ~ Stops(u) => wire'[u] = wire[u] /\ backlog'[u] = backlog[u]
    BY <1>5, <2>1
  <2>6. ASSUME NEW t \in Topic
        PROVE  /\ conn'[t] \notin Subscribed => wire'[t] = <<>> /\ backlog'[t] = {}
               /\ job'[t] \in {"backoff", "failed"} => conn'[t] = "none"
    BY <1>0, <2>1, <2>5 DEF LinkTypeOK
  <2> QED
    BY <1>0, <2>1, <2>4, <2>5, <2>6 DEF LinkTypeOK
<1>9. CASE Restart
  <2>1. /\ job' = [t \in Topic |-> "none"] /\ conn' = [t \in Topic |-> "none"]
        /\ Cut(Topic) /\ UNCHANGED <<after, passed>>
    BY <1>9 DEF Restart
  <2>2. "none" \in ConnStage
    BY DEF ConnStage
  <2> QED
    BY <1>0, <1>5, <2>1, <2>2 DEF LinkTypeOK
<1>10. ASSUME UNCHANGED linkVars PROVE LinkTypeOK'
  BY <1>0, <1>10 DEF linkVars, feedVars, LinkTypeOK
<1> QED
  BY <1>0, <1>1, <1>2, <1>3, <1>4, <1>6, <1>7, <1>8, <1>9, <1>10, Elsewhere, StepCases
     DEF Collect, vars

\* A frame shown for the first time: the filter grows by its key and, when it is
\* full, loses its oldest one.
LEMMA RememberDoes ==
    ASSUME Inv, NEW t \in Topic, NEW f \in Frame, f.i <= Len(log[t])
    PROVE  /\ Remember(t, f) \in Seq(Key)
           /\ Len(Remember(t, f)) = IF Len(seen[t]) < SeenCap THEN Len(seen[t]) + 1
                                                              ELSE SeenCap
           /\ Len(seen[t]) < SeenCap => Remember(t, f) = Append(seen[t], KeyOf(t, f))
           /\ Len(seen[t]) = SeenCap => Remember(t, f) = Tail(Append(seen[t], KeyOf(t, f)))
           /\ Len(seen[t]) \in 0 .. SeenCap /\ SeenCap \in Nat \ {0}
<1>1. seen[t] \in Seq(Key) /\ Len(seen[t]) <= SeenCap /\ SeenCap \in Nat \ {0}
  BY Bounds DEF Inv, TypeOK
<1>2. Len(seen[t]) \in 0 .. SeenCap
  BY <1>1
<1>3. KeyOf(t, f) \in Key
  <2>1. TypeOK /\ ChanInv(t)
    BY DEF Inv
  <2> QED
    BY <2>1, KeyCases
<1> DEFINE grown == Append(seen[t], KeyOf(t, f))
           n == Len(seen[t])
<1>4. /\ grown \in Seq(Key) /\ Len(grown) = n + 1
      /\ Remember(t, f) = IF Len(grown) > SeenCap THEN Tail(grown) ELSE grown
  BY <1>1, <1>3 DEF Remember
<1>5. n \in 0 .. SeenCap
  BY <1>2
<1> HIDE DEF grown, n
<1>6. CASE n < SeenCap
  <2>1. ~ Len(grown) > SeenCap
    BY <1>1, <1>4, <1>5, <1>6
  <2>2. Remember(t, f) = grown
    BY <1>4, <2>1
  <2> QED
    BY <1>1, <1>4, <1>5, <1>6, <2>2 DEF grown, n
<1>7. CASE n = SeenCap
  <2>1. Len(grown) = SeenCap + 1 /\ Len(grown) > SeenCap
    BY <1>1, <1>4, <1>7
  <2>2. Remember(t, f) = Tail(grown)
    BY <1>4, <2>1
  <2>3. Tail(grown) \in Seq(Key) /\ Len(Tail(grown)) = SeenCap
    BY <1>1, <1>4, <2>1
  <2> QED
    BY <1>1, <1>5, <1>7, <2>2, <2>3 DEF grown, n
<1>8. n < SeenCap \/ n = SeenCap
  BY <1>1, <1>5
<1> QED
  BY <1>6, <1>7, <1>8

\* The filter and the history of what was shown.
LEMMA FilterStep == ASSUME Inv, [Next]_vars PROVE FilterTypeOK'
<1>0. /\ FilterTypeOK /\ TypeOK
      /\ <<>> \in Seq(Key) /\ <<>> \in Seq(Frame) /\ Len(<<>>) <= SeenCap
  BY TypeParts, Bounds DEF Inv
<1>1. ASSUME NEW t \in Topic, Receive(t) PROVE FilterTypeOK'
  <2>1. PICK f \in Frame : FrameInv(t, f) /\ Shows(t, f)
    BY <1>0, <1>1, ReceiveDoes DEF Inv
  <2>2. CASE UNCHANGED filterVars
    BY <1>0, <2>2 DEF filterVars, FilterTypeOK
  <2>3. CASE ~ UNCHANGED filterVars
    <3>1. /\ seen' = [seen EXCEPT ![t] = Remember(t, f)]
          /\ posted' = [posted EXCEPT ![t] = Append(@, f)]
          /\ ever' = [ever EXCEPT ![t] = @ \cup {f.i}]
      BY <2>1, <2>3 DEF Shows
    <3>2. f.i \in Message /\ f.i <= Len(log[t])
      BY <2>1, FrameFields DEF FrameInv, Message
    <3>3. Remember(t, f) \in Seq(Key) /\ Len(Remember(t, f)) <= SeenCap
      BY <3>2, RememberDoes
    <3>4. Append(posted[t], f) \in Seq(Frame)
      BY <1>0 DEF FilterTypeOK
    <3> QED
      BY <1>0, <3>1, <3>2, <3>3, <3>4 DEF FilterTypeOK
  <2> QED
    BY <2>2, <2>3
<1>2. CASE Sync
  <2>1. /\ seen' = [t \in Topic |-> IF Stops(t) THEN <<>> ELSE seen[t]]
        /\ posted' = [t \in Topic |-> IF Stops(t) THEN <<>> ELSE posted[t]]
        /\ ever' = ever
    BY <1>2 DEF Sync
  <2> QED
    BY <1>0, <2>1 DEF FilterTypeOK
<1>3. CASE Restart
  <2>1. /\ seen' = [t \in Topic |-> <<>>] /\ posted' = [t \in Topic |-> <<>>]
        /\ ever' = ever
    BY <1>3 DEF Restart
  <2> QED
    BY <1>0, <2>1 DEF FilterTypeOK
<1>4. ASSUME UNCHANGED filterVars PROVE FilterTypeOK'
  BY <1>0, <1>4 DEF filterVars, FilterTypeOK
<1>5. ASSUME NEW t \in Topic, ChannelStep(t) PROVE UNCHANGED filterVars
  BY <1>0, <1>5, ChannelSteps DEF Channel, Inv
<1> QED
  BY <1>0, <1>1, <1>2, <1>3, <1>4, <1>5, Elsewhere, StepCases DEF Collect, vars

LEMMA TypeStep == ASSUME Inv, [Next]_vars PROVE TypeOK'
  BY ChanStep, StoreStep, FlowStep, LinkStep, FilterStep, BoundStep
     DEF TypeOK, ChanTypeOK, StoreTypeOK, FlowTypeOK, LinkTypeOK, FilterTypeOK, BoundTypeOK

-----------------------------------------------------------------------------
(* What is said of a message stays true *)

\* The log, the stream and the histories of topic t grow.
Lasts(t) ==
    /\ mode'[t] = mode[t]
    /\ Extends(log'[t], log[t]) /\ Extends(stored'[t], stored[t])
    /\ ever[t] \subseteq ever'[t] /\ passed[t] \subseteq passed'[t]

LEMMA Lasting ==
    ASSUME TypeOK, TypeOK', NEW t \in Topic, ChanInv(t), PostedInv(t), Lasts(t)
    PROVE  /\ Len(log'[t]) \in Nat /\ Len(stored'[t]) \in Nat
           /\ \A i \in 1 .. Len(log[t]) :
                 /\ i \in 1 .. Len(log'[t]) /\ log'[t][i] = log[t][i]
                 /\ Shown(t, i) => Shown(t, i)'
           /\ \A k \in 1 .. Len(stored[t]) :
                 /\ k \in 1 .. Len(stored'[t]) /\ stored'[t][k] = stored[t][k]
                 /\ Covered(t, k) => Covered(t, k)'
           /\ \A f \in Frame : FrameInv(t, f) =>
                 FrameInv(t, f)' /\ f.i \in 1 .. Len(log[t])
           /\ \A n \in Nat : Reaches(t, n) => Reaches(t, n)'
<1> DEFINE a == Len(log[t])
           b == Len(log'[t])
           c == Len(stored[t])
           d == Len(stored'[t])
<1>1. /\ a \in Nat /\ b \in Nat /\ c \in Nat /\ d \in Nat /\ a <= b /\ c <= d
      /\ \A i \in 1 .. a : log'[t][i] = log[t][i]
      /\ \A k \in 1 .. c : stored'[t][k] = stored[t][k]
      /\ \A k \in 1 .. c : stored[t][k] \in 1 .. a
  <2>1. /\ log[t] \in Seq(Text) /\ log'[t] \in Seq(Text)
        /\ stored[t] \in Seq(Message) /\ stored'[t] \in Seq(Message)
    BY DEF TypeOK
  <2>2. \A k \in 1 .. c : stored[t][k] \in 1 .. a
    BY Lengths
  <2> QED
    BY <2>1, <2>2 DEF Lasts, Extends
<1>2. /\ ever[t] \subseteq 1 .. a /\ ever[t] \subseteq ever'[t]
      /\ passed[t] \subseteq passed'[t] /\ mode'[t] = mode[t]
  BY DEF PostedInv, Lasts
<1> HIDE DEF a, b, c, d
<1>3. /\ \A i \in 1 .. a : i \in 1 .. b
      /\ \A k \in 1 .. c : k \in 1 .. d
  BY <1>1
<1>4. ASSUME NEW i \in 1 .. a PROVE Unopenable(t, i)' <=> Unopenable(t, i)
  BY <1>1, <1>2 DEF Unopenable
<1>5. ASSUME NEW i \in 1 .. a, Shown(t, i) PROVE Shown(t, i)'
  <2>1. CASE i \in ever[t] \/ Unopenable(t, i)
    BY <1>2, <1>4, <2>1 DEF Shown
  <2>2. ASSUME mode[t] # "ENCRYPTED", NEW j \in ever[t] \ {i}, log[t][j] = log[t][i]
        PROVE  Shown(t, i)'
    <3>1. j \in ever'[t] \ {i} /\ log'[t][j] = log'[t][i] /\ mode'[t] # "ENCRYPTED"
      BY <1>1, <1>2, <2>2
    <3> QED
      BY <3>1 DEF Shown
  <2> QED
    BY <1>5, <2>1, <2>2 DEF Shown
<1>6. ASSUME NEW k \in 1 .. c, Covered(t, k) PROVE Covered(t, k)'
  <2>1. PICK i \in 1 .. a : i = stored[t][k]
    BY <1>1
  <2>2. stored'[t][k] = i
    BY <1>1, <2>1
  <2>3. i \in ever[t] \/ Unopenable(t, i) \/ k \in passed[t]
    BY <1>6, <2>1 DEF Covered
  <2>4. i \in ever'[t] \/ Unopenable(t, i)' \/ k \in passed'[t]
    BY <1>2, <1>4, <2>3
  <2> QED
    BY <2>2, <2>4 DEF Covered, Unopenable
<1>7. ASSUME NEW f \in Frame, FrameInv(t, f)
      PROVE  FrameInv(t, f)' /\ f.i \in 1 .. a
  <2>1. f.i \in Nat \ {0} /\ f.seq \in Nat /\ f.i <= a /\ f.seq <= c
    BY <1>7, FrameFields DEF FrameInv, a, c
  <2>2. f.i <= b /\ f.seq <= d /\ f.i \in 1 .. a /\ (f.seq > 0 => f.seq \in 1 .. c)
    BY <1>1, <2>1
  <2>3. f.seq > 0 => mode'[t] # "ENCRYPTED" /\ stored'[t][f.seq] = f.i
    BY <1>1, <1>2, <1>7, <2>2 DEF FrameInv
  <2> QED
    BY <2>2, <2>3 DEF FrameInv, b, d
<1>8. ASSUME NEW n \in Nat, Reaches(t, n) PROVE Reaches(t, n)'
  <2>1. n <= c /\ \A k \in 1 .. n : Covered(t, k)
    BY <1>8 DEF Reaches, c
  <2>2. n <= d /\ \A k \in 1 .. n : k \in 1 .. c
    BY <1>1, <2>1
  <2> QED
    BY <1>6, <2>1, <2>2 DEF Reaches, d
<1> QED
  BY <1>1, <1>3, <1>5, <1>6, <1>7, <1>8 DEF a, b, c, d

LEMMA OnWireLasts ==
    ASSUME NEW t, wire[t] \in Seq(Message), wire'[t] \in Seq(Message),
           Extends(wire'[t], wire[t]), NEW i, OnWire(t, i)
    PROVE  OnWire(t, i)'
<1>1. PICK k \in 1 .. Len(wire[t]) : wire[t][k] = i
  BY DEF OnWire
<1>2. k \in 1 .. Len(wire'[t]) /\ wire'[t][k] = i
  BY <1>1 DEF Extends
<1> QED
  BY <1>2 DEF OnWire

-----------------------------------------------------------------------------
(* Steps that show and replay nothing *)

\* The parts of the invariant that speak of the stream and the filter.
Stream(t) == PostedInv(t) /\ FilterInv(t) /\ Spaced(t) /\ QueueInv(t) /\ Complete(t)

\* The connection goes on: what is published goes on its queue.
GoesOn(u) ==
    /\ conn'[u] = conn[u] /\ joined'[u] = joined[u] /\ backlog'[u] = backlog[u]
    /\ found'[u] = found[u] /\ after'[u] = after[u]
    /\ Extends(wire'[u], wire[u])
    /\ \A k \in 1 .. Len(wire'[u]) : k \in 1 .. Len(wire[u]) \/ wire'[u][k] <= Len(log'[u])
    /\ mode[u] = "ENCRYPTED" =>
          \A k \in 1 .. Len(stored'[u]) : k \in 1 .. Len(stored[u]) \/ stored'[u][k] \in half'[u]
    /\ conn[u] \in Subscribed =>
          /\ \A i : i \in Aired(u)' => i \in Aired(u) \/ OnWire(u, i)'
          /\ mode[u] = "ENCRYPTED" => \A i \in half[u] : i \in half'[u] \/ OnWire(u, i)'

\* There is none, or the broker has just subscribed it.
HasNothing(u) ==
    /\ wire'[u] = <<>> /\ backlog'[u] = {}
    /\ ~ found'[u].done /\ found'[u].newest <= Len(stored'[u])
    /\ \/ conn'[u] \notin Subscribed
       \/ conn'[u] = "subscribed" /\ joined'[u] = Aired(u)'

Still(u) ==
    /\ Lasts(u) /\ ever'[u] = ever[u] /\ passed'[u] = passed[u]
    /\ \/ seen'[u] = seen[u] /\ posted'[u] = posted[u]
       \/ seen'[u] = <<>> /\ posted'[u] = <<>>
    /\ GoesOn(u) \/ HasNothing(u)

LEMMA StillKeeps ==
    ASSUME Inv, TypeOK', NEW u \in Topic, ChanInv(u)', Still(u)
    PROVE  Stream(u)'
<1>0. Stream(u) /\ TypeOK /\ ChanInv(u) /\ Reaches(u, after[u])
  BY DEF Inv, Stream, CursorsCovered
<1>1. /\ Len(log'[u]) \in Nat /\ Len(stored'[u]) \in Nat
      /\ \A i \in 1 .. Len(log[u]) :
            /\ i \in 1 .. Len(log'[u]) /\ log'[u][i] = log[u][i]
            /\ Shown(u, i) => Shown(u, i)'
      /\ \A k \in 1 .. Len(stored[u]) :
            /\ k \in 1 .. Len(stored'[u]) /\ stored'[u][k] = stored[u][k]
            /\ Covered(u, k) => Covered(u, k)'
      /\ \A f \in Frame : FrameInv(u, f) => FrameInv(u, f)' /\ f.i \in 1 .. Len(log[u])
  BY <1>0, Lasting DEF Still, Stream
<1>2. /\ posted[u] \in Seq(Frame) /\ seen[u] \in Seq(Key)
      /\ wire[u] \in Seq(Message) /\ wire'[u] \in Seq(Message)
      /\ mode'[u] = mode[u] /\ ever'[u] = ever[u] /\ passed'[u] = passed[u]
  BY <1>0 DEF TypeOK, Still, Lasts
<1>3. PostedInv(u)'
  <2>1. ever'[u] \subseteq 1 .. Len(log'[u])
    BY <1>0, <1>1, <1>2 DEF Stream, PostedInv
  <2>2. CASE posted'[u] = posted[u]
    <3>1. ASSUME NEW k \in 1 .. Len(posted[u])
          PROVE  FrameInv(u, posted[u][k])' /\ posted'[u][k].i \in ever'[u]
      <4>1. PICK f \in Frame : f = posted[u][k]
        BY <1>2
      <4>2. FrameInv(u, f) /\ f.i \in ever[u]
        BY <1>0, <4>1 DEF Stream, PostedInv
      <4>3. FrameInv(u, f)' /\ f.i \in ever'[u] /\ posted'[u][k] = f
        BY <1>1, <1>2, <2>2, <4>1, <4>2
      <4> QED
        BY <4>3 DEF FrameInv
    <3> QED
      BY <2>1, <2>2, <3>1 DEF PostedInv
  <2>3. CASE posted'[u] = <<>>
    BY <2>1, <2>3 DEF PostedInv
  <2> QED
    BY <2>2, <2>3 DEF Still
<1>4. FilterInv(u)' /\ Spaced(u)'
  <2>1. CASE seen'[u] = seen[u] /\ posted'[u] = posted[u]
    <3> DEFINE p == Len(posted[u])
               s == Len(seen[u])
    <3>1. ASSUME NEW k \in 1 .. p PROVE KeyOf(u, posted[u][k])' = KeyOf(u, posted[u][k])
      <4>1. posted[u][k] \in Frame /\ FrameInv(u, posted[u][k])
        BY <1>0, <1>2 DEF Stream, PostedInv
      <4>2. log'[u][posted[u][k].i] = log[u][posted[u][k].i]
        BY <1>1, <4>1
      <4> QED
        BY <1>2, <2>1, <4>2 DEF KeyOf
    <3>2. p \in Nat /\ s \in Nat /\ s <= p
      BY <1>0, <1>2 DEF Stream, FilterInv
    <3>3. \A k \in 1 .. s : p - s + k \in 1 .. p
      <4> HIDE DEF p, s
      <4> QED
        BY <3>2
    <3> QED
      BY <1>0, <2>1, <3>1, <3>3 DEF Stream, FilterInv, Spaced
  <2>2. CASE seen'[u] = <<>> /\ posted'[u] = <<>>
    BY <2>2 DEF FilterInv, Spaced
  <2> QED
    BY <2>1, <2>2 DEF Still
<1>5. CASE HasNothing(u)
  <2>1. QueueInv(u)'
    BY <1>5 DEF HasNothing, QueueInv
  <2>2. Complete(u)'
    BY <1>5 DEF HasNothing, Complete, Subscribed
  <2> QED
    BY <1>3, <1>4, <2>1, <2>2 DEF Stream
<1>6. CASE GoesOn(u)
  <2> DEFINE a == Len(log[u])
             b == Len(log'[u])
             c == Len(stored[u])
             d == Len(stored'[u])
             x == after[u]
             y == found[u].newest
  <2>0. /\ a \in Nat /\ b \in Nat /\ a <= b /\ c \in Nat /\ d \in Nat
        /\ x \in Nat /\ x <= c /\ y \in Nat /\ y <= c
        /\ \A k \in 1 .. c : stored[u][k] \in 1 .. a
    <3>1. a \in Nat /\ c \in Nat /\ \A k \in 1 .. c : stored[u][k] \in 1 .. a
      BY <1>0, Lengths
    <3>2. a <= b
      BY DEF Still, Lasts, Extends
    <3>3. x \in Nat /\ y \in Nat
      BY <1>0 DEF TypeOK, CatchUpFound
    <3>4. x <= c /\ y <= c
      BY <1>0 DEF Stream, QueueInv, Reaches
    <3> QED
      BY <1>1, <3>1, <3>2, <3>3, <3>4
  <2>1. QueueInv(u)'
    <3>1. ASSUME NEW k \in 1 .. Len(wire'[u]) PROVE wire'[u][k] <= b
      <4>1. CASE k \in 1 .. Len(wire[u])
        <5>1. wire'[u][k] = wire[u][k] /\ wire[u][k] <= a
          BY <1>0, <1>6, <4>1 DEF GoesOn, Extends, Stream, QueueInv
        <5>2. wire[u][k] \in Message /\ MaxLog \in Nat
          BY <1>2, <4>1, Bounds
        <5>3. wire[u][k] \in Nat
          BY <5>2 DEF Message
        <5> HIDE DEF a, b
        <5> QED
          BY <2>0, <5>1, <5>3
      <4> QED
        BY <1>6, <3>1, <4>1 DEF GoesOn
    <3>2. backlog[u] \subseteq 1 .. c /\ backlog[u] \subseteq 1 .. d
      BY <1>0, <1>1 DEF Stream, QueueInv
    <3>3. ASSUME NEW m \in backlog[u], NEW k \in 1 .. m
          PROVE  Covered(u, k)' \/ k \in backlog[u]
      <4>1. k \in 1 .. c
        <5> HIDE DEF c
        <5> QED
          BY <2>0, <3>2
      <4>2. Covered(u, k) \/ k \in backlog[u]
        BY <1>0 DEF Stream, QueueInv
      <4> QED
        BY <1>1, <4>1, <4>2
    <3>4. found'[u] = found[u] /\ conn'[u] = conn[u] /\ backlog'[u] = backlog[u] /\ y <= d
      <4>1. c <= d
        BY DEF Still, Lasts, Extends
      <4> HIDE DEF c, d, y
      <4> QED
        BY <1>6, <2>0, <4>1 DEF GoesOn
    <3> QED
      BY <1>0, <3>1, <3>2, <3>3, <3>4 DEF Stream, QueueInv
  <2>2. \A i : OnWire(u, i) => OnWire(u, i)'
    BY <1>2, <1>6, OnWireLasts DEF GoesOn
  <2>3. ASSUME conn'[u] \in Subscribed, NEW i \in (Aired(u) \ joined[u])'
        PROVE  Shown(u, i)' \/ OnWire(u, i)'
    <3>1. i \in Aired(u)' /\ i \notin joined[u] /\ conn[u] \in Subscribed
      BY <1>6, <2>3 DEF GoesOn
    <3>2. CASE i \in Aired(u)
      <4>1. Shown(u, i) \/ OnWire(u, i)
        BY <1>0, <3>1, <3>2 DEF Stream, Complete
      <4>2. i \in 1 .. a
        BY <3>2 DEF Aired
      <4> QED
        BY <1>1, <2>2, <4>1, <4>2
    <3> QED
      BY <1>6, <3>1, <3>2 DEF GoesOn
  <2>4. ASSUME conn'[u] = "streaming", NEW k \in 1 .. Len(stored'[u]) PROVE Settled(u, k)'
    <3>0. /\ conn[u] = "streaming" /\ conn[u] \in Subscribed
          /\ after'[u] = x /\ found'[u] = found[u] /\ backlog'[u] = backlog[u]
      BY <1>6, <2>4 DEF GoesOn, Subscribed
    <3>1. CASE k \in 1 .. c
      <4>0. PICK i \in 1 .. a : i = stored[u][k]
        BY <2>0, <3>1
      <4>1. stored'[u][k] = i
        BY <1>1, <3>1, <4>0
      <4>2. \/ Shown(u, i) \/ k \in passed[u] \/ k \in backlog[u] \/ OnWire(u, i)
            \/ LeftOut(u, k)
        BY <1>0, <3>0, <3>1, <4>0 DEF Stream, Complete, Settled
      <4>3. CASE Shown(u, i) \/ k \in passed[u] \/ k \in backlog[u] \/ OnWire(u, i)
        <5>1. Shown(u, i)' \/ k \in passed'[u] \/ k \in backlog'[u] \/ OnWire(u, i)'
          BY <1>1, <1>2, <2>2, <3>0, <4>0, <4>3
        <5> QED
          BY <4>1, <5>1 DEF Settled, Shown, OnWire, Unopenable
      <4>4. CASE LeftOut(u, k)
        <5>1. CASE mode[u] = "ENCRYPTED" /\ OnWire(u, i)'
          BY <4>1, <5>1 DEF Settled, OnWire
        <5>2. CASE ~ (mode[u] = "ENCRYPTED" /\ OnWire(u, i)')
          <6>1. mode[u] = "ENCRYPTED" /\ i \in half[u] => i \in half'[u]
            BY <1>6, <3>0, <5>2 DEF GoesOn
          <6>2. BeyondBatch(u, k)' <=> BeyondBatch(u, k)
            BY <3>0 DEF BeyondBatch
          <6>3. LeftOut(u, k)'
            BY <1>2, <3>0, <4>0, <4>1, <4>4, <6>1, <6>2 DEF LeftOut
          <6> QED
            BY <6>3 DEF Settled
        <5> QED
          BY <5>1, <5>2
      <4> QED
        BY <4>2, <4>3, <4>4
    <3>2. CASE k \notin 1 .. c
      <4>1. mode[u] = "ENCRYPTED" => stored'[u][k] \in half'[u]
        BY <1>6, <2>4, <3>2 DEF GoesOn
      <4>2. k \in 1 .. d
        BY <2>4
      <4>3. k > x /\ k > y
        <5> HIDE DEF c, d, x, y
        <5> QED
          BY <2>0, <3>2, <4>2
      <4>4. LeftOut(u, k)'
        BY <1>2, <3>0, <4>1, <4>3 DEF LeftOut
      <4> QED
        BY <4>4 DEF Settled
    <3> QED
      BY <3>1, <3>2
  <2>5. Complete(u)'
    BY <2>3, <2>4 DEF Complete
  <2> QED
    BY <1>3, <1>4, <2>1, <2>5 DEF Stream
<1> QED
  BY <1>5, <1>6 DEF Still

\* Nothing of topic u's stream, connection or filter changes.
Quiet(u) ==
    /\ mode'[u] = mode[u] /\ log'[u] = log[u] /\ half'[u] = half[u] /\ stored'[u] = stored[u]
    /\ conn'[u] = conn[u] /\ after'[u] = after[u] /\ backlog'[u] = backlog[u]
    /\ wire'[u] = wire[u] /\ joined'[u] = joined[u] /\ found'[u] = found[u]
    /\ passed'[u] = passed[u]
    /\ seen'[u] = seen[u] /\ posted'[u] = posted[u] /\ ever'[u] = ever[u]

LEMMA QuietIsStill == ASSUME Inv, NEW u \in Topic, Quiet(u) PROVE Still(u)
<1>1. /\ Extends(log[u], log[u]) /\ Extends(stored[u], stored[u])
      /\ Extends(wire[u], wire[u])
  BY Same DEF Inv
<1>2. Aired(u)' = Aired(u)
  BY DEF Quiet, Aired
<1>3. /\ \A k \in 1 .. Len(wire'[u]) : k \in 1 .. Len(wire[u])
      /\ \A k \in 1 .. Len(stored'[u]) : k \in 1 .. Len(stored[u])
  BY DEF Quiet
<1>4. GoesOn(u)
  BY <1>1, <1>2, <1>3 DEF Quiet, GoesOn
<1> QED
  BY <1>1, <1>4 DEF Quiet, Still, Lasts

\* A connection that does not stream has read no catch-up.
LEMMA Idle ==
    ASSUME Inv, NEW u \in Topic, conn[u] # "streaming"
    PROVE  /\ ~ found[u].done /\ found[u].newest <= Len(stored[u])
           /\ conn[u] \notin Subscribed => wire[u] = <<>> /\ backlog[u] = {}
  BY DEF Inv, QueueInv, TypeOK

LEMMA CutDoes ==
    ASSUME Inv, NEW S, Cut(S), NEW u \in Topic
    PROVE  /\ u \in S => /\ wire'[u] = <<>> /\ backlog'[u] = {}
                         /\ ~ found'[u].done /\ found'[u].newest <= Len(stored[u])
           /\ u \notin S => /\ wire'[u] = wire[u] /\ backlog'[u] = backlog[u]
                            /\ joined'[u] = joined[u] /\ found'[u] = found[u]
<1>1. ~ NoCatchUp.done /\ NoCatchUp.newest <= Len(stored[u])
  <2>1. Len(stored[u]) \in Nat
    BY DEF Inv, TypeOK
  <2> QED
    BY <2>1 DEF NoCatchUp
<1> QED
  BY <1>1 DEF Cut

\* Only a catch-up and a received message are more to a topic than that.
LEMMA StillCases ==
    ASSUME Inv, [Next]_vars, NEW u \in Topic
    PROVE  Still(u) \/ CatchUp(u) \/ NoReplay(u) \/ Receive(u)
<1>0. /\ TypeOK /\ ChanInv(u)
      /\ log \in [Topic -> Seq(Text)] /\ half \in [Topic -> SUBSET Message]
      /\ stored \in [Topic -> Seq(Message)]
      /\ conn \in [Topic -> ConnStage] /\ wire \in [Topic -> Seq(Message)]
      /\ backlog \in [Topic -> SUBSET Message] /\ joined \in [Topic -> SUBSET Message]
      /\ found \in [Topic -> CatchUpFound] /\ passed \in [Topic -> SUBSET Message]
      /\ after \in [Topic -> 0..MaxLog]
      /\ seen \in [Topic -> Seq(Key)] /\ posted \in [Topic -> Seq(Frame)]
      /\ ever \in [Topic -> SUBSET Message]
  BY DEF Inv, TypeOK
<1>1. /\ Extends(log[u], log[u]) /\ Extends(stored[u], stored[u])
  BY <1>0, Same
<1>2. ASSUME UNCHANGED <<chanVars, linkVars, filterVars>> PROVE Still(u)
  BY <1>2, QuietIsStill DEF chanVars, shelfVars, linkVars, feedVars, filterVars, Quiet
<1>3. ASSUME NEW t \in Topic, ChannelStep(t) PROVE Still(u)
  <2>1. Channel(t) /\ Grown(t)
    BY <1>0, <1>3, ChannelSteps DEF Inv
  <2>2. UNCHANGED <<mode, conn, after, backlog, joined, found, passed, seen, posted, ever>>
    BY <2>1 DEF Channel, filterVars
  <2>3. CASE t = u
    <3>1. GoesOn(u)
      BY <2>1, <2>2, <2>3 DEF Grown, GoesOn
    <3> QED
      BY <2>1, <2>2, <2>3, <3>1 DEF Grown, Still, Lasts
  <2>4. CASE t # u
    <3>1. log'[u] = log[u] /\ half'[u] = half[u] /\ stored'[u] = stored[u] /\ wire'[u] = wire[u]
      BY <1>0, <2>1, <2>4 DEF Channel
    <3>2. Quiet(u)
      BY <2>2, <3>1 DEF Quiet
    <3> QED
      BY <3>2, QuietIsStill
  <2> QED
    BY <2>3, <2>4
<1>4. ASSUME UNCHANGED <<chanVars, filterVars, passed, after>>, HasNothing(u) PROVE Still(u)
  BY <1>1, <1>4 DEF chanVars, shelfVars, filterVars, Still, Lasts
<1>5. ASSUME NEW t \in Topic, JobStep(t) \/ Answer(t) \/ Refuse(t) PROVE Still(u)
  <2>1. /\ UNCHANGED <<chanVars, filterVars, after, feedVars, passed>>
        /\ conn[t] \notin Subscribed
    BY <1>0, <1>5, MoveDoes, Elsewhere
  <2>2. PICK c \in ConnStage \ Subscribed : conn' = [conn EXCEPT ![t] = c]
    BY <1>0, <1>5, MoveDoes
  <2>3. CASE t = u
    <3>1. conn[u] # "streaming" /\ conn'[u] \notin Subscribed
      BY <1>0, <2>1, <2>2, <2>3 DEF Subscribed
    <3>2. HasNothing(u)
      BY <2>1, <2>3, <3>1, Idle DEF HasNothing, feedVars, chanVars, shelfVars
    <3> QED
      BY <1>4, <2>1, <3>2
  <2>4. CASE t # u
    <3>1. conn'[u] = conn[u]
      BY <1>0, <2>2, <2>4
    <3>2. Quiet(u)
      BY <2>1, <3>1 DEF Quiet, feedVars, chanVars, shelfVars, filterVars
    <3> QED
      BY <3>2, QuietIsStill
  <2> QED
    BY <2>3, <2>4
<1>6. ASSUME NEW t \in Topic, Accept(t) PROVE Still(u)
  <2>1. /\ conn[t] \in {"answered", "dialing"} /\ conn' = [conn EXCEPT ![t] = "subscribed"]
        /\ joined' = [joined EXCEPT ![t] = Aired(t)]
        /\ UNCHANGED <<after, backlog, wire, found, passed>>
        /\ UNCHANGED <<chanVars, filterVars>>
    BY <1>0, <1>6, Elsewhere DEF Accept, Moves
  <2>2. CASE t = u
    <3>1. /\ conn[u] # "streaming" /\ conn[u] \notin Subscribed
          /\ conn'[u] = "subscribed" /\ joined'[u] = Aired(u)
      BY <1>0, <2>1, <2>2 DEF Subscribed
    <3>2. Aired(u)' = Aired(u)
      BY <2>1 DEF Aired, chanVars
    <3>3. HasNothing(u)
      BY <2>1, <3>1, <3>2, Idle DEF HasNothing, chanVars, shelfVars
    <3> QED
      BY <1>4, <2>1, <3>3
  <2>3. CASE t # u
    <3>1. conn'[u] = conn[u] /\ joined'[u] = joined[u]
      BY <1>0, <2>1, <2>3
    <3>2. Quiet(u)
      BY <2>1, <3>1 DEF Quiet, chanVars, shelfVars, filterVars
    <3> QED
      BY <3>2, QuietIsStill
  <2> QED
    BY <2>2, <2>3
<1>7. ASSUME NEW t \in Topic, Drop(t) PROVE Still(u)
  <2>1. /\ conn' = [conn EXCEPT ![t] = IF job[t] = "run" THEN "down" ELSE "none"]
        /\ Cut({t}) /\ UNCHANGED <<after, passed>> /\ UNCHANGED <<chanVars, filterVars>>
    BY <1>0, <1>7, Elsewhere DEF Drop
  <2>2. CASE t = u
    <3>1. conn'[u] \notin Subscribed
      BY <1>0, <2>1, <2>2 DEF Subscribed
    <3>2. HasNothing(u)
      BY <2>1, <2>2, <3>1, CutDoes DEF HasNothing, chanVars, shelfVars
    <3> QED
      BY <1>4, <2>1, <3>2
  <2>3. CASE t # u
    <3>1. /\ conn'[u] = conn[u]
          /\ wire'[u] = wire[u] /\ backlog'[u] = backlog[u]
          /\ joined'[u] = joined[u] /\ found'[u] = found[u]
      BY <1>0, <2>1, <2>3, CutDoes
    <3>2. Quiet(u)
      BY <2>1, <3>1 DEF Quiet, chanVars, shelfVars, filterVars
    <3> QED
      BY <3>2, QuietIsStill
  <2> QED
    BY <2>2, <2>3
<1>8. ASSUME NEW t \in Topic, CatchUp(t) \/ NoReplay(t), t # u PROVE Still(u)
  <2>1. /\ conn'[u] = conn[u] /\ backlog'[u] = backlog[u] /\ found'[u] = found[u]
        /\ passed'[u] = passed[u] /\ UNCHANGED <<after, wire, joined>>
    BY <1>0, <1>8 DEF CatchUp, NoReplay, Moves, feedVars
  <2>2. UNCHANGED <<chanVars, filterVars>>
    BY <1>0, <1>8, Elsewhere
  <2>3. Quiet(u)
    BY <2>1, <2>2 DEF Quiet, chanVars, shelfVars, filterVars
  <2> QED
    BY <2>3, QuietIsStill
<1>9. ASSUME NEW t \in Topic, Receive(t), t # u PROVE Still(u)
  <2>1. UNCHANGED <<chanVars, conn, after, joined, found, passed>>
    BY <1>0, <1>9, Elsewhere
  <2>2. PICK f \in Frame :
            /\ Shows(t, f)
            /\ \/ wire' = wire /\ \E k \in backlog[t] : backlog' = [backlog EXCEPT ![t] = @ \ {k}]
               \/ backlog' = backlog /\ wire' = [wire EXCEPT ![t] = Tail(@)]
    BY <1>0, <1>9, ReceiveDoes DEF Inv
  <2>3. wire'[u] = wire[u] /\ backlog'[u] = backlog[u]
    BY <1>0, <1>9, <2>2
  <2>4. seen'[u] = seen[u] /\ posted'[u] = posted[u] /\ ever'[u] = ever[u]
    BY <1>0, <1>9, <2>2 DEF Shows, filterVars
  <2>5. Quiet(u)
    BY <2>1, <2>3, <2>4 DEF Quiet, chanVars, shelfVars
  <2> QED
    BY <2>5, QuietIsStill
<1>10. CASE Sync
  <2>1. /\ after'[u] = IF Starts(u) THEN snapshot[u] ELSE after[u]
        /\ conn'[u] = IF Stops(u) THEN Closed(u) ELSE conn[u]
        /\ seen'[u] = IF Stops(u) THEN <<>> ELSE seen[u]
        /\ posted'[u] = IF Stops(u) THEN <<>> ELSE posted[u]
        /\ Cut({t \in Topic : Stops(t)}) /\ snapshot # NoSnapshot
        /\ UNCHANGED <<chanVars, passed, ever>>
    BY <1>10 DEF Sync
  <2>2. CASE Stops(u)
    <3>1. conn'[u] \notin Subscribed
      BY <2>1, <2>2 DEF Closed, Subscribed
    <3>2. HasNothing(u)
      BY <2>1, <2>2, <3>1, CutDoes DEF HasNothing, chanVars, shelfVars
    <3> QED
      BY <1>1, <2>1, <2>2, <3>2 DEF Still, Lasts, chanVars, shelfVars
  <2>3. CASE Starts(u)
    <3>1. ~ Stops(u) /\ conn[u] = "none"
      BY <2>1, <2>3 DEF Starts, Stops, Inv, OwnerInv
    <3>2. conn'[u] \notin Subscribed /\ conn[u] \notin Subscribed /\ conn[u] # "streaming"
      BY <2>1, <3>1 DEF Subscribed
    <3>3. HasNothing(u)
      BY <2>1, <3>1, <3>2, CutDoes, Idle DEF HasNothing, chanVars, shelfVars
    <3> QED
      BY <1>1, <2>1, <3>1, <3>3 DEF Still, Lasts, chanVars, shelfVars
  <2>4. CASE ~ Stops(u) /\ ~ Starts(u)
    <3>1. /\ wire'[u] = wire[u] /\ backlog'[u] = backlog[u]
          /\ joined'[u] = joined[u] /\ found'[u] = found[u]
      BY <2>1, <2>4, CutDoes
    <3>2. Quiet(u)
      BY <2>1, <2>4, <3>1 DEF Quiet, chanVars, shelfVars
    <3> QED
      BY <3>2, QuietIsStill
  <2> QED
    BY <2>2, <2>3, <2>4
<1>11. CASE Restart
  <2>1. /\ seen'[u] = <<>> /\ posted'[u] = <<>> /\ conn'[u] = "none"
        /\ Cut(Topic) /\ UNCHANGED <<chanVars, after, passed, ever>>
    BY <1>11 DEF Restart
  <2>2. HasNothing(u)
    BY <2>1, CutDoes DEF HasNothing, chanVars, shelfVars, Subscribed
  <2> QED
    BY <1>1, <2>1, <2>2 DEF Still, Lasts, chanVars, shelfVars
<1>12. CASE Collect
  BY <1>2, <1>12 DEF Collect
<1>13. CASE UNCHANGED vars
  BY <1>2, <1>13 DEF vars
<1>14. ASSUME NEW t \in Topic, UserStep(t) \/ SaveCursor(t) PROVE Still(u)
  BY <1>0, <1>2, <1>14, Elsewhere
<1> QED
  BY <1>3, <1>5, <1>6, <1>7, <1>8, <1>9, <1>10, <1>11, <1>12, <1>13, <1>14, StepCases

\* Jobs, their connections and the list.
LEMMA OwnerStep == ASSUME Inv, [Next]_vars, NEW u \in Topic PROVE OwnerInv(u)'
<1>0. /\ OwnerInv(u) /\ TypeOK
      /\ entry \in [Topic -> {"new", "listed", "removed"}]
      /\ job \in [Topic -> {"none", "run", "backoff", "failed"}]
      /\ conn \in [Topic -> ConnStage]
  BY DEF Inv, TypeOK
<1>1. ASSUME entry' = entry, job'[u] = job[u], conn'[u] = conn[u],
             snapshot' = snapshot \/ snapshot' = NoSnapshot
      PROVE  OwnerInv(u)'
  BY <1>0, <1>1 DEF OwnerInv
<1>2. ASSUME NEW t \in Topic, UserStep(t) PROVE OwnerInv(u)'
  <2>1. UNCHANGED <<job, conn, snapshot>>
    BY <1>0, <1>2, Elsewhere DEF linkVars
  <2>2. \/ entry'[u] = entry[u]
        \/ entry[u] = "new" /\ entry'[u] = "listed"
        \/ entry[u] = "listed" /\ entry'[u] = "removed"
    BY <1>0, <1>2 DEF UserStep, AddTopic, RemoveTopic, RemoveSecret
  <2> QED
    BY <1>0, <2>1, <2>2 DEF OwnerInv
<1>3. ASSUME NEW t \in Topic, SaveCursor(t) PROVE OwnerInv(u)'
  <2>1. entry' = entry /\ job' = job /\ conn' = conn /\ snapshot' = snapshot
    BY <1>0, <1>3, Elsewhere DEF SaveCursor, linkVars
  <2> QED
    BY <1>1, <2>1
<1>4. ASSUME NEW t \in Topic, JobStep(t) \/ Answer(t) \/ Refuse(t) PROVE OwnerInv(u)'
  <2>1. entry' = entry /\ snapshot' = snapshot
    BY <1>0, <1>4, Elsewhere DEF storeVars, flowVars
  <2>2. PICK j \in {"none", "run", "backoff", "failed"}, c \in ConnStage \ Subscribed :
            /\ job' = [job EXCEPT ![t] = j] /\ conn' = [conn EXCEPT ![t] = c]
            /\ j = "none" => job[t] = "none" /\ conn[t] # "none"
    BY <1>0, <1>4, MoveDoes
  <2>3. job[t] = "none" => conn[t] # "none"
    BY <1>0, <1>4, MoveDoes
  <2>4. CASE t = u
    <3>1. job'[u] = j /\ conn'[u] = c
      BY <1>0, <2>2, <2>4
    <3> QED
      BY <1>0, <2>1, <2>2, <2>3, <2>4, <3>1 DEF OwnerInv
  <2>5. CASE t # u
    <3>1. job'[u] = job[u] /\ conn'[u] = conn[u]
      BY <1>0, <2>2, <2>5
    <3> QED
      BY <1>1, <2>1, <3>1
  <2> QED
    BY <2>4, <2>5
<1>5. ASSUME NEW t \in Topic, Accept(t) \/ CatchUp(t) \/ NoReplay(t) \/ Drop(t)
      PROVE  OwnerInv(u)'
  <2>1. entry' = entry /\ snapshot' = snapshot
    BY <1>0, <1>5, Elsewhere DEF storeVars, flowVars
  <2>2. job' = job /\ conn[t] # "none" /\ \E c : conn' = [conn EXCEPT ![t] = c]
    BY <1>5 DEF Accept, CatchUp, NoReplay, Drop, Moves, Subscribed
  <2>3. conn'[u] = conn[u] \/ conn[u] # "none"
    BY <1>0, <2>2
  <2> QED
    BY <1>0, <2>1, <2>2, <2>3 DEF OwnerInv
<1>6. ASSUME NEW t \in Topic, Receive(t) PROVE OwnerInv(u)'
  BY <1>0, <1>1, <1>6, Elsewhere DEF flowVars
<1>7. ASSUME NEW t \in Topic, ChannelStep(t) PROVE OwnerInv(u)'
  <2>1. Channel(t)
    BY <1>0, <1>7, ChannelSteps DEF Inv
  <2> QED
    BY <1>1, <2>1 DEF Channel, storeVars, flowVars
<1>8. CASE Collect
  <2>1. /\ snapshot' = [t \in {v \in Topic : entry[v] = "listed"} |-> cursor[t]]
        /\ UNCHANGED <<entry, job, conn>>
    BY <1>8 DEF Collect, storeVars, linkVars
  <2>2. u \in DOMAIN snapshot' <=> entry[u] = "listed"
    BY <2>1
  <2>3. entry[u] \in {"new", "listed", "removed"}
    BY <1>0
  <2> QED
    BY <1>0, <2>1, <2>2, <2>3 DEF OwnerInv
<1>9. CASE Sync
  <2>1. /\ snapshot # NoSnapshot /\ snapshot' = NoSnapshot /\ entry' = entry
        /\ job'[u] = IF Starts(u) THEN "run" ELSE IF Stops(u) THEN "none" ELSE job[u]
        /\ conn'[u] = IF Stops(u) THEN Closed(u) ELSE conn[u]
    BY <1>9 DEF Sync, storeVars
  <2>2. Stops(u) => entry[u] = "removed"
    BY <1>0, <2>1 DEF Stops, OwnerInv
  <2>3. Starts(u) => entry[u] # "new"
    BY <1>0, <2>1 DEF Starts, OwnerInv
  <2> QED
    BY <1>0, <2>1, <2>2, <2>3 DEF OwnerInv
<1>10. CASE Restart
  BY <1>0, <1>10 DEF Restart, OwnerInv
<1>11. CASE UNCHANGED vars
  BY <1>1, <1>11 DEF vars, storeVars, flowVars, linkVars
<1> QED
  BY <1>2, <1>3, <1>4, <1>5, <1>6, <1>7, <1>8, <1>9, <1>10, <1>11, StepCases

-----------------------------------------------------------------------------
(* What a connection shows *)

\* A frame shown for the first time: the filter stays the window of what was
\* shown last, and an earlier frame with this one's key had left it.
LEMMA WindowMoves ==
    ASSUME Inv, NEW t \in Topic, NEW f \in Frame, f.i <= Len(log[t]), FirstSeen(t, f),
           UNCHANGED <<mode, log>>,
           posted'[t] = Append(posted[t], f), seen'[t] = Remember(t, f)
    PROVE  FilterInv(t)' /\ Spaced(t)'
<1> DEFINE p == Len(posted[t])
           s == Len(seen[t])
           q == Len(seen'[t])
           K == KeyOf(t, f)
<1>0. /\ posted[t] \in Seq(Frame) /\ seen[t] \in Seq(Key)
      /\ FilterInv(t) /\ Spaced(t)
  BY DEF Inv, TypeOK
<1>1. /\ p \in Nat /\ s \in Nat /\ s <= p /\ s \in {SeenCap, p}
      /\ s <= SeenCap /\ SeenCap \in Nat \ {0}
  BY <1>0, RememberDoes DEF FilterInv
<1>2. ASSUME NEW g PROVE KeyOf(t, g)' = KeyOf(t, g)
  BY DEF KeyOf
<1>3. /\ Len(posted'[t]) = p + 1 /\ posted'[t][p + 1] = f
      /\ \A k \in 1 .. p : posted'[t][k] = posted[t][k]
  BY <1>0
<1>4. q = IF s < SeenCap THEN s + 1 ELSE SeenCap
  BY <1>1, RememberDoes
<1>5. \A k \in 1 .. s : p - s + k \in 1 .. p /\ seen[t][k] = KeyOf(t, posted[t][p - s + k])
  <2>1. \A k \in 1 .. s : seen[t][k] = KeyOf(t, posted[t][p - s + k])
    BY <1>0 DEF FilterInv
  <2> HIDE DEF p, s
  <2>2. \A k \in 1 .. s : p - s + k \in 1 .. p
    BY <1>1
  <2> QED
    BY <2>1, <2>2
<1>6. /\ s < SeenCap => seen'[t] = Append(seen[t], K)
      /\ s = SeenCap => seen'[t] = Tail(Append(seen[t], K))
  BY RememberDoes
<1>7. \A k \in 1 .. s : seen[t][k] # K
  BY DEF FirstSeen, Contains
<1>8. K \in Key
  <2>1. TypeOK /\ ChanInv(t)
    BY DEF Inv
  <2> QED
    BY <2>1, KeyCases
<1> HIDE DEF K
<1>9. /\ s < SeenCap => seen'[t][s + 1] = K /\ \A k \in 1 .. s : seen'[t][k] = seen[t][k]
      /\ s = SeenCap => /\ seen'[t][s] = K
                        /\ \A k \in 1 .. s - 1 : seen'[t][k] = seen[t][k + 1]
  <2>1. CASE s < SeenCap
    BY <1>0, <1>6, <1>8, <1>1, <2>1
  <2>2. CASE s = SeenCap
    <3> DEFINE G == Append(seen[t], K)
    <3>1. /\ G \in Seq(Key) /\ Len(G) = s + 1 /\ G[s + 1] = K
          /\ \A k \in 1 .. s : G[k] = seen[t][k]
      BY <1>0, <1>8
    <3>2. seen'[t] = Tail(G)
      BY <1>6, <2>2
    <3> HIDE DEF G
    <3>3. \A k \in 1 .. s : seen'[t][k] = G[k + 1]
      BY <1>1, <3>1, <3>2
    <3> HIDE DEF s
    <3>4. ASSUME NEW k \in 1 .. s - 1 PROVE seen'[t][k] = seen[t][k + 1]
      <4>1. k \in 1 .. s /\ k + 1 \in 1 .. s
        BY <1>1
      <4> QED
        BY <3>1, <3>3, <4>1
    <3>5. s \in 1 .. s
      BY <1>1, <2>2
    <3> QED
      BY <2>2, <3>1, <3>3, <3>4, <3>5
  <2> QED
    BY <2>1, <2>2
<1> HIDE DEF p, s, q
<1>10. q <= p + 1 /\ q \in {SeenCap, p + 1}
  BY <1>1, <1>4
<1>11. ASSUME NEW k \in 1 .. q PROVE seen'[t][k] = KeyOf(t, posted'[t][(p + 1) - q + k])
  <2>1. CASE s < SeenCap
    <3>0. s = p /\ q = p + 1 /\ (p + 1) - q + k = k /\ p - s + k = k
      BY <1>1, <1>4, <2>1
    <3>1. CASE k = p + 1
      BY <1>3, <1>9, <2>1, <3>0, <3>1 DEF K
    <3>2. CASE k \in 1 .. p
      <4>1. seen'[t][k] = KeyOf(t, posted[t][k])
        BY <1>5, <1>9, <2>1, <3>0, <3>2
      <4> QED
        BY <1>3, <3>0, <3>2, <4>1
    <3>3. k = p + 1 \/ k \in 1 .. p
      BY <1>1, <3>0
    <3> QED
      BY <3>1, <3>2, <3>3
  <2>2. CASE s = SeenCap
    <3>0. q = s /\ s >= 1
      BY <1>1, <1>4, <2>2
    <3>1. CASE k = s
      <4>1. (p + 1) - q + k = p + 1
        BY <1>1, <3>0, <3>1
      <4> QED
        BY <1>3, <1>9, <2>2, <3>1, <4>1 DEF K
    <3>2. CASE k \in 1 .. s - 1
      <4>1. k + 1 \in 1 .. s /\ (p + 1) - q + k = p - s + (k + 1)
        BY <1>1, <3>0, <3>2
      <4>2. PICK j \in 1 .. p : j = p - s + (k + 1) /\ seen[t][k + 1] = KeyOf(t, posted[t][j])
        BY <1>5, <4>1
      <4>3. seen'[t][k] = seen[t][k + 1] /\ posted'[t][j] = posted[t][j]
        BY <1>3, <1>9, <2>2, <3>2
      <4> QED
        BY <4>1, <4>2, <4>3
    <3>3. k = s \/ k \in 1 .. s - 1
      BY <1>1, <3>0
    <3> QED
      BY <3>1, <3>2, <3>3
  <2>3. s < SeenCap \/ s = SeenCap
    BY <1>1
  <2> QED
    BY <2>1, <2>2, <2>3
<1>12. FilterInv(t)'
  <2>1. Len(seen'[t]) = q /\ Len(posted'[t]) = p + 1
    BY <1>3 DEF q
  <2> QED
    BY <1>10, <1>11, <2>1 DEF FilterInv, KeyOf
<1>13. ASSUME NEW a \in 1 .. p + 1, NEW b \in 1 .. p + 1, a < b,
              KeyOf(t, posted'[t][a]) = KeyOf(t, posted'[t][b])
       PROVE  b - a > SeenCap
  <2>0. a \in 1 .. p
    BY <1>1, <1>13
  <2>1. CASE b \in 1 .. p
    BY <1>0, <1>3, <1>13, <2>0, <2>1 DEF Spaced, p
  <2>2. CASE b = p + 1
    <3>1. KeyOf(t, posted[t][a]) = K
      BY <1>3, <1>13, <2>0, <2>2 DEF K
    <3>2. CASE a - (p - s) >= 1
      <4>1. PICK k \in 1 .. s : p - s + k = a
        <5>1. a - (p - s) \in 1 .. s /\ p - s + (a - (p - s)) = a
          BY <1>1, <2>0, <3>2
        <5> QED
          BY <5>1
      <4>2. seen[t][k] = K
        BY <1>5, <3>1, <4>1
      <4> QED
        BY <1>7, <4>2
    <3>3. CASE ~ (a - (p - s) >= 1)
      BY <1>1, <2>0, <2>2, <3>3
    <3> QED
      BY <3>2, <3>3
  <2> QED
    BY <1>1, <2>1, <2>2
<1>14. Spaced(t)'
  BY <1>3, <1>13 DEF Spaced, KeyOf
<1> QED
  BY <1>12, <1>14

\* A frame that is handed over has been shown then, or cannot be.
LEMMA ShownNow ==
    ASSUME Inv, NEW t \in Topic, NEW f \in Frame, FrameInv(t, f), Shows(t, f)
    PROVE  /\ UNCHANGED <<mode, log, half, stored, conn, after, joined, found, passed>>
           /\ \/ /\ FirstSeen(t, f) /\ ever'[t] = ever[t] \cup {f.i}
                 /\ posted'[t] = Append(posted[t], f) /\ seen'[t] = Remember(t, f)
                 /\ saving'[t] = saving[t] \cup ({f.seq} \ {0})
              \/ ever'[t] = ever[t] /\ posted'[t] = posted[t] /\ seen'[t] = seen[t]
                 /\ saving'[t] = saving[t]
           /\ Lasts(t)
           /\ Shown(t, f.i)'
           /\ f.seq > 0 \/ mode[t] = "ENCRYPTED" => f.i \in ever'[t] \/ Unopenable(t, f.i)'
<1>0. /\ TypeOK /\ ChanInv(t) /\ PostedInv(t) /\ FilterInv(t)
      /\ seen \in [Topic -> Seq(Key)] /\ posted \in [Topic -> Seq(Frame)]
      /\ ever \in [Topic -> SUBSET Message] /\ saving \in [Topic -> SUBSET Message]
  BY DEF Inv, TypeOK
<1>1. UNCHANGED <<mode, log, half, stored, conn, after, joined, found, passed>>
  BY DEF Shows, chanVars, shelfVars
<1>2. \/ /\ ~ Unopenable(t, f.i) /\ FirstSeen(t, f) /\ ever'[t] = ever[t] \cup {f.i}
         /\ posted'[t] = Append(posted[t], f) /\ seen'[t] = Remember(t, f)
         /\ saving'[t] = saving[t] \cup ({f.seq} \ {0})
      \/ /\ Unopenable(t, f.i) \/ ~ FirstSeen(t, f)
         /\ UNCHANGED <<ever, posted, seen, saving>>
  BY <1>0 DEF Shows, filterVars
<1>3. Lasts(t)
  <2>1. Extends(log[t], log[t]) /\ Extends(stored[t], stored[t])
    BY <1>0, Same
  <2> QED
    BY <1>1, <1>2, <2>1 DEF Lasts
<1>4. CASE Unopenable(t, f.i)
  <2>1. Unopenable(t, f.i)'
    BY <1>1, <1>4 DEF Unopenable
  <2> QED
    BY <1>1, <1>2, <1>3, <2>1 DEF Shown, Unopenable
<1>5. CASE ~ Unopenable(t, f.i) /\ FirstSeen(t, f)
  <2>1. f.i \in ever'[t]
    BY <1>2, <1>5
  <2> QED
    BY <1>1, <1>2, <1>3, <1>5, <2>1 DEF Shown
<1>6. CASE ~ FirstSeen(t, f)
  <2>1. Shown(t, f.i) /\ (f.seq > 0 \/ mode[t] = "ENCRYPTED" => f.i \in ever[t])
    BY <1>0, <1>6, RejectedWasShown
  <2>2. Shown(t, f.i)'
    BY <1>1, <1>2, <1>6, <2>1 DEF Shown, Unopenable
  <2> QED
    BY <1>1, <1>2, <1>3, <1>6, <2>1, <2>2
<1> QED
  BY <1>4, <1>5, <1>6

\* What receiving does to topic t.
LEMMA ReceiveShows ==
    ASSUME Inv, NEW t \in Topic, Receive(t)
    PROVE  \E f \in Frame :
               /\ conn[t] = "streaming" /\ FrameInv(t, f) /\ Shows(t, f)
               /\ \/ /\ wire'[t] = wire[t]
                     /\ \E k \in backlog[t] :
                           /\ \A j \in backlog[t] : k <= j
                           /\ backlog'[t] = backlog[t] \ {k}
                           /\ f.i = stored[t][k] /\ k \in 1 .. Len(stored[t])
                           /\ f.seq = IF mode[t] = "ENCRYPTED" THEN 0 ELSE k
                           /\ Covered(t, k)'
                  \/ /\ backlog'[t] = {} /\ backlog[t] = {} /\ wire[t] # <<>>
                     /\ wire'[t] = Tail(wire[t]) /\ f.i = Head(wire[t]) /\ f.seq = 0
<1>0. /\ TypeOK /\ ChanInv(t) /\ QueueInv(t) /\ wire \in [Topic -> Seq(Message)]
      /\ backlog \in [Topic -> SUBSET Message]
  BY DEF Inv, TypeOK
<1>1. PICK f \in Frame :
          /\ conn[t] = "streaming" /\ FrameInv(t, f) /\ Shows(t, f)
          /\ \/ /\ wire' = wire
                /\ \E k \in backlog[t] :
                      /\ \A j \in backlog[t] : k <= j
                      /\ backlog' = [backlog EXCEPT ![t] = @ \ {k}]
                      /\ f.i = stored[t][k]
                      /\ f.seq = IF mode[t] = "ENCRYPTED" THEN 0 ELSE k
             \/ /\ backlog' = backlog /\ backlog[t] = {} /\ wire[t] # <<>>
                /\ wire' = [wire EXCEPT ![t] = Tail(@)]
                /\ f.i = Head(wire[t]) /\ f.seq = 0
  BY <1>0, ReceiveDoes
<1>2. ASSUME NEW k \in backlog[t], f.i = stored[t][k],
             f.seq = IF mode[t] = "ENCRYPTED" THEN 0 ELSE k
      PROVE  k \in 1 .. Len(stored[t]) /\ Covered(t, k)'
  <2>1. k \in 1 .. Len(stored[t]) /\ k > 0
    <3>1. k \in 1 .. Len(stored[t]) /\ Len(stored[t]) \in Nat
      BY <1>0, Lengths DEF QueueInv
    <3> QED
      BY <3>1
  <2>2. f.seq > 0 \/ mode[t] = "ENCRYPTED"
    BY <1>2, <2>1
  <2>3. f.i \in ever'[t] \/ Unopenable(t, f.i)'
    BY <1>1, <2>2, ShownNow
  <2>4. stored'[t][k] = f.i
    BY <1>1, <1>2, ShownNow
  <2> QED
    BY <2>1, <2>3, <2>4 DEF Covered, Unopenable
<1>3. CASE wire' = wire
  BY <1>0, <1>1, <1>2, <1>3
<1>4. CASE backlog' = backlog /\ backlog[t] = {}
  BY <1>0, <1>1, <1>4
<1> QED
  BY <1>1, <1>3, <1>4

LEMMA ReceiveStep ==
    ASSUME Inv, TypeOK', NEW t \in Topic, Receive(t)
    PROVE  Stream(t)'
<1> DEFINE w == Len(wire[t])
           n == Len(log[t])
           s == Len(stored[t])
<1>0. Stream(t) /\ TypeOK /\ ChanInv(t) /\ Reaches(t, after[t])
  BY DEF Inv, Stream, CursorsCovered
<1>1. PICK f \in Frame :
          /\ conn[t] = "streaming" /\ FrameInv(t, f) /\ Shows(t, f)
          /\ \/ /\ wire'[t] = wire[t]
                /\ \E k \in backlog[t] :
                      /\ \A j \in backlog[t] : k <= j
                      /\ backlog'[t] = backlog[t] \ {k}
                      /\ f.i = stored[t][k] /\ k \in 1 .. Len(stored[t])
                      /\ f.seq = IF mode[t] = "ENCRYPTED" THEN 0 ELSE k
                      /\ Covered(t, k)'
             \/ /\ backlog'[t] = {} /\ backlog[t] = {} /\ wire[t] # <<>>
                /\ wire'[t] = Tail(wire[t]) /\ f.i = Head(wire[t]) /\ f.seq = 0
  BY ReceiveShows
<1>2. /\ UNCHANGED <<mode, log, half, stored, conn, after, joined, found, passed>>
      /\ \/ /\ FirstSeen(t, f) /\ ever'[t] = ever[t] \cup {f.i}
            /\ posted'[t] = Append(posted[t], f) /\ seen'[t] = Remember(t, f)
         \/ ever'[t] = ever[t] /\ posted'[t] = posted[t] /\ seen'[t] = seen[t]
      /\ Lasts(t) /\ Shown(t, f.i)'
  BY <1>1, ShownNow
<1>3. /\ \A i \in 1 .. n : Shown(t, i) => Shown(t, i)'
      /\ \A k \in 1 .. s : Covered(t, k) => Covered(t, k)'
      /\ \A g \in Frame : FrameInv(t, g) => FrameInv(t, g)' /\ g.i \in 1 .. n
  BY <1>0, <1>2, Lasting DEF Stream
<1>4. f.i \in 1 .. n /\ f.i <= n
  BY <1>1, <1>3 DEF FrameInv
<1>5. /\ posted[t] \in Seq(Frame) /\ wire[t] \in Seq(Message) /\ n \in Nat /\ s \in Nat
      /\ \A k \in 1 .. s : stored[t][k] \in 1 .. n
  <2>1. posted[t] \in Seq(Frame) /\ wire[t] \in Seq(Message)
    BY <1>0 DEF TypeOK
  <2>2. n \in Nat /\ s \in 0 .. n /\ \A k \in 1 .. s : stored[t][k] \in 1 .. n
    BY <1>0, Lengths
  <2> QED
    BY <2>1, <2>2
<1>6. PostedInv(t)'
  <2>1. ever'[t] \subseteq 1 .. n
    BY <1>0, <1>2, <1>4 DEF Stream, PostedInv
  <2>2. ASSUME NEW k \in 1 .. Len(posted'[t])
        PROVE  FrameInv(t, posted'[t][k]) /\ posted'[t][k].i \in ever'[t]
    <3>1. CASE posted'[t] = posted[t]
      BY <1>0, <1>2, <2>2, <3>1 DEF Stream, PostedInv
    <3>2. CASE posted'[t] = Append(posted[t], f) /\ ever'[t] = ever[t] \cup {f.i}
      <4>1. /\ Len(posted[t]) \in Nat /\ Len(posted'[t]) = Len(posted[t]) + 1
            /\ posted'[t][Len(posted[t]) + 1] = f
            /\ \A j \in 1 .. Len(posted[t]) : posted'[t][j] = posted[t][j]
        BY <1>5, <3>2
      <4>2. CASE k \in 1 .. Len(posted[t])
        BY <1>0, <3>2, <4>1, <4>2 DEF Stream, PostedInv
      <4>3. CASE k = Len(posted[t]) + 1
        BY <1>1, <3>2, <4>1, <4>3
      <4>4. k \in 1 .. Len(posted[t]) \/ k = Len(posted[t]) + 1
        BY <2>2, <4>1
      <4> QED
        BY <4>2, <4>3, <4>4
    <3> QED
      BY <1>2, <3>1, <3>2
  <2> QED
    BY <1>2, <2>1, <2>2 DEF PostedInv, FrameInv
<1>7. FilterInv(t)' /\ Spaced(t)'
  <2>1. CASE FirstSeen(t, f) /\ posted'[t] = Append(posted[t], f) /\ seen'[t] = Remember(t, f)
    BY <1>2, <1>4, <2>1, WindowMoves
  <2>2. CASE posted'[t] = posted[t] /\ seen'[t] = seen[t]
    BY <1>0, <1>2, <2>2 DEF Stream, FilterInv, Spaced, KeyOf
  <2> QED
    BY <1>2, <2>1, <2>2
<1>8. CASE wire'[t] = wire[t] /\ backlog'[t] # backlog[t]
  <2>1. PICK k \in backlog[t] :
            /\ backlog'[t] = backlog[t] \ {k} /\ k \in 1 .. s
            /\ f.i = stored[t][k] /\ Covered(t, k)'
    BY <1>1, <1>8
  <2>2. QueueInv(t)'
    <3>1. ASSUME NEW m \in backlog'[t], NEW j \in 1 .. m
          PROVE  Covered(t, j)' \/ j \in backlog'[t]
      <4>1. m \in backlog[t] /\ m \in 1 .. s
        BY <1>0, <2>1 DEF Stream, QueueInv
      <4>2. j \in 1 .. s
        <5> HIDE DEF s
        <5> QED
          BY <1>5, <4>1
      <4>3. Covered(t, j) \/ j \in backlog[t]
        BY <1>0, <4>1 DEF Stream, QueueInv
      <4> QED
        BY <1>3, <2>1, <4>2, <4>3
    <3>2. backlog'[t] \subseteq 1 .. s
      BY <1>0, <2>1 DEF Stream, QueueInv
    <3> QED
      BY <1>0, <1>2, <1>8, <3>1, <3>2 DEF Stream, QueueInv
  <2>3. \A i : OnWire(t, i)' <=> OnWire(t, i)
    BY <1>8 DEF OnWire
  <2>4. ASSUME conn[t] = "streaming", NEW j \in 1 .. s PROVE Settled(t, j)'
    <3>1. PICK i \in 1 .. n : i = stored[t][j] /\ i = stored'[t][j]
      BY <1>2, <1>5
    <3>2. CASE j = k
      BY <1>2, <2>1, <3>1, <3>2 DEF Settled, Shown, Unopenable
    <3>3. CASE j # k
      <4>1. \/ Shown(t, i) \/ j \in passed[t] \/ j \in backlog[t] \/ OnWire(t, i)
            \/ LeftOut(t, j)
        BY <1>0, <2>4, <3>1 DEF Stream, Complete, Settled
      <4>2. LeftOut(t, j)' <=> LeftOut(t, j)
        BY <1>2 DEF LeftOut, BeyondBatch
      <4>3. \/ Shown(t, i)' \/ j \in passed'[t] \/ j \in backlog'[t] \/ OnWire(t, i)'
            \/ LeftOut(t, j)'
        BY <1>2, <1>3, <2>1, <2>3, <3>3, <4>1, <4>2
      <4> QED
        BY <3>1, <4>3 DEF Settled, Shown, OnWire, Unopenable
    <3> QED
      BY <3>2, <3>3
  <2>5. ASSUME conn[t] \in Subscribed, NEW i \in Aired(t) \ joined[t]
        PROVE  Shown(t, i)' \/ OnWire(t, i)'
    <3>1. Shown(t, i) \/ OnWire(t, i)
      BY <1>0, <2>5 DEF Stream, Complete
    <3>2. i \in 1 .. n
      BY <2>5 DEF Aired
    <3> QED
      BY <1>3, <2>3, <3>1, <3>2
  <2>6. Complete(t)'
    BY <1>2, <2>4, <2>5 DEF Complete, Aired
  <2> QED
    BY <1>6, <1>7, <2>2, <2>6 DEF Stream
<1>9. CASE backlog'[t] = backlog[t] /\ wire[t] # <<>> /\ wire'[t] = Tail(wire[t])
           /\ f.i = Head(wire[t])
  <2>1. /\ w \in Nat \ {0} /\ Len(wire'[t]) = w - 1 /\ wire[t][1] = f.i
        /\ \A k \in 1 .. w - 1 : wire'[t][k] = wire[t][k + 1]
    BY <1>5, <1>9
  <2> HIDE DEF w
  <2>2. /\ \A k \in 1 .. w - 1 : k + 1 \in 1 .. w
        /\ \A k \in 1 .. w : k = 1 \/ (k - 1 \in 1 .. w - 1 /\ (k - 1) + 1 = k)
    BY <2>1
  <2>3. QueueInv(t)'
    <3>1. \A k \in 1 .. Len(wire'[t]) : wire'[t][k] <= n
      BY <1>0, <2>1, <2>2 DEF Stream, QueueInv, w
    <3>2. ASSUME NEW m \in backlog'[t], NEW j \in 1 .. m
          PROVE  Covered(t, j)' \/ j \in backlog'[t]
      <4>1. m \in backlog[t] /\ m \in 1 .. s
        BY <1>0, <1>9 DEF Stream, QueueInv
      <4>2. j \in 1 .. s
        <5> HIDE DEF s
        <5> QED
          BY <1>5, <4>1
      <4>3. Covered(t, j) \/ j \in backlog[t]
        BY <1>0, <4>1 DEF Stream, QueueInv
      <4> QED
        BY <1>3, <1>9, <4>2, <4>3
    <3> QED
      BY <1>0, <1>2, <1>9, <3>1, <3>2 DEF Stream, QueueInv
  <2>4. ASSUME NEW i, OnWire(t, i) PROVE i = f.i \/ OnWire(t, i)'
    <3>1. PICK k \in 1 .. w : wire[t][k] = i
      BY <2>4 DEF OnWire, w
    <3>2. CASE k # 1
      <4>1. k - 1 \in 1 .. Len(wire'[t]) /\ wire'[t][k - 1] = i
        BY <2>1, <2>2, <3>1, <3>2
      <4> QED
        BY <4>1 DEF OnWire
    <3> QED
      BY <2>1, <3>1, <3>2
  <2>5. ASSUME conn[t] = "streaming", NEW j \in 1 .. s PROVE Settled(t, j)'
    <3>1. PICK i \in 1 .. n : i = stored[t][j] /\ i = stored'[t][j]
      BY <1>2, <1>5
    <3>2. \/ Shown(t, i) \/ j \in passed[t] \/ j \in backlog[t] \/ OnWire(t, i)
          \/ LeftOut(t, j)
      BY <1>0, <2>5, <3>1 DEF Stream, Complete, Settled
    <3>3. LeftOut(t, j)' <=> LeftOut(t, j)
      BY <1>2 DEF LeftOut, BeyondBatch
    <3>4. OnWire(t, i) => Shown(t, i)' \/ OnWire(t, i)'
      BY <1>2, <2>4 DEF Shown, Unopenable
    <3>5. \/ Shown(t, i)' \/ j \in passed'[t] \/ j \in backlog'[t] \/ OnWire(t, i)'
          \/ LeftOut(t, j)'
      BY <1>2, <1>3, <1>9, <3>2, <3>3, <3>4
    <3> QED
      BY <3>1, <3>5 DEF Settled, Shown, OnWire, Unopenable
  <2>6. ASSUME conn[t] \in Subscribed, NEW i \in Aired(t) \ joined[t]
        PROVE  Shown(t, i)' \/ OnWire(t, i)'
    <3>1. Shown(t, i) \/ OnWire(t, i)
      BY <1>0, <2>6 DEF Stream, Complete
    <3>2. i \in 1 .. n
      BY <2>6 DEF Aired
    <3>3. i = f.i => Shown(t, i)'
      BY <1>2
    <3> QED
      BY <1>3, <2>4, <3>1, <3>2, <3>3
  <2>7. Complete(t)'
    BY <1>2, <2>5, <2>6 DEF Complete, Aired
  <2> QED
    BY <1>6, <1>7, <2>3, <2>7 DEF Stream
<1> QED
  BY <1>1, <1>8, <1>9

-----------------------------------------------------------------------------
(* The catch-up *)

\* The batch is the lowest entries past the cursor: below one of them every entry
\* past the cursor is in it, and before any other a whole batch of entries lies.
LEMMA WindowIsLowest ==
    ASSUME TypeOK, NEW t \in Topic, ChanInv(t)
    PROVE  /\ \A m \in Window(t), k \in kept[t] : after[t] < k /\ k < m => k \in Window(t)
           /\ \A k \in kept[t] : after[t] < k /\ k \notin Window(t) =>
                 Cardinality({j \in kept[t] : after[t] < j /\ j < k}) >= Batch
<1> DEFINE a == after[t]
           S == {k \in kept[t] : k > a}
           Below(k) == {j \in S : j < k}
<1>1. /\ a \in Nat /\ Batch \in Nat /\ kept[t] \subseteq Nat
      /\ kept[t] \subseteq 1 .. Len(stored[t]) /\ Len(stored[t]) \in Nat
  <2>1. Message \subseteq Nat
    BY Bounds DEF Message
  <2>2. a \in Nat /\ kept[t] \subseteq Message /\ Batch \in Nat
    BY Bounds DEF TypeOK
  <2>3. kept[t] \subseteq 1 .. Len(stored[t]) /\ Len(stored[t]) \in Nat
    BY Lengths DEF ChanInv
  <2> QED
    BY <2>1, <2>2, <2>3
<1>2. IsFiniteSet(kept[t])
  <2>1. Len(stored[t]) \in Int
    BY <1>1
  <2>2. IsFiniteSet(1 .. Len(stored[t]))
    BY <2>1, FS_Interval
  <2> QED
    BY <1>1, <2>2, FS_Subset
<1>3. \A k : IsFiniteSet(Below(k)) /\ Cardinality(Below(k)) \in Nat
  <2>1. \A k : Below(k) \subseteq kept[t]
    OBVIOUS
  <2>2. \A k : IsFiniteSet(Below(k))
    BY <1>2, <2>1, FS_Subset
  <2> QED
    BY <2>2, FS_CardinalityType
<1>4. \A k : k \in Window(t) <=> k \in S /\ Cardinality(Below(k)) < Batch
  BY DEF Window, Lowest
<1>5. ASSUME NEW m \in Window(t), NEW k \in kept[t], a < k, k < m PROVE k \in Window(t)
  <2>1. m \in S /\ Cardinality(Below(m)) < Batch
    BY <1>4
  <2>2. m \in Nat /\ k \in Nat /\ S \subseteq Nat
    BY <1>1, <2>1
  <2>3. Below(k) \subseteq Below(m)
    <3>1. \A j \in S : j < k => j < m
      BY <1>5, <2>2
    <3> QED
      BY <3>1
  <2>4. Cardinality(Below(k)) <= Cardinality(Below(m))
    BY <1>3, <2>3, FS_Subset
  <2>5. Cardinality(Below(k)) < Batch
    <3>1. \A x, y \in Nat : x <= y /\ y < Batch => x < Batch
      BY <1>1
    <3> HIDE DEF Below
    <3> QED
      BY <1>3, <2>1, <2>4, <3>1
  <2>6. k \in S
    BY <1>5, <1>1
  <2> QED
    BY <1>4, <2>5, <2>6
<1>6. ASSUME NEW k \in kept[t], a < k, k \notin Window(t)
      PROVE  Cardinality({j \in kept[t] : a < j /\ j < k}) >= Batch
  <2>1. k \in S
    BY <1>1, <1>6
  <2>2. ~ (Cardinality(Below(k)) < Batch)
    BY <1>4, <1>6, <2>1
  <2>3. Below(k) = {j \in kept[t] : a < j /\ j < k}
    BY <1>1
  <2>4. Cardinality(Below(k)) >= Batch
    <3>1. \A x \in Nat : ~ (x < Batch) => x >= Batch
      BY <1>1
    <3> HIDE DEF Below
    <3> QED
      BY <1>3, <2>2, <3>1
  <2> QED
    BY <2>3, <2>4
<1> QED
  BY <1>5, <1>6

\* The broker goes over to streaming, with or without a replay.
LEMMA StreamsFrom ==
    ASSUME Inv, NEW t \in Topic, CatchUp(t) \/ NoReplay(t)
    PROVE  /\ UNCHANGED <<mode, log, half, stored, kept, seen, posted, ever>>
           /\ after' = after /\ wire' = wire /\ joined' = joined
           /\ conn[t] = "subscribed" /\ conn'[t] = "streaming" /\ Lasts(t)
           /\ NoReplay(t) => /\ UNCHANGED <<backlog, found, passed>>
                             /\ ~ found[t].done
           /\ CatchUp(t) => /\ backlog'[t] = Window(t) \ expired[t]
                            /\ found'[t] = [done |-> TRUE, kept |-> kept[t],
                                            newest |-> Len(stored[t])]
                            /\ passed'[t] = passed[t] \cup
                                 ((after[t] + 1 .. Len(stored[t])) \ (kept[t] \ expired[t]))
<1>0. /\ TypeOK /\ conn \in [Topic -> ConnStage] /\ backlog \in [Topic -> SUBSET Message]
      /\ found \in [Topic -> CatchUpFound] /\ passed \in [Topic -> SUBSET Message]
  BY DEF Inv, TypeOK
<1>1. UNCHANGED <<mode, log, half, stored, kept, seen, posted, ever>>
  BY <1>0, Elsewhere DEF chanVars, shelfVars, filterVars
<1>2. /\ after' = after /\ wire' = wire /\ joined' = joined
      /\ conn[t] = "subscribed" /\ conn'[t] = "streaming"
  BY <1>0 DEF CatchUp, NoReplay, Moves, feedVars
<1>3. /\ NoReplay(t) => UNCHANGED <<backlog, found, passed>>
      /\ CatchUp(t) => /\ backlog'[t] = Window(t) \ expired[t]
                       /\ found'[t] = [done |-> TRUE, kept |-> kept[t],
                                       newest |-> Len(stored[t])]
                       /\ passed'[t] = passed[t] \cup
                            ((after[t] + 1 .. Len(stored[t])) \ (kept[t] \ expired[t]))
  BY <1>0 DEF CatchUp, NoReplay, feedVars
<1>4. ~ found[t].done
  BY <1>2, Idle
<1>5. Lasts(t)
  BY <1>0, <1>1, <1>3, Same DEF Lasts
<1> QED
  BY <1>1, <1>2, <1>3, <1>4, <1>5

LEMMA CatchUpStep ==
    ASSUME Inv, TypeOK', NEW t \in Topic, CatchUp(t) \/ NoReplay(t)
    PROVE  Stream(t)'
<1> DEFINE n == Len(log[t])
           s == Len(stored[t])
           a == after[t]
<1>0. Stream(t) /\ TypeOK /\ ChanInv(t) /\ Reaches(t, a)
  BY DEF Inv, Stream, CursorsCovered
<1>1. /\ UNCHANGED <<mode, log, half, stored, kept, seen, posted, ever>>
      /\ after' = after /\ wire' = wire /\ joined' = joined
      /\ conn[t] = "subscribed" /\ conn'[t] = "streaming" /\ Lasts(t)
  BY StreamsFrom
<1>2. /\ \A i \in 1 .. n : Shown(t, i) => Shown(t, i)'
      /\ \A k \in 1 .. s : Covered(t, k) => Covered(t, k)'
  BY <1>0, <1>1, Lasting DEF Stream
<1>3. /\ a \in Nat /\ n \in Nat /\ s \in Nat /\ a <= s
      /\ \A k \in 1 .. s : stored[t][k] \in 1 .. n
  <2>1. a \in Nat
    BY <1>0 DEF TypeOK
  <2>2. n \in Nat /\ s \in 0 .. n /\ \A k \in 1 .. s : stored[t][k] \in 1 .. n
    BY <1>0, Lengths
  <2>3. a <= s
    BY <1>0 DEF Reaches
  <2> QED
    BY <2>1, <2>2, <2>3
<1>4. PostedInv(t)'
  BY <1>0, <1>1 DEF Stream, PostedInv, FrameInv
<1>5. FilterInv(t)' /\ Spaced(t)'
  BY <1>0, <1>1 DEF Stream, FilterInv, Spaced, KeyOf
<1>6. \A i : OnWire(t, i)' <=> OnWire(t, i)
  BY <1>1 DEF OnWire
<1>7. ASSUME NEW i \in Aired(t) \ joined[t] PROVE Shown(t, i)' \/ OnWire(t, i)'
  <2>1. Shown(t, i) \/ OnWire(t, i)
    BY <1>0, <1>1 DEF Stream, Complete, Subscribed
  <2>2. i \in 1 .. n
    BY DEF Aired
  <2> QED
    BY <1>2, <1>6, <2>1, <2>2
<1>8. ASSUME NEW k \in 1 .. s, Covered(t, k)' PROVE Settled(t, k)'
  BY <1>8 DEF Covered, Settled, Shown
<1>9. ASSUME NEW k \in 1 .. s, k <= a PROVE Covered(t, k)'
  <2>1. k \in 1 .. a
    <3> HIDE DEF a, s
    <3> QED
      BY <1>3, <1>9
  <2> QED
    BY <1>0, <1>2, <2>1 DEF Reaches
<1>10. CASE NoReplay(t)
  <2>1. UNCHANGED <<backlog, found, passed>> /\ ~ found[t].done
    BY <1>10, StreamsFrom
  <2>2. QueueInv(t)'
    <3>1. ASSUME NEW m \in backlog[t], NEW j \in 1 .. m
          PROVE  Covered(t, j)' \/ j \in backlog[t]
      BY <1>0, <1>1, <2>1 DEF Stream, QueueInv, Covered, Unopenable
    <3> QED
      BY <1>0, <1>1, <2>1, <3>1 DEF Stream, QueueInv
  <2>3. ASSUME NEW k \in 1 .. s PROVE Settled(t, k)'
    <3>1. CASE k > a
      BY <1>1, <2>1, <3>1 DEF Settled, LeftOut
    <3>2. CASE k <= a
      BY <1>8, <1>9, <3>2
    <3> HIDE DEF a, s
    <3> QED
      BY <1>3, <3>1, <3>2
  <2>4. Complete(t)'
    BY <1>1, <1>7, <2>3 DEF Complete, Aired
  <2> QED
    BY <1>4, <1>5, <2>2, <2>4 DEF Stream
<1>11. CASE CatchUp(t)
  <2>1. /\ backlog'[t] = Window(t) \ expired[t]
        /\ found'[t] = [done |-> TRUE, kept |-> kept[t], newest |-> s]
        /\ passed'[t] = passed[t] \cup ((a + 1 .. s) \ (kept[t] \ expired[t]))
    BY <1>11, StreamsFrom
  <2>2. found'[t].done /\ found'[t].kept = kept[t] /\ found'[t].newest = s
    BY <2>1
  <2>3. /\ kept[t] \subseteq 1 .. s /\ Window(t) \subseteq kept[t]
        /\ backlog'[t] \subseteq 1 .. s
    BY <1>0, <2>1, WindowIsKept DEF ChanInv
  <2>4. ASSUME NEW k \in 1 .. s, k > a PROVE k \in passed'[t] \/ k \in kept[t] \ expired[t]
    <3>1. k \in a + 1 .. s
      <4> HIDE DEF a, s
      <4> QED
        BY <1>3, <2>4
    <3> QED
      BY <2>1, <3>1
  <2>5. ASSUME NEW m \in backlog'[t], NEW k \in 1 .. m
        PROVE  Covered(t, k)' \/ k \in backlog'[t]
    <3>1. m \in 1 .. s /\ m \in Window(t)
      BY <2>1, <2>3
    <3>2. k \in 1 .. s /\ (k = m \/ k < m) /\ (k <= a \/ a < k)
      <4> HIDE DEF a, s
      <4> QED
        BY <1>3, <3>1
    <3>3. CASE k = m
      BY <3>3
    <3>4. CASE k <= a
      BY <1>9, <3>2, <3>4
    <3>5. CASE k < m /\ a < k
      <4>1. CASE k \in passed'[t]
        BY <4>1 DEF Covered
      <4>2. CASE k \in kept[t] \ expired[t]
        BY <1>0, <2>1, <3>1, <3>5, <4>2, WindowIsLowest
      <4>3. k > a
        <5> HIDE DEF a, s
        <5> QED
          BY <1>3, <3>2, <3>5
      <4> QED
        BY <2>4, <3>2, <4>1, <4>2, <4>3
    <3> QED
      BY <3>2, <3>3, <3>4, <3>5
  <2>6. QueueInv(t)'
    BY <1>0, <1>1, <1>3, <2>2, <2>3, <2>5 DEF Stream, QueueInv
  <2>7. ASSUME NEW k \in 1 .. s PROVE Settled(t, k)'
    <3>0. (k <= a \/ (a < k /\ k > a)) /\ k <= s
      <4> HIDE DEF a, s
      <4> QED
        BY <1>3
    <3>1. CASE k <= a
      BY <1>8, <1>9, <3>1
    <3>2. CASE k > a /\ a < k
      <4>1. CASE k \in passed'[t]
        BY <4>1 DEF Settled
      <4>2. CASE k \in kept[t] \ expired[t] /\ k \in Window(t)
        BY <2>1, <4>2 DEF Settled
      <4>3. CASE k \in kept[t] \ expired[t] /\ k \notin Window(t)
        <5>1. Cardinality({j \in kept[t] : a < j /\ j < k}) >= Batch
          BY <1>0, <3>2, <4>3, WindowIsLowest
        <5>2. BeyondBatch(t, k)'
          BY <1>1, <2>2, <5>1 DEF BeyondBatch
        <5>3. LeftOut(t, k)'
          BY <1>1, <2>2, <3>0, <3>2, <5>2 DEF LeftOut
        <5> QED
          BY <5>3 DEF Settled
      <4> QED
        BY <2>4, <3>2, <4>1, <4>2, <4>3
    <3> QED
      BY <3>0, <3>1, <3>2
  <2>8. Complete(t)'
    BY <1>1, <1>7, <2>7 DEF Complete, Aired
  <2> QED
    BY <1>4, <1>5, <2>6, <2>8 DEF Stream
<1> QED
  BY <1>10, <1>11

-----------------------------------------------------------------------------
(* The cursors *)

\* Without a message received every cursor of a topic is one there was, and a
\* snapshot holds the one that is saved.
LEMMA CursorSources ==
    ASSUME Inv, [Next]_vars, NEW u \in Topic, ~ Receive(u)
    PROVE  /\ cursor'[u] = cursor[u] \/ cursor'[u] \in saving[u]
           /\ saving'[u] \subseteq saving[u]
           /\ \/ snapshot' = snapshot \/ snapshot' = NoSnapshot
              \/ u \in DOMAIN snapshot' => snapshot'[u] = cursor[u]
           /\ \/ after'[u] = after[u]
              \/ /\ snapshot # NoSnapshot /\ u \in DOMAIN snapshot
                 /\ after'[u] = snapshot[u]
<1>0. /\ cursor \in [Topic -> 0..MaxLog] /\ saving \in [Topic -> SUBSET Message]
      /\ TypeOK /\ \A t \in Topic : ChanInv(t) /\ QueueInv(t)
  BY DEF Inv, TypeOK
<1>1. ASSUME UNCHANGED <<cursor, saving, snapshot, after>> PROVE
      /\ cursor'[u] = cursor[u] /\ saving'[u] \subseteq saving[u]
      /\ snapshot' = snapshot /\ after'[u] = after[u]
  BY <1>1
<1>2. ASSUME NEW t \in Topic, ChannelStep(t) PROVE UNCHANGED <<cursor, saving, snapshot, after>>
  BY <1>0, <1>2, ChannelSteps DEF Channel, storeVars, flowVars
<1>3. ASSUME NEW t \in Topic, UserStep(t) PROVE UNCHANGED <<cursor, saving, snapshot, after>>
  BY <1>3 DEF UserStep, AddTopic, RemoveTopic, RemoveSecret, flowVars, linkVars
<1>4. ASSUME NEW t \in Topic, SaveCursor(t)
      PROVE  /\ UNCHANGED <<snapshot, after>>
             /\ cursor'[u] = cursor[u] \/ cursor'[u] \in saving[u]
             /\ saving'[u] \subseteq saving[u]
  <2>1. PICK n \in saving[t] :
            /\ saving' = [saving EXCEPT ![t] = @ \ {n}]
            /\ \/ cursor' = [cursor EXCEPT ![t] = n]
               \/ cursor' = cursor
            /\ UNCHANGED <<snapshot, after>>
    BY <1>4 DEF SaveCursor, linkVars
  <2> QED
    BY <1>0, <2>1
<1>5. ASSUME NEW t \in Topic, JobStep(t) \/ Answer(t) \/ Refuse(t)
      PROVE  UNCHANGED <<cursor, saving, snapshot, after>>
  BY <1>0, <1>5, Elsewhere, MoveDoes DEF storeVars, flowVars
<1>6. ASSUME NEW t \in Topic, Accept(t) \/ Drop(t) \/ CatchUp(t) \/ NoReplay(t)
      PROVE  UNCHANGED <<cursor, saving, snapshot, after>>
  BY <1>6 DEF Accept, Drop, CatchUp, NoReplay, Moves, storeVars, flowVars
<1>7. ASSUME NEW t \in Topic, Receive(t), t # u
      PROVE  UNCHANGED <<cursor, snapshot, after>> /\ saving'[u] = saving[u]
  <2>1. PICK f \in Frame : Shows(t, f)
    BY <1>0, <1>7, ReceiveDoes
  <2>2. /\ \/ saving' = [saving EXCEPT ![t] = @ \cup ({f.seq} \ {0})]
           \/ saving' = saving
        /\ UNCHANGED <<cursor, snapshot, after>>
    BY <2>1 DEF Shows, flowVars
  <2> QED
    BY <1>0, <1>7, <2>2
<1>8. CASE Collect
  <2>1. /\ snapshot' = [t \in {v \in Topic : entry[v] = "listed"} |-> cursor[t]]
        /\ UNCHANGED <<cursor, saving, after>>
    BY <1>8 DEF Collect, storeVars, linkVars
  <2>2. u \in DOMAIN snapshot' => snapshot'[u] = cursor[u]
    BY <2>1
  <2> QED
    BY <2>1, <2>2
<1>9. CASE Sync
  <2>1. /\ snapshot # NoSnapshot /\ snapshot' = NoSnapshot
        /\ after'[u] = IF Starts(u) THEN snapshot[u] ELSE after[u]
        /\ UNCHANGED <<cursor, saving>>
    BY <1>9 DEF Sync, storeVars
  <2> QED
    BY <2>1 DEF Starts
<1>10. CASE Restart
  <2>1. /\ saving' = [t \in Topic |-> {}] /\ snapshot' = NoSnapshot
        /\ UNCHANGED <<cursor, after>>
    BY <1>10 DEF Restart
  <2> QED
    BY <2>1
<1>11. CASE UNCHANGED vars
  BY <1>11 DEF vars, storeVars, flowVars, linkVars
<1> QED
  BY <1>1, <1>2, <1>3, <1>4, <1>5, <1>6, <1>7, <1>8, <1>9, <1>10, <1>11, StepCases

LEMMA LastsAlways == ASSUME Inv, [Next]_vars, NEW u \in Topic PROVE Lasts(u)
<1>1. CASE Still(u)
  BY <1>1 DEF Still
<1>2. CASE CatchUp(u) \/ NoReplay(u)
  BY <1>2, StreamsFrom
<1>3. CASE Receive(u)
  BY <1>3, ReceiveShows, ShownNow
<1> QED
  BY <1>1, <1>2, <1>3, StillCases

LEMMA CursorStep ==
    ASSUME Inv, [Next]_vars, TypeOK', NEW u \in Topic
    PROVE  CursorsCovered(u)'
<1>0. /\ CursorsCovered(u) /\ TypeOK /\ ChanInv(u) /\ PostedInv(u) /\ QueueInv(u)
      /\ Lasts(u)
  BY LastsAlways DEF Inv
<1>1. \A n \in Nat : Reaches(u, n) => Reaches(u, n)'
  BY <1>0, Lasting
<1>2. /\ cursor[u] \in Nat /\ saving[u] \subseteq Nat /\ after[u] \in Nat
      /\ snapshot # NoSnapshot /\ u \in DOMAIN snapshot => snapshot[u] \in Nat
  <2>1. 0 .. MaxLog \subseteq Nat /\ Message \subseteq Nat
    BY Bounds DEF Message
  <2> QED
    BY <1>0, <2>1 DEF TypeOK, Range
<1>3. /\ \A n \in {cursor[u], after[u]} \cup saving[u] : n \in Nat /\ Reaches(u, n)
      /\ snapshot # NoSnapshot /\ u \in DOMAIN snapshot => Reaches(u, snapshot[u])
  BY <1>0, <1>2 DEF CursorsCovered
<1>4. PICK old : old = {cursor[u], after[u]} \cup saving[u] \cup
                       (IF snapshot # NoSnapshot /\ u \in DOMAIN snapshot
                          THEN {snapshot[u]} ELSE {})
  OBVIOUS
<1>5. \A n \in old : Reaches(u, n)'
  BY <1>1, <1>2, <1>3, <1>4
<1>6. CASE ~ Receive(u)
  <2>1. /\ cursor'[u] \in old /\ saving'[u] \subseteq old /\ after'[u] \in old
        /\ snapshot' # NoSnapshot /\ u \in DOMAIN snapshot' => snapshot'[u] \in old
    BY <1>4, <1>6, CursorSources
  <2> QED
    BY <1>5, <2>1 DEF CursorsCovered, Reaches, Covered, Unopenable
<1>7. CASE Receive(u)
  <2>1. UNCHANGED <<cursor, snapshot, after>>
    BY <1>0, <1>7, Elsewhere DEF flowVars
  <2>2. PICK f \in Frame :
            /\ FrameInv(u, f) /\ Shows(u, f)
            /\ \/ /\ \E k \in backlog[u] :
                        /\ \A j \in backlog[u] : k <= j
                        /\ k \in 1 .. Len(stored[u])
                        /\ f.seq = IF mode[u] = "ENCRYPTED" THEN 0 ELSE k
                        /\ Covered(u, k)'
               \/ f.seq = 0
    BY <1>7, ReceiveShows
  <2>3. saving'[u] \subseteq saving[u] \cup ({f.seq} \ {0})
    BY <2>2, ShownNow
  <2>4. ASSUME f.seq # 0 PROVE Reaches(u, f.seq)'
    <3>1. PICK k \in backlog[u] :
              /\ \A j \in backlog[u] : k <= j
              /\ k \in 1 .. Len(stored[u]) /\ f.seq = k /\ Covered(u, k)'
      BY <2>2, <2>4
    <3>2. \A j \in 1 .. k : Covered(u, j) \/ j \in backlog[u]
      BY <1>0 DEF QueueInv
    <3>3. Len(stored[u]) \in Nat /\ backlog[u] \subseteq Nat
      <4>1. stored[u] \in Seq(Message) /\ backlog[u] \subseteq Message
        BY <1>0 DEF TypeOK
      <4>2. Message \subseteq Nat
        BY Bounds DEF Message
      <4>3. Len(stored[u]) \in Nat
        BY <4>1
      <4> QED
        BY <4>1, <4>2, <4>3
    <3>4. \A j \in 1 .. k : j \in 1 .. Len(stored[u]) /\ (j = k \/ ~ (k <= j))
      BY <3>1, <3>3
    <3>5. \A j \in 1 .. k : Covered(u, j)'
      BY <1>0, <3>1, <3>2, <3>4, Lasting
    <3>6. k \in 1 .. Len(stored'[u]) /\ Len(stored'[u]) \in Nat
      BY <1>0, <3>1, Lasting
    <3>7. k <= Len(stored'[u])
      BY <3>6
    <3> QED
      BY <3>1, <3>5, <3>7 DEF Reaches
  <2>5. \A n \in saving'[u] : n \in old \/ (f.seq # 0 /\ n = f.seq)
    BY <1>4, <2>3
  <2>6. /\ cursor'[u] \in old /\ after'[u] \in old
        /\ snapshot' # NoSnapshot /\ u \in DOMAIN snapshot' => snapshot'[u] \in old
    BY <1>4, <2>1
  <2> QED
    BY <1>5, <2>4, <2>5, <2>6 DEF CursorsCovered, Reaches, Covered, Unopenable
<1> QED
  BY <1>6, <1>7

-----------------------------------------------------------------------------
(* The invariant *)

LEMMA Start == Init => Inv
<1> SUFFICES ASSUME Init PROVE Inv
  OBVIOUS
<1>1. /\ MaxLog \in Nat /\ SeenCap \in Nat /\ MaxDrops \in Nat /\ MaxRestarts \in Nat
  BY Bounds
<1>2. TypeOK
  <2>1. /\ <<>> \in Seq(Text) /\ <<>> \in Seq(Frame) /\ <<>> \in Seq(Key)
        /\ <<>> \in Seq(Message)
        /\ Len(<<>>) <= SeenCap /\ 0 \in 0 .. MaxLog /\ {} \subseteq Message
    BY <1>1
  <2>5. mode \in [Topic -> {"ENCRYPTED", "PLAINTEXT", "SEALED"}]
    BY ClientAssumption DEF Init
  <2>2. ChanTypeOK /\ StoreTypeOK /\ FlowTypeOK /\ BoundTypeOK
    BY <1>1, <2>1, <2>5 DEF Init, ChanTypeOK, StoreTypeOK, FlowTypeOK, BoundTypeOK
  <2>3. NoCatchUp \in CatchUpFound
    BY <2>1 DEF NoCatchUp, CatchUpFound
  <2>4. LinkTypeOK /\ FilterTypeOK
    BY <1>1, <2>1, <2>3 DEF Init, LinkTypeOK, FilterTypeOK, ConnStage
  <2> QED
    BY <2>2, <2>4, TypeParts
<1>3. ASSUME NEW t \in Topic
      PROVE  /\ ChanInv(t) /\ PostedInv(t) /\ FilterInv(t) /\ Spaced(t)
             /\ CursorsCovered(t) /\ QueueInv(t) /\ OwnerInv(t) /\ Complete(t)
  <2>1. /\ log[t] = <<>> /\ half[t] = {} /\ stored[t] = <<>> /\ kept[t] = {}
        /\ wire[t] = <<>> /\ backlog[t] = {} /\ found[t] = NoCatchUp
        /\ posted[t] = <<>> /\ seen[t] = <<>>
        /\ ever[t] = {} /\ saving[t] = {} /\ cursor[t] = 0 /\ after[t] = 0
        /\ snapshot = NoSnapshot /\ conn[t] = "none" /\ job[t] = "none"
    BY DEF Init
  <2>2. ~ found[t].done /\ found[t].newest = 0 /\ Cardinality(half[t]) = 0
    BY <2>1, FS_EmptySet DEF NoCatchUp
  <2>3. ChanInv(t)
    BY <1>1, <2>1, <2>2 DEF ChanInv
  <2>4. PostedInv(t) /\ FilterInv(t) /\ Spaced(t)
    BY <1>1, <2>1 DEF PostedInv, FilterInv, Spaced
  <2>5. CursorsCovered(t) /\ QueueInv(t)
    BY <2>1, <2>2 DEF CursorsCovered, Reaches, QueueInv
  <2>6. OwnerInv(t) /\ Complete(t)
    BY <2>1 DEF OwnerInv, Complete, Subscribed
  <2> QED
    BY <2>3, <2>4, <2>5, <2>6
<1> QED
  BY <1>2, <1>3 DEF Inv

LEMMA Step == ASSUME Inv, [Next]_vars PROVE Inv'
<1>1. TypeOK' /\ \A t \in Topic : ChanInv(t)'
  BY TypeStep, ChanStep
<1>2. ASSUME NEW t \in Topic PROVE Stream(t)'
  BY <1>1, StillCases, StillKeeps, CatchUpStep, ReceiveStep
<1>3. ASSUME NEW t \in Topic PROVE CursorsCovered(t)' /\ OwnerInv(t)'
  BY <1>1, CursorStep, OwnerStep
<1> QED
  BY <1>1, <1>2, <1>3 DEF Inv, Stream

LEMMA InvAlways == Spec => []Inv
  BY Start, Step, PTL DEF Spec

-----------------------------------------------------------------------------
(* Theorems *)

\* Every variable keeps its type; nothing is on its way to a connection that the
\* broker has not subscribed, and a job that waits or failed has none.
THEOREM ClientTypeCorrect == Spec => []TypeOK
<1>1. Inv => TypeOK
  BY DEF Inv
<1> QED
  BY <1>1, InvAlways, PTL

\* The saved cursor covers a message of the stream only if it was shown, cannot be
\* opened, or was gone or expired when a catch-up of the topic read the stream: in
\* whatever order the saves run, from however old a cursor a job reconnects, whatever
\* the ring buffer, the TTL and the sweeper take, and however short the batch.
THEOREM CursorIsCoveredHolds == Spec => []CursorIsCovered
<1>1. Inv => CursorIsCovered
  BY DEF Inv, CursorsCovered, Reaches, CursorIsCovered
<1> QED
  BY <1>1, InvAlways, PTL

\* The duplicate filter lets a message through twice only across the seam
\* between catch-up and live, or after SeenCap others.
THEOREM RepeatsOnlyAcrossSeamHolds == Spec => []RepeatsOnlyAcrossSeam
<1>1. Inv => RepeatsOnlyAcrossSeam
  <2> SUFFICES ASSUME Inv, NEW t \in Topic,
                      NEW a \in DOMAIN posted[t], NEW b \in DOMAIN posted[t],
                      a < b, posted[t][a].i = posted[t][b].i, ~ (b - a > SeenCap)
               PROVE  mode[t] # "ENCRYPTED" /\ posted[t][a].seq # posted[t][b].seq
    BY DEF RepeatsOnlyAcrossSeam
  <2>1. posted[t] \in Seq(Frame) /\ Spaced(t)
    BY DEF Inv, TypeOK
  <2>2. a \in 1 .. Len(posted[t]) /\ b \in 1 .. Len(posted[t])
    BY <2>1
  <2>3. KeyOf(t, posted[t][a]) # KeyOf(t, posted[t][b])
    BY <2>1, <2>2 DEF Spaced
  <2>4. ~ (mode[t] = "ENCRYPTED" \/ posted[t][a].seq = posted[t][b].seq)
    BY <2>3 DEF KeyOf
  <2> QED
    BY <2>4
<1> QED
  BY <1>1, InvAlways, PTL

\* A connection that has delivered all it was sent has shown what was published since
\* it was subscribed, and of the stream everything but what was gone when a catch-up
\* read it and what its own catch-up could not return: the read failed, a full batch
\* lay before it, or it was appended after the read, where an encrypted message is
\* still to be published.
THEOREM StreamIsCompleteHolds == Spec => []StreamIsComplete
<1>1. Inv => StreamIsComplete
  <2> SUFFICES ASSUME Inv, NEW t \in Topic, conn[t] = "streaming", backlog[t] = {},
                      wire[t] = <<>>
               PROVE  /\ \A i \in Aired(t) \ joined[t] : Shown(t, i)
                      /\ \A k \in 1 .. Len(stored[t]) :
                            Shown(t, stored[t][k]) \/ k \in passed[t] \/ LeftOut(t, k)
    BY DEF StreamIsComplete, LeftOut
  <2>1. \A i : ~ OnWire(t, i)
    BY DEF OnWire
  <2>2. /\ \A i \in Aired(t) \ joined[t] : Shown(t, i) \/ OnWire(t, i)
        /\ \A k \in 1 .. Len(stored[t]) : Settled(t, k)
    BY DEF Inv, Complete, Subscribed
  <2> QED
    BY <2>1, <2>2 DEF Settled
<1> QED
  BY <1>1, InvAlways, PTL
=============================================================================
