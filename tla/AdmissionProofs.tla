-------------------------- MODULE AdmissionProofs --------------------------
(***************************************************************************)
(* Theorems about Admission, for any channels, keys, accounts, tickets,    *)
(* requests, connections and channel cap.                                  *)
(*                                                                         *)
(* The argument.  TypeOK is inductive by itself.  The other invariants     *)
(* each need what the two-step create knows in between: that a request     *)
(* between its script and its Register already owns its record             *)
(* (Recorded), and in which run of the broker it was made (Timely).        *)
(***************************************************************************)
EXTENDS Admission, FiniteSetTheorems, TLAPS

\* A request that has passed its script.
Progressed(r) == create[r].at \in {"register", "created"}

\* A create that is not ephemeral owns its record from its script on.
Recorded ==
    \A r \in Request :
        Progressed(r) /\ ~ IsEphemeral(create[r].args) =>
            LET q == create[r].args IN
            /\ record[q.chan].exists
            /\ record[q.chan].by = r
            /\ record[q.chan].key = q.key

\* No request is from a later run than this one; one that is about to register
\* has a key and is of this run.
Timely ==
    \A r \in Request :
        /\ Progressed(r) => create[r].epoch <= epoch
        /\ create[r].at = "register" => /\ create[r].epoch = epoch
                                        /\ create[r].args.key \in Key

\* One ticket, one channel, in a form that needs no cardinality.
TicketSpent ==
    \A t \in Ticket : \A c \in Channel :
        record[c].exists /\ record[c].policy = t =>
            /\ c \in match[t]
            /\ ticket[t] = "used"
            /\ \A d \in Channel : record[d].exists /\ record[d].policy = t => d = c

-----------------------------------------------------------------------------
(* What the definitions say, unfolded once *)

\* The fields of a request's arguments.
LEMMA ArgsFields ==
    ASSUME NEW q \in Args
    PROVE  /\ q.chan \in Channel
           /\ q.key \in Key \cup {NoKey}
           /\ q.owner \in Account \cup {NoAccount}
           /\ q.ticket \in Ticket \cup {NoTicket}
           /\ q.retain \in BOOLEAN
           /\ IsEphemeral(q) => q.key \in Key /\ q.owner = NoAccount
  BY DEF Args, IsEphemeral

\* A request that has passed its script has arguments and an epoch.
LEMMA CreateFields ==
    ASSUME TypeOK, NEW r \in Request, Progressed(r)
    PROVE  /\ create[r].args \in Args
           /\ create[r].epoch \in 0..MaxRestarts
           /\ create[r] = [at |-> create[r].at, args |-> create[r].args,
                           epoch |-> create[r].epoch]
<1>1. create[r] \in CreateState
  BY DEF TypeOK
<1> QED
  BY <1>1 DEF CreateState, New, Refused, Lost, Progressed

\* Only the progress of such a request changes after its script.
LEMMA Moved ==
    ASSUME TypeOK, NEW r \in Request, Progressed(r),
           NEW how \in {"register", "created"}
    PROVE  /\ [create[r] EXCEPT !.at = how] \in CreateState
           /\ [create[r] EXCEPT !.at = how] =
                 [at |-> how, args |-> create[r].args, epoch |-> create[r].epoch]
<1>1. create[r] \in [at : {"register", "created"}, args : Args,
                     epoch : 0..MaxRestarts]
  BY DEF TypeOK, CreateState, New, Refused, Lost, Progressed
<1> QED
  BY <1>1 DEF CreateState

\* The fields of a channel record that exists.
LEMMA RecordFields ==
    ASSUME TypeOK, NEW c \in Channel, record[c].exists
    PROVE  /\ record[c] \in Record
           /\ record[c].key \in Key \cup {NoKey}
           /\ record[c].owner \in Account \cup {NoAccount}
           /\ record[c].policy \in Ticket \cup {"retained", "ephemeral"}
<1>1. record[c] \in Record
  BY DEF TypeOK, None
<1> QED
  BY <1>1 DEF Record

\* What a save writes is a record of the right kind.
LEMMA SavedRecord ==
    ASSUME TypeOK, NEW r \in Request, NEW q \in Args,
           NEW owner \in Account \cup {NoAccount},
           NEW policy \in Ticket \cup {"retained", "ephemeral"},
           policy = "ephemeral" => q.key # NoKey /\ owner = NoAccount,
           Save(r, q, owner, policy)
    PROVE  /\ record' \in [Channel -> Record \cup {None}]
           /\ record'[q.chan] = [exists |-> TRUE, key |-> q.key,
                                 owner |-> owner, policy |-> policy, by |-> r]
           /\ \A c \in Channel \ {q.chan} : record'[c] = record[c]
<1>1. q.chan \in Channel /\ q.key \in Key \cup {NoKey}
  BY ArgsFields
<1>2. [exists |-> TRUE, key |-> q.key, owner |-> owner, policy |-> policy,
       by |-> r] \in Record
  BY <1>1 DEF Record
<1> QED
  BY <1>1, <1>2 DEF Save, TypeOK

\* An answer is the request's new state, and nobody else's.
LEMMA Answered ==
    ASSUME TypeOK, NEW r \in Request, NEW q \in Args,
           NEW how \in {"register", "created"}, Answer(r, q, how)
    PROVE  /\ create' \in [Request -> CreateState]
           /\ create'[r] = [at |-> how, args |-> q, epoch |-> epoch]
           /\ \A x \in Request \ {r} : create'[x] = create[x]
<1>1. [at |-> how, args |-> q, epoch |-> epoch] \in CreateState
  BY DEF CreateState, TypeOK
<1> QED
  BY <1>1 DEF Answer, TypeOK

\* And so is a refusal.
LEMMA RefuseEffect ==
    ASSUME TypeOK, NEW r \in Request, Refuse(r)
    PROVE  /\ create' \in [Request -> CreateState]
           /\ create'[r].at = "refused"
           /\ \A x \in Request \ {r} : create'[x] = create[x]
<1>1. Refused \in CreateState
  BY DEF CreateState
<1> QED
  BY <1>1 DEF Refuse, Refused, TypeOK

\* What a request is after its script: on its way with its arguments, or refused.
Goes(r, q) ==
    \/ /\ create'[r].at = IF q.key = NoKey THEN "created" ELSE "register"
       /\ create'[r].args = q /\ create'[r].epoch = epoch
    \/ create'[r].at = "refused"

LEMMA ProceedEffect ==
    ASSUME TypeOK, NEW r \in Request, NEW q \in Args, Proceed(r, q) \/ Refuse(r)
    PROVE  /\ create' \in [Request -> CreateState]
           /\ \A x \in Request \ {r} : create'[x] = create[x]
           /\ Goes(r, q)
<1>1. ASSUME NEW how \in {"register", "created"}, Answer(r, q, how),
             how = IF q.key = NoKey THEN "created" ELSE "register"
      PROVE  /\ create' \in [Request -> CreateState]
             /\ \A x \in Request \ {r} : create'[x] = create[x]
             /\ Goes(r, q)
  <2>1. /\ create' \in [Request -> CreateState]
        /\ create'[r] = [at |-> how, args |-> q, epoch |-> epoch]
        /\ \A x \in Request \ {r} : create'[x] = create[x]
    BY <1>1, Answered
  <2> QED
    BY <1>1, <2>1 DEF Goes
<1>2. CASE Refuse(r)
  BY <1>2, RefuseEffect DEF Goes
<1> QED
  BY <1>1, <1>2 DEF Proceed

\* A create makes a record of a free name, or leaves the records alone: with a
\* ticket that covers the name and is used up, retained, or ephemeral.  The
\* channel counter moves for a retained record of an account, and then only.
Makes(r, q, owner, policy) ==
    /\ ~ record[q.chan].exists
    /\ Save(r, q, owner, policy)
    /\ Proceed(r, q)

LEMMA CreateCases ==
    ASSUME TypeOK, NEW r \in Request, NEW q \in Args, Create(r, q)
    PROVE  \/ /\ q.ticket \in Ticket /\ TicketCovers(q)
              /\ Makes(r, q, q.owner, q.ticket)
              /\ ticket' = [ticket EXCEPT ![q.ticket] = "used"]
              /\ UNCHANGED counted
           \/ /\ q.ticket = NoTicket /\ q.retain
              /\ ~ AtChannelCap(q.owner)
              /\ Makes(r, q, q.owner, "retained")
              /\ counted' = IF q.owner = NoAccount THEN counted
                            ELSE [counted EXCEPT ![q.owner] = @ + 1]
              /\ UNCHANGED ticket
           \/ /\ IsEphemeral(q)
              /\ Makes(r, q, NoAccount, "ephemeral")
              /\ UNCHANGED <<counted, ticket>>
           \/ /\ IsEphemeral(q)
              /\ Proceed(r, q)
              /\ UNCHANGED <<record, counted, ticket>>
           \/ /\ Refuse(r)
              /\ UNCHANGED <<record, counted, ticket>>
<1>1. q.ticket \in Ticket \cup {NoTicket}
  BY ArgsFields
<1>2. CASE CreateWithTicket(r, q)
  BY <1>1, <1>2 DEF CreateWithTicket, TicketCovers, Makes
<1>3. CASE CreateRetained(r, q)
  BY <1>3 DEF CreateRetained, Makes
<1>4. CASE CreateEphemeral(r, q)
  BY <1>4 DEF CreateEphemeral, IsEphemeral, Makes
<1>5. CASE CreateFails(r)
  BY <1>5 DEF CreateFails
<1> QED
  BY <1>2, <1>3, <1>4, <1>5 DEF Create

-----------------------------------------------------------------------------
(* Type correctness *)

LEMMA TypeStep == ASSUME TypeOK, [Next]_vars PROVE TypeOK'
<1> USE AdmissionAssumption
<1>1. ASSUME NEW t \in Ticket, GrantSaved(t) \/ GrantAnswered(t) \/ TicketExpires(t)
      PROVE TypeOK'
  BY <1>1 DEF GrantSaved, GrantAnswered, TicketExpires, TypeOK
<1>2. ASSUME NEW r \in Request, NEW q \in Args, Create(r, q) PROVE TypeOK'
  <2>1. UNCHANGED <<registry, reader, epoch, unread>>
    BY <1>2 DEF Create
  <2>2. q.owner \in Account \cup {NoAccount} /\ q.ticket \in Ticket \cup {NoTicket}
        /\ (IsEphemeral(q) => q.key \in Key)
    BY ArgsFields
  <2>3. record' \in [Channel -> Record \cup {None}]
    <3>1. ASSUME NEW owner \in Account \cup {NoAccount},
                 NEW policy \in Ticket \cup {"retained", "ephemeral"},
                 policy = "ephemeral" => q.key # NoKey /\ owner = NoAccount,
                 Makes(r, q, owner, policy)
          PROVE  record' \in [Channel -> Record \cup {None}]
      BY <3>1, SavedRecord DEF Makes
    <3>2. ASSUME UNCHANGED record
          PROVE  record' \in [Channel -> Record \cup {None}]
      BY <3>2 DEF TypeOK
    <3> QED
      BY <1>2, <2>2, <3>1, <3>2, CreateCases
  <2>4. create' \in [Request -> CreateState]
    <3>1. Proceed(r, q) \/ Refuse(r)
      BY <1>2, CreateCases DEF Makes
    <3> QED
      BY <3>1, ProceedEffect
  <2>5. counted' \in [Account -> Nat]
    BY <1>2, <2>2, CreateCases DEF TypeOK
  <2>6. ticket' \in [Ticket -> {"unissued", "saved", "open", "forever", "used",
                                "expired", "lost"}]
    BY <1>2, <2>2, CreateCases DEF TypeOK
  <2> QED
    BY <2>1, <2>3, <2>4, <2>5, <2>6 DEF TypeOK
<1>3. ASSUME NEW r \in Request, Register(r) PROVE TypeOK'
  <2>1. Progressed(r)
        /\ UNCHANGED <<record, counted, ticket, reader, epoch, unread>>
    BY <1>3 DEF Register, Progressed
  <2>2. create[r].args.chan \in Channel /\ create[r].args.key \in Key \cup {NoKey}
    BY <2>1, CreateFields, ArgsFields
  <2>3. registry' \in [Channel -> Key \cup {NoKey}]
    BY <1>3, <2>2 DEF Register, TypeOK
  <2>4. [create[r] EXCEPT !.at = "created"] \in CreateState
    BY <2>1, Moved
  <2>5. ASSUME create' = [create EXCEPT ![r].at = "created"]
        PROVE  create' \in [Request -> CreateState]
    BY <2>4, <2>5 DEF TypeOK
  <2>6. ASSUME Refuse(r) PROVE create' \in [Request -> CreateState]
    BY <2>6, RefuseEffect
  <2>7. create' \in [Request -> CreateState]
    BY <1>3, <2>5, <2>6 DEF Register
  <2> QED
    BY <2>1, <2>3, <2>7 DEF TypeOK
<1>4. ASSUME NEW d \in Reader,
             \/ \E c \in Channel : OpenGuard(d, c)
             \/ OpenAttach(d)
             \/ \E c \in Channel, k \in Key : PrivateAttach(d, c, k)
             \/ Detach(d)
      PROVE TypeOK'
  <2>1. UNCHANGED <<record, counted, ticket, registry, create, epoch, unread>>
    BY <1>4 DEF OpenGuard, OpenAttach, PrivateAttach, Detach
  <2>2. reader' \in [Reader -> ReaderState]
    BY <1>4 DEF OpenGuard, OpenAttach, PrivateAttach, Detach, TypeOK,
                ReaderState, NoReader
  <2> QED
    BY <2>1, <2>2 DEF TypeOK
<1>5. CASE Restart
  <2>1. epoch' \in 0..MaxRestarts
    BY <1>5 DEF Restart, TypeOK
  <2>2. registry' \in [Channel -> Key \cup {NoKey}] /\ unread' \subseteq Channel
    BY <1>5, RecordFields DEF Restart, Load
  <2>3. create' \in [Request -> CreateState]
    BY <1>5 DEF Restart, TypeOK, CreateState
  <2>4. ticket' \in [Ticket -> {"unissued", "saved", "open", "forever", "used",
                                "expired", "lost"}]
    BY <1>5 DEF Restart, TypeOK
  <2>5. reader' \in [Reader -> ReaderState]
    BY <1>5 DEF Restart, ReaderState
  <2> QED
    BY <1>5, <2>1, <2>2, <2>3, <2>4, <2>5 DEF Restart, TypeOK
<1>6. CASE UNCHANGED vars
  BY <1>6 DEF vars, TypeOK
<1> QED
  BY <1>1, <1>2, <1>3, <1>4, <1>5, <1>6 DEF Next

\* Every reachable state of the admission path is well typed.
THEOREM AdmissionTypeCorrect == Spec => []TypeOK
<1>1. Init => TypeOK
  BY AdmissionAssumption DEF Init, TypeOK, CreateState, ReaderState
<1> QED
  BY <1>1, TypeStep, PTL DEF Spec

-----------------------------------------------------------------------------
(* The steps, as the invariants see them *)

\* A step that is neither a create, a Register nor a restart.
Quiet ==
    /\ UNCHANGED <<record, counted, registry, create, epoch, unread>>
    /\ \A t \in Ticket : ticket[t] = "used" => ticket'[t] = "used"

LEMMA StepCases ==
    ASSUME TypeOK, [Next]_vars
    PROVE  \/ \E r \in Request, q \in Args : Create(r, q)
           \/ \E r \in Request : Register(r)
           \/ Restart
           \/ Quiet
<1>1. ASSUME NEW t \in Ticket, GrantSaved(t) \/ GrantAnswered(t) \/ TicketExpires(t)
      PROVE Quiet
  BY <1>1 DEF GrantSaved, GrantAnswered, TicketExpires, Quiet, TypeOK
<1>2. ASSUME NEW d \in Reader,
             \/ \E c \in Channel : OpenGuard(d, c)
             \/ OpenAttach(d)
             \/ \E c \in Channel, k \in Key : PrivateAttach(d, c, k)
             \/ Detach(d)
      PROVE Quiet
  BY <1>2 DEF OpenGuard, OpenAttach, PrivateAttach, Detach, Quiet
<1>3. CASE UNCHANGED vars
  BY <1>3 DEF vars, Quiet
<1> QED
  BY <1>1, <1>2, <1>3 DEF Next

\* A create writes the record of a free name, or it leaves the records alone;
\* then it goes on unless it is refused, without a record only if it is ephemeral.
LEMMA CreateOutcome ==
    ASSUME TypeOK, NEW r \in Request, NEW q \in Args, Create(r, q)
    PROVE  /\ create[r] = New
           /\ UNCHANGED <<registry, epoch, unread>>
           /\ \A x \in Request \ {r} : create'[x] = create[x]
           /\ Goes(r, q)
           /\ IsEphemeral(q) => q.key # NoKey
           /\ \/ /\ ~ record[q.chan].exists
                 /\ record'[q.chan].exists /\ record'[q.chan].by = r
                 /\ record'[q.chan].key = q.key
                 /\ \A c \in Channel \ {q.chan} : record'[c] = record[c]
              \/ UNCHANGED record /\ (IsEphemeral(q) \/ create'[r].at = "refused")
<1>1. create[r] = New /\ UNCHANGED <<registry, epoch, unread>>
  BY DEF Create
<1>2. q.owner \in Account \cup {NoAccount} /\ (IsEphemeral(q) => q.key # NoKey)
  BY ArgsFields, AdmissionAssumption
<1>3. ASSUME NEW owner \in Account \cup {NoAccount},
             NEW policy \in Ticket \cup {"retained", "ephemeral"},
             policy = "ephemeral" => q.key # NoKey /\ owner = NoAccount,
             Makes(r, q, owner, policy)
      PROVE  /\ ~ record[q.chan].exists
             /\ record'[q.chan].exists /\ record'[q.chan].by = r
             /\ record'[q.chan].key = q.key
             /\ \A c \in Channel \ {q.chan} : record'[c] = record[c]
  <2>1. ~ record[q.chan].exists
    BY <1>3 DEF Makes
  <2>2. record'[q.chan] = [exists |-> TRUE, key |-> q.key, owner |-> owner,
                           policy |-> policy, by |-> r]
        /\ \A c \in Channel \ {q.chan} : record'[c] = record[c]
    BY <1>3, SavedRecord DEF Makes
  <2> QED
    BY <2>1, <2>2
<1>4. (\A x \in Request \ {r} : create'[x] = create[x]) /\ Goes(r, q)
  <2>1. Proceed(r, q) \/ Refuse(r)
    BY CreateCases DEF Makes
  <2> QED
    BY <2>1, ProceedEffect
<1>5. Refuse(r) => create'[r].at = "refused"
  BY RefuseEffect
<1> QED
  BY <1>1, <1>2, <1>3, <1>4, <1>5, CreateCases, AdmissionAssumption

\* Register answers a request and never changes a key that is there.
LEMMA RegisterOutcome ==
    ASSUME TypeOK, NEW r \in Request, Register(r)
    PROVE  LET q == create[r].args IN
           /\ create[r].at = "register" /\ q \in Args
           /\ UNCHANGED <<record, counted, ticket, epoch, unread>>
           /\ \A x \in Request \ {r} : create'[x] = create[x]
           /\ create'[r].at = "created" => /\ create'[r].args = q
                                           /\ create'[r].epoch = create[r].epoch
           /\ \/ /\ registry[q.chan] = NoKey
                 /\ registry'[q.chan] = q.key
                 /\ \A c \in Channel \ {q.chan} : registry'[c] = registry[c]
                 /\ create'[r].at = "created"
              \/ /\ UNCHANGED registry
                 /\ create'[r].at = IF IsEphemeral(q) THEN "refused" ELSE "created"
<1> DEFINE q == create[r].args
<1>1. create[r].at = "register"
      /\ UNCHANGED <<record, counted, ticket, epoch, unread>>
  BY DEF Register
<1>2. Progressed(r)
  BY <1>1 DEF Progressed
<1>3. q \in Args /\ q.chan \in Channel
  BY <1>2, CreateFields, ArgsFields
<1>4. ASSUME create' = [create EXCEPT ![r].at = "created"]
      PROVE  /\ \A x \in Request \ {r} : create'[x] = create[x]
             /\ create'[r] = [at |-> "created", args |-> q,
                              epoch |-> create[r].epoch]
  <2>1. create'[r] = [create[r] EXCEPT !.at = "created"]
        /\ \A x \in Request \ {r} : create'[x] = create[x]
    BY <1>4 DEF TypeOK
  <2> QED
    BY <1>2, <2>1, Moved
<1>5. CASE registry[q.chan] = NoKey
  <2>1. /\ registry' = [registry EXCEPT ![q.chan] = q.key]
        /\ create' = [create EXCEPT ![r].at = "created"]
    BY <1>5 DEF Register
  <2>2. /\ registry'[q.chan] = q.key
        /\ \A c \in Channel \ {q.chan} : registry'[c] = registry[c]
    BY <1>3, <2>1 DEF TypeOK
  <2>3. /\ \A x \in Request \ {r} : create'[x] = create[x]
        /\ create'[r] = [at |-> "created", args |-> q, epoch |-> create[r].epoch]
    BY <1>4, <2>1
  <2> QED
    BY <1>1, <1>3, <1>5, <2>2, <2>3
<1>6. CASE registry[q.chan] # NoKey
  <2>1. CASE IsEphemeral(q)
    <3>1. UNCHANGED registry /\ Refuse(r)
      BY <1>6, <2>1 DEF Register, IsEphemeral
    <3> QED
      BY <1>1, <1>3, <2>1, <3>1, RefuseEffect
  <2>2. CASE ~ IsEphemeral(q)
    <3>1. UNCHANGED registry /\ create' = [create EXCEPT ![r].at = "created"]
      BY <1>6, <2>2 DEF Register, IsEphemeral
    <3>2. /\ \A x \in Request \ {r} : create'[x] = create[x]
          /\ create'[r] = [at |-> "created", args |-> q, epoch |-> create[r].epoch]
      BY <1>4, <3>1
    <3> QED
      BY <1>1, <1>3, <2>2, <3>1, <3>2
  <2> QED
    BY <2>1, <2>2
<1> QED
  BY <1>5, <1>6

LEMMA RegistryStays ==
    ASSUME TypeOK, NEW r \in Request, Register(r)
    PROVE  \A c \in Channel : registry[c] # NoKey => registry'[c] = registry[c]
  BY RegisterOutcome

\* A restart loses the requests in flight and loads the registry from the records
\* it can read.
LEMMA RestartOutcome ==
    ASSUME TypeOK, Restart
    PROVE  /\ UNCHANGED <<record, counted>> /\ epoch' = epoch + 1
           /\ \A t \in Ticket : ticket[t] = "used" => ticket'[t] = "used"
           /\ \A c \in Channel : registry'[c] =
                 IF record[c].exists /\ c \notin unread' THEN record[c].key
                                                         ELSE NoKey
           /\ \A r \in Request :
                 /\ create'[r].at # "register"
                 /\ create'[r].at = "created" => create'[r] = create[r]
<1>1. /\ UNCHANGED <<record, counted>> /\ epoch' = epoch + 1
      /\ \A t \in Ticket : ticket[t] = "used" => ticket'[t] = "used"
      /\ \A c \in Channel : registry'[c] =
            IF record[c].exists /\ c \notin unread' THEN record[c].key ELSE NoKey
  BY DEF Restart, Load, TypeOK
<1>2. ASSUME NEW r \in Request
      PROVE  /\ create'[r].at # "register"
             /\ create'[r].at = "created" => create'[r] = create[r]
  BY DEF Restart, Lost
<1> QED
  BY <1>1, <1>2

-----------------------------------------------------------------------------
(* Ownership: what was created retained stays the creator's *)

LEMMA RecordedStep ==
    ASSUME TypeOK, Recorded, [Next]_vars PROVE Recorded'
<1> SUFFICES ASSUME NEW x \in Request,
                    Progressed(x)', ~ IsEphemeral(create'[x].args)
             PROVE  LET p == create'[x].args IN
                    /\ record'[p.chan].exists
                    /\ record'[p.chan].by = x
                    /\ record'[p.chan].key = p.key
  BY DEF Recorded
<1>0. create'[x].at \in {"register", "created"}
  BY DEF Progressed
\* It is enough that the request has its record and that the record stays.
<1>a. ASSUME create[x].at \in {"register", "created"},
             create'[x].args = create[x].args,
             \A c \in Channel : record[c].exists => record'[c] = record[c]
      PROVE  LET p == create'[x].args IN
             /\ record'[p.chan].exists
             /\ record'[p.chan].by = x
             /\ record'[p.chan].key = p.key
  <2>1. Progressed(x)
    BY <1>a DEF Progressed
  <2>2. create[x].args.chan \in Channel
    BY <2>1, CreateFields, ArgsFields
  <2> QED
    BY <1>a, <2>1, <2>2 DEF Recorded
<1>1. ASSUME NEW r \in Request, NEW q \in Args, Create(r, q)
      PROVE  LET p == create'[x].args IN
             /\ record'[p.chan].exists
             /\ record'[p.chan].by = x
             /\ record'[p.chan].key = p.key
  <2>1. CASE x = r
    <3>1. create'[r].args = q
      BY <1>0, <1>1, <2>1, CreateOutcome DEF Goes
    <3>2. /\ record'[q.chan].exists
          /\ record'[q.chan].by = r
          /\ record'[q.chan].key = q.key
      BY <1>0, <1>1, <2>1, <3>1, CreateOutcome DEF IsEphemeral
    <3> QED
      BY <2>1, <3>1, <3>2
  <2>2. CASE x # r
    <3>1. create'[x] = create[x]
      BY <1>1, <2>2, CreateOutcome
    <3>2. \A c \in Channel : record[c].exists => record'[c] = record[c]
      BY <1>1, CreateOutcome
    <3> QED
      BY <1>0, <1>a, <3>1, <3>2
  <2> QED
    BY <2>1, <2>2
<1>2. ASSUME NEW r \in Request, Register(r)
      PROVE  LET p == create'[x].args IN
             /\ record'[p.chan].exists
             /\ record'[p.chan].by = x
             /\ record'[p.chan].key = p.key
  <2>1. create[x].at \in {"register", "created"}
        /\ create'[x].args = create[x].args /\ UNCHANGED record
    BY <1>0, <1>2, RegisterOutcome
  <2> QED
    BY <1>a, <2>1
<1>3. CASE Restart
  <2>1. create'[x].at = "created" /\ create'[x] = create[x] /\ UNCHANGED record
    BY <1>0, <1>3, RestartOutcome
  <2> QED
    BY <1>a, <2>1
<1>4. CASE Quiet
  BY <1>0, <1>4, <1>a DEF Quiet
<1> QED
  BY <1>1, <1>2, <1>3, <1>4, StepCases

LEMMA RecordedAlways == Spec => []Recorded
<1>1. Init => Recorded
  BY DEF Init, Recorded, Progressed, New
<1> QED
  BY <1>1, AdmissionTypeCorrect, RecordedStep, PTL DEF Spec

\* A retained channel that was answered "created" is its creator's, however the
\* creates of the name interleave and however often the broker restarts.
THEOREM RetainedIsOursHolds == Spec => []RetainedIsOurs
<1>1. Recorded => RetainedIsOurs
  BY DEF Recorded, Progressed, RetainedIsOurs, Created
<1> QED
  BY <1>1, RecordedAlways, PTL

-----------------------------------------------------------------------------
(* Admission keys *)

\* While the broker runs, the key of a channel never changes: Register only ever
\* fills an empty place, and nothing else but a restart writes the registry.
THEOREM KeyIsStableHolds == Spec => KeyIsStable
<1>1. ASSUME TypeOK, [Next]_vars
      PROVE  [\A c \in Channel : registry[c] # NoKey /\ epoch' = epoch
                 => registry'[c] = registry[c]]_vars
  <2>1. ASSUME NEW r \in Request, NEW q \in Args, Create(r, q)
        PROVE  UNCHANGED registry
    BY <1>1, <2>1, CreateOutcome
  <2>2. ASSUME NEW r \in Request, Register(r)
        PROVE  \A c \in Channel : registry[c] # NoKey => registry'[c] = registry[c]
    BY <1>1, <2>2, RegistryStays
  <2>3. CASE Restart
    <3>1. epoch' # epoch
      BY <1>1, <2>3 DEF Restart, TypeOK
    <3> QED
      BY <3>1
  <2>4. CASE Quiet
    BY <2>4 DEF Quiet
  <2> QED
    BY <1>1, <2>1, <2>2, <2>3, <2>4, StepCases
<1> QED
  BY <1>1, AdmissionTypeCorrect, PTL DEF Spec, KeyIsStable

LEMMA TimelyStep == ASSUME TypeOK, Timely, [Next]_vars PROVE Timely'
<1> SUFFICES ASSUME NEW x \in Request
             PROVE  /\ create'[x].at \in {"register", "created"}
                          => create'[x].epoch <= epoch'
                    /\ create'[x].at = "register" =>
                          /\ create'[x].epoch = epoch'
                          /\ create'[x].args.key \in Key
  BY DEF Timely, Progressed
<1>0. epoch \in Nat /\ (Progressed(x) => create[x].epoch \in Nat)
  BY CreateFields, AdmissionAssumption DEF TypeOK
\* It is enough that the request is as it was, in the same run.
<1>a. ASSUME create'[x] = create[x], epoch' = epoch
      PROVE  /\ create'[x].at \in {"register", "created"}
                   => create'[x].epoch <= epoch'
             /\ create'[x].at = "register" => /\ create'[x].epoch = epoch'
                                              /\ create'[x].args.key \in Key
  BY <1>a DEF Timely, Progressed
<1>1. ASSUME NEW r \in Request, NEW q \in Args, Create(r, q)
      PROVE  /\ create'[x].at \in {"register", "created"}
                   => create'[x].epoch <= epoch'
             /\ create'[x].at = "register" => /\ create'[x].epoch = epoch'
                                              /\ create'[x].args.key \in Key
  <2>1. CASE x = r
    <3>1. q.key \in Key \cup {NoKey}
      BY ArgsFields
    <3>2. Goes(r, q) /\ epoch' = epoch
      BY <1>1, CreateOutcome
    <3> QED
      BY <1>0, <2>1, <3>1, <3>2 DEF Goes
  <2>2. CASE x # r
    <3>1. create'[x] = create[x] /\ epoch' = epoch
      BY <1>1, <2>2, CreateOutcome
    <3> QED
      BY <1>a, <3>1
  <2> QED
    BY <2>1, <2>2
<1>2. ASSUME NEW r \in Request, Register(r)
      PROVE  /\ create'[x].at \in {"register", "created"}
                   => create'[x].epoch <= epoch'
             /\ create'[x].at = "register" => /\ create'[x].epoch = epoch'
                                              /\ create'[x].args.key \in Key
  <2>1. CASE x = r
    <3>1. /\ create[x].at = "register" /\ create'[x].at # "register"
          /\ epoch' = epoch
          /\ create'[x].at = "created" => create'[x].epoch = create[x].epoch
      BY <1>2, <2>1, RegisterOutcome
    <3> QED
      BY <3>1 DEF Timely, Progressed
  <2>2. CASE x # r
    <3>1. create'[x] = create[x] /\ epoch' = epoch
      BY <1>2, <2>2, RegisterOutcome
    <3> QED
      BY <1>a, <3>1
  <2> QED
    BY <2>1, <2>2
<1>3. CASE Restart
  <2>1. /\ epoch' = epoch + 1 /\ create'[x].at # "register"
        /\ create'[x].at = "created" => create'[x] = create[x]
    BY <1>3, RestartOutcome
  <2> QED
    BY <1>0, <2>1 DEF Timely, Progressed
<1>4. CASE Quiet
  BY <1>4, <1>a DEF Quiet
<1> QED
  BY <1>1, <1>2, <1>3, <1>4, StepCases

LEMMA TimelyAlways == Spec => []Timely
<1>1. Init => Timely
  BY DEF Init, Timely, Progressed, New
<1> QED
  BY <1>1, AdmissionTypeCorrect, TimelyStep, PTL DEF Spec

LEMMA EphemeralAdmitsStep ==
    ASSUME TypeOK, Timely, EphemeralAdmits, [Next]_vars PROVE EphemeralAdmits'
<1> SUFFICES ASSUME NEW x \in Request, create'[x].at = "created",
                    IsEphemeral(create'[x].args), create'[x].epoch = epoch'
             PROVE  registry'[create'[x].args.chan] = create'[x].args.key
  BY DEF EphemeralAdmits, Created
\* It is enough that the request was answered before, in this run, and that a key
\* that is there stays.
<1>a. ASSUME create'[x] = create[x], epoch' = epoch,
             \A c \in Channel : registry[c] # NoKey => registry'[c] = registry[c]
      PROVE  registry'[create'[x].args.chan] = create'[x].args.key
  <2>1. create[x].args \in Args
    BY <1>a, CreateFields DEF Progressed
  <2>2. create[x].args.chan \in Channel /\ create[x].args.key # NoKey
    BY <1>a, <2>1, ArgsFields, AdmissionAssumption
  <2>3. registry[create[x].args.chan] = create[x].args.key
    BY <1>a DEF EphemeralAdmits, Created
  <2> QED
    BY <1>a, <2>2, <2>3
<1>1. ASSUME NEW r \in Request, NEW q \in Args, Create(r, q)
      PROVE  registry'[create'[x].args.chan] = create'[x].args.key
  <2>1. x # r
    <3>1. create'[r].at = "created" => create'[r].args = q /\ q.key = NoKey
      BY <1>1, CreateOutcome DEF Goes
    <3>2. IsEphemeral(q) => q.key # NoKey
      BY <1>1, CreateOutcome
    <3> QED
      BY <3>1, <3>2
  <2>2. create'[x] = create[x] /\ UNCHANGED <<registry, epoch>>
    BY <1>1, <2>1, CreateOutcome
  <2> QED
    BY <1>a, <2>2
<1>2. ASSUME NEW r \in Request, Register(r)
      PROVE  registry'[create'[x].args.chan] = create'[x].args.key
  <2>1. CASE x = r
    BY <1>2, <2>1, RegisterOutcome
  <2>2. CASE x # r
    <3>1. create'[x] = create[x] /\ epoch' = epoch
      BY <1>2, <2>2, RegisterOutcome
    <3> QED
      BY <1>2, <1>a, <3>1, RegistryStays
  <2> QED
    BY <2>1, <2>2
<1>3. ~ Restart
  <2>1. ASSUME Restart
        PROVE  epoch' = epoch + 1 /\ create'[x] = create[x]
    BY <2>1, RestartOutcome
  <2>2. ASSUME Restart PROVE create[x].epoch <= epoch
    BY <2>1, <2>2 DEF Timely, Progressed
  <2>3. epoch \in Nat
    BY AdmissionAssumption DEF TypeOK
  <2> QED
    BY <2>1, <2>2, <2>3
<1>4. CASE Quiet
  BY <1>4, <1>a DEF Quiet
<1> QED
  BY <1>1, <1>2, <1>3, <1>4, StepCases

\* An ephemeral channel that was answered "created" admits its own key, and no
\* other, for the rest of the run.
THEOREM EphemeralAdmitsHolds == Spec => []EphemeralAdmits
<1>1. Init => EphemeralAdmits
  BY DEF Init, EphemeralAdmits, Created, New
<1> QED
  BY <1>1, AdmissionTypeCorrect, TimelyAlways, EphemeralAdmitsStep, PTL DEF Spec

\* How a channel may be admitted after a restart: with key k, or, if its record
\* could not be read, not at all or with an ephemeral create's key.
Reopened(c, k) ==
    \/ registry[c] = k
    \/ /\ c \in unread
       /\ \/ registry[c] = NoKey
          \/ \E e \in Request : TookName(e, c)

\* Whoever took the name keeps it while the broker runs, as does the key.
LEMMA ReopenedStays ==
    ASSUME TypeOK, NEW c \in Channel, NEW k \in Key, Reopened(c, k),
           UNCHANGED <<epoch, unread>>, registry'[c] = registry[c],
           \A e \in Request : Created(e) => create'[e] = create[e]
    PROVE  Reopened(c, k)'
<1>1. ASSUME NEW e \in Request, TookName(e, c) PROVE TookName(e, c)'
  <2>1. create'[e] = create[e]
    BY <1>1 DEF TookName
  <2> QED
    BY <1>1, <2>1 DEF TookName, Created
<1>2. CASE \E e \in Request : TookName(e, c)
  <2>1. \E e \in Request : TookName(e, c)'
    BY <1>1, <1>2
  <2> QED
    BY <2>1 DEF Reopened
<1> QED
  BY <1>2 DEF Reopened

LEMMA RestartAdmitsStep ==
    ASSUME TypeOK, Timely, Recorded, RestartAdmits, [Next]_vars
    PROVE  RestartAdmits'
<1> SUFFICES ASSUME NEW x \in Request, NEW c, NEW k,
                    create'[x].at = "created",
                    create'[x].args.chan = c, create'[x].args.key = k,
                    ~ IsEphemeral(create'[x].args),
                    k # NoKey, create'[x].epoch < epoch'
             PROVE  Reopened(c, k)'
  BY DEF RestartAdmits, Created, Reopened, TookName
<1>0. epoch \in Nat
  BY AdmissionAssumption DEF TypeOK
\* If the request was answered before, it has its record, and if that was in
\* this run, the channel was admitted so before.
<1>a. ASSUME create'[x] = create[x]
      PROVE  /\ c \in Channel /\ k \in Key
             /\ record[c].exists /\ record[c].by = x /\ record[c].key = k
  <2>1. Progressed(x)
    BY <1>a DEF Progressed
  <2>2. create[x].args \in Args
    BY <2>1, CreateFields
  <2>3. create[x].args.chan \in Channel /\ create[x].args.key \in Key \cup {NoKey}
    BY <2>2, ArgsFields
  <2> QED
    BY <1>a, <2>1, <2>3 DEF Recorded
<1>b. ASSUME create'[x] = create[x], UNCHANGED epoch
      PROVE  Reopened(c, k)
  BY <1>b DEF RestartAdmits, Created, Reopened
<1>c. ASSUME create'[x] = create[x], UNCHANGED <<epoch, unread>>,
             registry'[c] = registry[c],
             \A e \in Request : Created(e) => create'[e] = create[e]
      PROVE  Reopened(c, k)'
  <2>1. c \in Channel /\ k \in Key /\ Reopened(c, k)
    BY <1>a, <1>b, <1>c
  <2> QED
    BY <1>c, <2>1, ReopenedStays
<1>1. ASSUME NEW r \in Request, NEW q \in Args, Create(r, q)
      PROVE  Reopened(c, k)'
  <2>1. /\ create[r] = New /\ UNCHANGED <<registry, epoch, unread>>
        /\ \A e \in Request \ {r} : create'[e] = create[e]
        /\ create'[r].at = "created" => create'[r].epoch = epoch
    BY <1>1, CreateOutcome DEF Goes
  <2>2. x # r
    BY <1>0, <2>1
  <2>3. \A e \in Request : Created(e) => create'[e] = create[e]
    BY <2>1 DEF Created, New
  <2>4. create'[x] = create[x] /\ registry'[c] = registry[c]
    BY <2>1, <2>2
  <2> QED
    BY <1>c, <2>1, <2>3, <2>4
<1>2. ASSUME NEW r \in Request, Register(r)
      PROVE  Reopened(c, k)'
  <2> DEFINE q == create[r].args
  <2>1. /\ create[r].at = "register" /\ q \in Args
        /\ UNCHANGED <<epoch, unread>>
        /\ \A e \in Request \ {r} : create'[e] = create[e]
        /\ create'[r].at = "created" => /\ create'[r].args = q
                                        /\ create'[r].epoch = create[r].epoch
    BY <1>2, RegisterOutcome
  <2>2. create[r].epoch = epoch /\ q.key \in Key
    BY <2>1 DEF Timely
  <2>3. x # r
    BY <1>0, <2>1, <2>2
  <2>4. create'[x] = create[x]
    BY <2>1, <2>3
  <2>5. \A e \in Request : Created(e) => create'[e] = create[e]
    BY <2>1 DEF Created
  <2>6. CASE registry'[c] = registry[c]
    BY <1>c, <2>1, <2>4, <2>5, <2>6
  \* Somebody registers the name in the place the restart left empty.
  <2>7. CASE registry'[c] # registry[c]
    <3>1. c \in Channel /\ k \in Key /\ record[c].by = x
      BY <1>a, <2>4
    <3>2. /\ registry[c] = NoKey /\ registry'[c] = q.key
          /\ q.chan = c /\ create'[r].at = "created"
      BY <1>2, <2>7, <3>1, RegisterOutcome
    <3>3. IsEphemeral(q)
      BY <2>1, <2>3, <3>1, <3>2 DEF Recorded, Progressed
    <3>4. TookName(r, c)'
      BY <2>1, <2>2, <3>2, <3>3 DEF TookName, Created
    <3>5. c \in unread'
      <4>1. Reopened(c, k)
        BY <1>b, <2>1, <2>4
      <4>2. k # registry[c]
        BY <3>1, <3>2, AdmissionAssumption
      <4> QED
        BY <2>1, <4>1, <4>2 DEF Reopened
    <3> QED
      BY <3>4, <3>5 DEF Reopened
  <2> QED
    BY <2>6, <2>7
<1>3. CASE Restart
  <2>1. create'[x] = create[x]
        /\ \A d \in Channel : registry'[d] =
              IF record[d].exists /\ d \notin unread' THEN record[d].key ELSE NoKey
    BY <1>3, RestartOutcome
  <2>2. c \in Channel /\ record[c].exists /\ record[c].key = k
    BY <1>a, <2>1
  <2>3. registry'[c] = k \/ (c \in unread' /\ registry'[c] = NoKey)
    BY <2>1, <2>2
  <2> QED
    BY <2>3 DEF Reopened
<1>4. CASE Quiet
  BY <1>4, <1>c DEF Quiet
<1> QED
  BY <1>1, <1>2, <1>3, <1>4, StepCases

\* A retained channel that was answered "created" with a key admits that key in
\* every later run, whatever had registered first in its own, unless the start of
\* that run could not read its record: then it admits no key, or that of an
\* ephemeral create of the name.
THEOREM RestartAdmitsHolds == Spec => []RestartAdmits
<1>1. Init => RestartAdmits
  BY DEF Init, RestartAdmits, Created, New
<1> QED
  BY <1>1, AdmissionTypeCorrect, TimelyAlways, RecordedAlways, RestartAdmitsStep,
     PTL DEF Spec

-----------------------------------------------------------------------------
(* Tickets and the channel cap *)

\* What a create does to the records, the tickets and the counters.
LEMMA CreateStores ==
    ASSUME TypeOK, NEW r \in Request, NEW q \in Args, Create(r, q)
    PROVE  \/ /\ UNCHANGED <<record, counted, ticket>>
           \/ \E policy \in Ticket \cup {"retained", "ephemeral"},
                 owner \in Account \cup {NoAccount} :
                 /\ q.chan \in Channel /\ ~ record[q.chan].exists
                 /\ record'[q.chan].exists
                 /\ record'[q.chan].policy = policy
                 /\ record'[q.chan].owner = owner
                 /\ \A c \in Channel \ {q.chan} : record'[c] = record[c]
                 /\ \/ /\ policy \in Ticket
                       /\ ticket[policy] # "used" /\ q.chan \in match[policy]
                       /\ ticket' = [ticket EXCEPT ![policy] = "used"]
                       /\ UNCHANGED counted
                    \/ /\ policy = "retained" /\ ~ AtChannelCap(owner)
                       /\ counted' = IF owner = NoAccount THEN counted
                                     ELSE [counted EXCEPT ![owner] = @ + 1]
                       /\ UNCHANGED ticket
                    \/ /\ policy = "ephemeral"
                       /\ UNCHANGED <<counted, ticket>>
<1>1. /\ q.chan \in Channel
      /\ q.owner \in Account \cup {NoAccount}
      /\ IsEphemeral(q) => q.key # NoKey
  BY ArgsFields, AdmissionAssumption
<1>2. ASSUME NEW owner \in Account \cup {NoAccount},
             NEW policy \in Ticket \cup {"retained", "ephemeral"},
             policy = "ephemeral" => q.key # NoKey /\ owner = NoAccount,
             Makes(r, q, owner, policy)
      PROVE  /\ ~ record[q.chan].exists
             /\ record'[q.chan].exists
             /\ record'[q.chan].policy = policy
             /\ record'[q.chan].owner = owner
             /\ \A c \in Channel \ {q.chan} : record'[c] = record[c]
  <2>1. record'[q.chan] = [exists |-> TRUE, key |-> q.key, owner |-> owner,
                           policy |-> policy, by |-> r]
        /\ \A c \in Channel \ {q.chan} : record'[c] = record[c]
    BY <1>2, SavedRecord DEF Makes
  <2>2. ~ record[q.chan].exists
    BY <1>2 DEF Makes
  <2> QED
    BY <2>1, <2>2
<1>3. CASE /\ q.ticket \in Ticket /\ TicketCovers(q)
           /\ Makes(r, q, q.owner, q.ticket)
           /\ ticket' = [ticket EXCEPT ![q.ticket] = "used"]
           /\ UNCHANGED counted
  <2>1. ticket[q.ticket] # "used" /\ q.chan \in match[q.ticket]
    BY <1>3 DEF TicketCovers, Redeemable
  <2>2. q.ticket # "ephemeral"
    BY <1>3, AdmissionAssumption
  <2>3. /\ ~ record[q.chan].exists
        /\ record'[q.chan].exists
        /\ record'[q.chan].policy = q.ticket
        /\ record'[q.chan].owner = q.owner
        /\ \A c \in Channel \ {q.chan} : record'[c] = record[c]
    BY <1>1, <1>2, <1>3, <2>2
  <2> QED
    BY <1>1, <1>3, <2>1, <2>3
<1>4. CASE /\ ~ AtChannelCap(q.owner)
           /\ Makes(r, q, q.owner, "retained")
           /\ counted' = IF q.owner = NoAccount THEN counted
                         ELSE [counted EXCEPT ![q.owner] = @ + 1]
           /\ UNCHANGED ticket
  <2>1. /\ ~ record[q.chan].exists
        /\ record'[q.chan].exists
        /\ record'[q.chan].policy = "retained"
        /\ record'[q.chan].owner = q.owner
        /\ \A c \in Channel \ {q.chan} : record'[c] = record[c]
    BY <1>1, <1>2, <1>4
  <2> QED
    BY <1>1, <1>4, <2>1
<1>5. CASE /\ IsEphemeral(q)
           /\ Makes(r, q, NoAccount, "ephemeral")
           /\ UNCHANGED <<counted, ticket>>
  <2>1. /\ ~ record[q.chan].exists
        /\ record'[q.chan].exists
        /\ record'[q.chan].policy = "ephemeral"
        /\ record'[q.chan].owner = NoAccount
        /\ \A c \in Channel \ {q.chan} : record'[c] = record[c]
    BY <1>1, <1>2, <1>5
  <2> QED
    BY <1>1, <1>5, <2>1
<1> QED
  BY <1>3, <1>4, <1>5, CreateCases

\* Every other step leaves the records and counters alone and a used ticket used.
LEMMA OthersStore ==
    ASSUME TypeOK, [Next]_vars, ~ \E r \in Request, q \in Args : Create(r, q)
    PROVE  /\ UNCHANGED <<record, counted>>
           /\ \A t \in Ticket : ticket[t] = "used" => ticket'[t] = "used"
<1>1. ASSUME NEW r \in Request, Register(r)
      PROVE  UNCHANGED <<record, counted, ticket>>
  BY <1>1 DEF Register
<1>2. CASE Restart
  BY <1>2, RestartOutcome
<1>3. CASE Quiet
  BY <1>3 DEF Quiet
<1> QED
  BY <1>1, <1>2, <1>3, StepCases

LEMMA TicketSpentStep ==
    ASSUME TypeOK, TicketSpent, [Next]_vars PROVE TicketSpent'
<1> SUFFICES ASSUME NEW t \in Ticket, NEW c \in Channel,
                    record'[c].exists, record'[c].policy = t
             PROVE  /\ c \in match[t]
                    /\ ticket'[t] = "used"
                    /\ \A d \in Channel :
                          record'[d].exists /\ record'[d].policy = t => d = c
  BY DEF TicketSpent
\* It is enough that no record of this ticket is new and that the ticket stays
\* used.
<1>a. ASSUME \A d \in Channel : record'[d].exists /\ record'[d].policy = t =>
                                   record[d].exists /\ record[d].policy = t,
             ticket[t] = "used" => ticket'[t] = "used"
      PROVE  /\ c \in match[t]
             /\ ticket'[t] = "used"
             /\ \A d \in Channel :
                   record'[d].exists /\ record'[d].policy = t => d = c
  BY <1>a DEF TicketSpent
<1>1. ASSUME NEW r \in Request, NEW q \in Args, Create(r, q)
      PROVE  /\ c \in match[t]
             /\ ticket'[t] = "used"
             /\ \A d \in Channel :
                   record'[d].exists /\ record'[d].policy = t => d = c
  <2>1. CASE UNCHANGED <<record, counted, ticket>>
    BY <2>1, <1>a
  <2>2. ASSUME NEW policy \in Ticket \cup {"retained", "ephemeral"},
               /\ q.chan \in Channel /\ ~ record[q.chan].exists
               /\ record'[q.chan].policy = policy
               /\ \A d \in Channel \ {q.chan} : record'[d] = record[d],
               \/ /\ policy \in Ticket
                  /\ ticket[policy] # "used" /\ q.chan \in match[policy]
                  /\ ticket' = [ticket EXCEPT ![policy] = "used"]
               \/ policy \notin Ticket /\ UNCHANGED ticket
        PROVE  /\ c \in match[t]
               /\ ticket'[t] = "used"
               /\ \A d \in Channel :
                     record'[d].exists /\ record'[d].policy = t => d = c
    <3>1. CASE policy = t
      <4>1. ticket[t] # "used" /\ q.chan \in match[t] /\ ticket'[t] = "used"
        BY <2>2, <3>1 DEF TypeOK
      <4>2. \A d \in Channel : ~ (record[d].exists /\ record[d].policy = t)
        BY <4>1 DEF TicketSpent
      <4>3. \A d \in Channel : record'[d].exists /\ record'[d].policy = t
                                  => d = q.chan
        BY <2>2, <4>2
      <4> QED
        BY <4>1, <4>3
    <3>2. CASE policy # t
      <4>1. ticket[t] = "used" => ticket'[t] = "used"
        BY <2>2, <3>2 DEF TypeOK
      <4>2. \A d \in Channel : record'[d].exists /\ record'[d].policy = t =>
                                  record[d].exists /\ record[d].policy = t
        BY <2>2, <3>2
      <4> QED
        BY <1>a, <4>1, <4>2
    <3> QED
      BY <3>1, <3>2
  <2> QED
    BY <1>1, <2>1, <2>2, CreateStores, AdmissionAssumption
<1>2. CASE ~ \E r \in Request, q \in Args : Create(r, q)
  BY <1>2, <1>a, OthersStore
<1> QED
  BY <1>1, <1>2

\* A set with no two different elements has at most one.
LEMMA AtMostOne ==
    ASSUME NEW S, \A a \in S : \A b \in S : a = b
    PROVE  Cardinality(S) <= 1
<1>1. CASE S = {}
  BY <1>1, FS_EmptySet
<1>2. CASE S # {}
  <2>1. PICK a : S = {a}
    BY <1>2
  <2> QED
    BY <2>1, FS_Singleton
<1> QED
  BY <1>1, <1>2

\* A ticket makes at most one channel, of a name it covers.
THEOREM TicketOnceHolds == Spec => []TicketOnce
<1>1. Init => TicketSpent
  BY DEF Init, TicketSpent, None
<1>2. TicketSpent => TicketOnce
  <2> SUFFICES ASSUME TicketSpent, NEW t \in Ticket
               PROVE  LET made == {c \in Channel : record[c].exists
                                                     /\ record[c].policy = t} IN
                      /\ Cardinality(made) <= 1
                      /\ made \subseteq match[t]
                      /\ made # {} => ticket[t] = "used"
    BY DEF TicketOnce
  <2> DEFINE made == {c \in Channel : record[c].exists /\ record[c].policy = t}
  <2>1. \A a \in made : \A b \in made : a = b
    BY DEF TicketSpent
  <2>2. Cardinality(made) <= 1
    <3> HIDE DEF made
    <3> QED
      BY <2>1, AtMostOne
  <2>3. made \subseteq match[t] /\ (made # {} => ticket[t] = "used")
    BY DEF TicketSpent
  <2> QED
    BY <2>2, <2>3
<1> QED
  BY <1>1, <1>2, AdmissionTypeCorrect, TicketSpentStep, PTL DEF Spec

LEMMA CounterMatchesStep ==
    ASSUME TypeOK, CounterMatches, [Next]_vars PROVE CounterMatches'
<1> SUFFICES ASSUME NEW o \in Account
             PROVE  LET made == {c \in Channel : record'[c].exists
                                                   /\ record'[c].owner = o
                                                   /\ record'[c].policy = "retained"}
                    IN counted'[o] = Cardinality(made) /\ counted'[o] <= ChannelCap
  BY DEF CounterMatches
<1> DEFINE before == {c \in Channel : record[c].exists /\ record[c].owner = o
                                        /\ record[c].policy = "retained"}
           after == {c \in Channel : record'[c].exists /\ record'[c].owner = o
                                       /\ record'[c].policy = "retained"}
           Exact == counted'[o] = Cardinality(after) /\ counted'[o] <= ChannelCap
<1>0. counted[o] = Cardinality(before) /\ counted[o] <= ChannelCap
  BY DEF CounterMatches
<1>a. ASSUME counted'[o] = counted[o], after = before PROVE Exact
  BY <1>0, <1>a
<1>1. ASSUME NEW r \in Request, NEW q \in Args, Create(r, q) PROVE Exact
  <2>1. CASE UNCHANGED <<record, counted, ticket>>
    BY <2>1, <1>a
  <2>2. ASSUME NEW policy \in Ticket \cup {"retained", "ephemeral"},
               NEW owner \in Account \cup {NoAccount},
               /\ q.chan \in Channel /\ ~ record[q.chan].exists
               /\ record'[q.chan].exists
               /\ record'[q.chan].policy = policy
               /\ record'[q.chan].owner = owner
               /\ \A c \in Channel \ {q.chan} : record'[c] = record[c],
               \/ policy # "retained" /\ UNCHANGED counted
               \/ /\ policy = "retained" /\ ~ AtChannelCap(owner)
                  /\ counted' = IF owner = NoAccount THEN counted
                                ELSE [counted EXCEPT ![owner] = @ + 1]
        PROVE  Exact
    <3>1. CASE policy = "retained" /\ owner = o
      <4>1. counted'[o] = counted[o] + 1 /\ counted[o] < ChannelCap
            /\ counted[o] \in Nat
        BY <2>2, <3>1, AdmissionAssumption DEF TypeOK, AtChannelCap
      <4>2. after = before \cup {q.chan} /\ q.chan \notin before
        BY <2>2, <3>1
      <4>3. IsFiniteSet(before)
        BY AdmissionAssumption, FS_Subset
      <4>4. Cardinality(after) = Cardinality(before) + 1
        <5> HIDE DEF before, after
        <5> QED
          BY <4>2, <4>3, FS_AddElement
      <4> QED
        BY <1>0, <4>1, <4>4, AdmissionAssumption
    <3>2. CASE ~ (policy = "retained" /\ owner = o)
      <4>1. after = before
        BY <2>2, <3>2
      <4>2. counted'[o] = counted[o]
        BY <2>2, <3>2 DEF TypeOK
      <4> QED
        BY <1>a, <4>1, <4>2
    <3> QED
      BY <3>1, <3>2
  <2> QED
    BY <1>1, <2>1, <2>2, CreateStores, AdmissionAssumption
<1>2. CASE ~ \E r \in Request, q \in Args : Create(r, q)
  BY <1>2, <1>a, OthersStore
<1> QED
  BY <1>1, <1>2

\* An account's counter is the number of its ticketless channels, and the cap
\* holds, however its creates interleave.
THEOREM CounterMatchesHolds == Spec => []CounterMatches
<1>1. Init => CounterMatches
  <2> SUFFICES ASSUME Init, NEW o \in Account
               PROVE  LET made == {c \in Channel : record[c].exists
                                                     /\ record[c].owner = o
                                                     /\ record[c].policy = "retained"}
                      IN counted[o] = Cardinality(made) /\ counted[o] <= ChannelCap
    BY DEF CounterMatches
  <2>1. {c \in Channel : record[c].exists /\ record[c].owner = o
                           /\ record[c].policy = "retained"} = {}
    BY DEF Init, None
  <2>2. counted[o] = 0 /\ 0 <= ChannelCap
    BY AdmissionAssumption DEF Init
  <2> QED
    BY <2>1, <2>2, FS_EmptySet
<1> QED
  BY <1>1, AdmissionTypeCorrect, CounterMatchesStep, PTL DEF Spec
=============================================================================
