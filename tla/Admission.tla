----------------------------- MODULE Admission -----------------------------
(***************************************************************************)
(* Who may create a channel and who is let in: POST /channel               *)
(* (transport.handleCreateChannel), the channel records, tickets and       *)
(* channel counters in Redis (internal/store), the in-memory registry of   *)
(* keys (internal/auth) that both attach paths consult, and the restart    *)
(* that reloads the registry from Redis (cmd/doublethink/serve.go).        *)
(*                                                                         *)
(* Granularity.  A create request is two steps, its Redis script and its   *)
(* Register, with other requests, attaches and a crash in between.  The    *)
(* open path is two steps as well: the guard reads the registry, and only  *)
(* later the subscription is made.  Keys, channel names and retention      *)
(* policies are opaque values.                                             *)
(***************************************************************************)
EXTENDS Integers, FiniteSets

CONSTANTS
    Channel,      \* channel ids
    Key,          \* K_auth values clients derive
    NoKey,        \* the empty auth_key
    Account,      \* account ids
    NoAccount,    \* the empty owner
    Ticket,       \* tickets the operator may issue
    NoTicket,     \* the empty ticket
    match,        \* per ticket: the channels its channel_match covers
    Request,      \* create requests
    Reader,       \* connections that subscribe, on either path
    ChannelCap,   \* limits.ChannelsPerAccount
    MaxRestarts   \* bound: restarts of the broker

ASSUME AdmissionAssumption ==
    /\ NoKey \notin Key /\ NoAccount \notin Account /\ NoTicket \notin Ticket
    /\ "retained" \notin Ticket /\ "ephemeral" \notin Ticket
    /\ match \in [Ticket -> SUBSET Channel]
    /\ IsFiniteSet(Channel)
    /\ ChannelCap \in Nat \ {0}
    /\ MaxRestarts \in Nat

VARIABLES
    record,     \* ch:<id>: the channel records that exist
    counted,    \* acct:<id>:usage channels
    ticket,     \* ticket:<t>: "unissued", "saved" (no expiry yet), "open",
                \* "forever" (its EXPIRE failed), "used", "expired", "lost"
                \* (the broker died before it told the operator)
    registry,   \* auth.Registry.channels
    create,     \* the create requests
    reader,     \* the subscribing connections
    epoch,      \* how often the broker has been restarted
    unread      \* history: the channels whose record the last start failed to read

vars == <<record, counted, ticket, registry, create, reader, epoch, unread>>

\* A record says who it belongs to and, as history, which request made it.
None == [exists |-> FALSE]
Record ==
    {m \in [exists : {TRUE}, key : Key \cup {NoKey},
            owner : Account \cup {NoAccount},
            policy : Ticket \cup {"retained", "ephemeral"}, by : Request] :
        m.policy = "ephemeral" => m.key # NoKey /\ m.owner = NoAccount}

\* Seeded fault (TypeOK): a keyless create is accepted without retention.
ArgsUnchecked == [chan : Channel, key : Key \cup {NoKey},
                  owner : Account \cup {NoAccount}, ticket : Ticket \cup {NoTicket},
                  retain : BOOLEAN]

\* A request's arguments, and its progress: "new", "register" (its script ran),
\* "created"; "refused" (answered with any error) and "lost" (the broker died),
\* after which its arguments do not matter.
Args == {q \in [chan : Channel, key : Key \cup {NoKey},
                owner : Account \cup {NoAccount}, ticket : Ticket \cup {NoTicket},
                retain : BOOLEAN] :
            \* "a keyless request is only meaningful WITH retention"
            /\ q.key = NoKey /\ q.ticket = NoTicket => q.retain
            \* neither path reads the other's fields
            /\ q.ticket # NoTicket => ~ q.retain
            /\ q.ticket = NoTicket /\ ~ q.retain => q.owner = NoAccount}
New == [at |-> "new"]
Refused == [at |-> "refused"]
Lost == [at |-> "lost"]
CreateState ==
    {New, Refused, Lost} \cup
    [at : {"register", "created"}, args : Args, epoch : 0..MaxRestarts]

NoReader == [at |-> "out"]
ReaderState ==
    {NoReader} \cup [at : {"guarded", "attached"}, chan : Channel,
                     path : {"open", "private"}]

TypeOK ==
    /\ record \in [Channel -> Record \cup {None}]
    /\ counted \in [Account -> Nat]
    /\ ticket \in [Ticket -> {"unissued", "saved", "open", "forever", "used",
                              "expired", "lost"}]
    /\ registry \in [Channel -> Key \cup {NoKey}]
    /\ create \in [Request -> CreateState]
    /\ reader \in [Reader -> ReaderState]
    /\ epoch \in 0..MaxRestarts
    /\ unread \subseteq Channel

Init ==
    /\ record = [c \in Channel |-> None]
    /\ counted = [o \in Account |-> 0]
    /\ ticket = [t \in Ticket |-> "unissued"]
    /\ registry = [c \in Channel |-> NoKey]
    /\ create = [r \in Request |-> New]
    /\ reader = [d \in Reader |-> NoReader]
    /\ epoch = 0
    /\ unread = {}

-----------------------------------------------------------------------------
(* POST /admin/grant *)

\* IssueGrant: HSET, and then EXPIRE in a second command whose error is ignored.
GrantSaved(t) ==
    /\ ticket[t] = "unissued"
    /\ ticket' = [ticket EXCEPT ![t] = "saved"]
    /\ UNCHANGED <<record, counted, registry, create, reader, epoch, unread>>

GrantAnswered(t) ==
    /\ ticket[t] = "saved"
    /\ \E s \in {"open", "forever"} : ticket' = [ticket EXCEPT ![t] = s]
    /\ UNCHANGED <<record, counted, registry, create, reader, epoch, unread>>

TicketExpires(t) ==
    /\ ticket[t] = "open"
    /\ ticket' = [ticket EXCEPT ![t] = "expired"]
    /\ UNCHANGED <<record, counted, registry, create, reader, epoch, unread>>

-----------------------------------------------------------------------------
(* POST /channel *)

\* Seeded fault (TicketOnce): redeeming a ticket does not delete it.
RedeemableAgain(t) == ticket[t] \in {"open", "forever", "used"}

Redeemable(t) == ticket[t] \in {"open", "forever"}

Answer(r, q, how) ==
    create' = [create EXCEPT ![r] = [at |-> how, args |-> q, epoch |-> epoch]]

Refuse(r) == create' = [create EXCEPT ![r] = Refused]

\* The script ran: a request with a key goes on to Register, a keyless one is
\* answered at once and stays out of the registry.  If the script's reply is lost
\* (or, sent again, it finds the name taken by itself) the answer is an error.
Proceed(r, q) ==
    \/ Answer(r, q, IF q.key = NoKey THEN "created" ELSE "register")
    \/ Refuse(r)

Save(r, q, owner, policy) ==
    record' = [record EXCEPT ![q.chan] =
                  [exists |-> TRUE, key |-> q.key, owner |-> owner,
                   policy |-> policy, by |-> r]]

TicketCovers(q) ==
    /\ Redeemable(q.ticket)
    /\ q.chan \in match[q.ticket]
    /\ ~ record[q.chan].exists

\* createWithTicketLua: the ticket exists and covers the name, the name is free;
\* the policy is the ticket's, and the ticket is deleted.
CreateWithTicket(r, q) ==
    /\ q.ticket # NoTicket
    /\ IF TicketCovers(q)
         THEN /\ Save(r, q, q.owner, q.ticket)
              /\ ticket' = [ticket EXCEPT ![q.ticket] = "used"]
              /\ Proceed(r, q)
         ELSE /\ Refuse(r)
              /\ UNCHANGED <<record, ticket>>
    /\ UNCHANGED counted

\* Seeded fault (CounterMatches): the cap is off by one.
AtChannelCapLate(owner) == owner # NoAccount /\ counted[owner] > ChannelCap

AtChannelCap(owner) == owner # NoAccount /\ counted[owner] >= ChannelCap

\* createChannelLua for a retained channel: the name is free and the account, if
\* there is one, is below its channel cap.
CreateRetained(r, q) ==
    /\ q.ticket = NoTicket /\ q.retain
    /\ IF record[q.chan].exists \/ AtChannelCap(q.owner)
         THEN /\ Refuse(r)
              /\ UNCHANGED <<record, counted>>
         ELSE /\ Save(r, q, q.owner, "retained")
              /\ counted' = IF q.owner = NoAccount THEN counted
                            ELSE [counted EXCEPT ![q.owner] = @ + 1]
              /\ Proceed(r, q)
    /\ UNCHANGED ticket

\* Seeded fault (RetainedIsOurs): an ephemeral create does not look first.
CreateEphemeralOverwrites(r, q) ==
    /\ q.ticket = NoTicket /\ ~ q.retain
    /\ Save(r, q, NoAccount, "ephemeral")
    /\ Proceed(r, q)
    /\ UNCHANGED <<counted, ticket>>

\* createChannelLua for an ephemeral channel; that the name is taken is ignored.
CreateEphemeral(r, q) ==
    /\ q.ticket = NoTicket /\ ~ q.retain
    /\ IF record[q.chan].exists THEN UNCHANGED record
                                ELSE Save(r, q, NoAccount, "ephemeral")
    /\ Proceed(r, q)
    /\ UNCHANGED <<counted, ticket>>

\* Redis does not run the script.
CreateFails(r) == Refuse(r) /\ UNCHANGED <<record, counted, ticket>>

Create(r, q) ==
    /\ create[r] = New
    /\ \/ CreateWithTicket(r, q) \/ CreateRetained(r, q) \/ CreateEphemeral(r, q)
       \/ CreateFails(r)
    /\ UNCHANGED <<registry, reader, epoch, unread>>

\* Seeded fault (EphemeralAdmits): the conflict is never reported.
RegisterIgnoresConflict(r) ==
    LET q == create[r].args IN
    /\ create[r].at = "register"
    /\ registry' = IF registry[q.chan] = NoKey
                     THEN [registry EXCEPT ![q.chan] = q.key] ELSE registry
    /\ create' = [create EXCEPT ![r].at = "created"]
    /\ UNCHANGED <<record, counted, ticket, reader, epoch, unread>>

\* Seeded fault (KeyIsStable): registering again replaces the key.
RegisterOverwrites(r) ==
    /\ create[r].at = "register"
    /\ registry' = [registry EXCEPT ![create[r].args.chan] = create[r].args.key]
    /\ create' = [create EXCEPT ![r].at = "created"]
    /\ UNCHANGED <<record, counted, ticket, reader, epoch, unread>>

\* Registry.Register: an id that is already registered is an error, which the
\* ephemeral path answers with a conflict and the other two ignore.
Register(r) ==
    LET q == create[r].args IN
    /\ create[r].at = "register"
    /\ IF registry[q.chan] = NoKey
         THEN /\ registry' = [registry EXCEPT ![q.chan] = q.key]
              /\ create' = [create EXCEPT ![r].at = "created"]
         ELSE /\ IF q.ticket = NoTicket /\ ~ q.retain
                   THEN Refuse(r)
                   ELSE create' = [create EXCEPT ![r].at = "created"]
              /\ UNCHANGED registry
    /\ UNCHANGED <<record, counted, ticket, reader, epoch, unread>>

-----------------------------------------------------------------------------
(* Attaching *)

\* GET /subscribe/<topic> and POST /publish/<topic>: guardPublicTopic refuses a
\* registered name.  The subscription itself comes after it.
OpenGuard(d, c) ==
    /\ reader[d] = NoReader
    /\ registry[c] = NoKey
    /\ reader' = [reader EXCEPT ![d] = [at |-> "guarded", chan |-> c,
                                        path |-> "open"]]
    /\ UNCHANGED <<record, counted, ticket, registry, create, epoch, unread>>

OpenAttach(d) ==
    /\ reader[d].at = "guarded"
    /\ reader' = [reader EXCEPT ![d].at = "attached"]
    /\ UNCHANGED <<record, counted, ticket, registry, create, epoch, unread>>

\* GET /ws: Registry.Verify accepts a response made with the registered key.
PrivateAttach(d, c, k) ==
    /\ reader[d] = NoReader
    /\ registry[c] = k
    /\ reader' = [reader EXCEPT ![d] = [at |-> "attached", chan |-> c,
                                        path |-> "private"]]
    /\ UNCHANGED <<record, counted, ticket, registry, create, epoch, unread>>

Detach(d) ==
    /\ reader[d] # NoReader
    /\ reader' = [reader EXCEPT ![d] = NoReader]
    /\ UNCHANGED <<record, counted, ticket, registry, create, epoch, unread>>

-----------------------------------------------------------------------------
(* serve.go *)

\* Seeded fault (RestartAdmits): the registry is not loaded from the store.
RestartForgets ==
    /\ epoch < MaxRestarts
    /\ epoch' = epoch + 1
    /\ registry' = [c \in Channel |-> NoKey]
    /\ reader' = [d \in Reader |-> NoReader]
    /\ UNCHANGED <<record, counted, ticket, create, unread>>

\* AllChannelKAuth and Registry.Load: a record whose HGET fails is skipped in
\* silence, and of the others those are kept whose key decodes.
Load(failed) ==
    /\ registry' = [c \in Channel |->
                      IF record[c].exists /\ c \notin failed THEN record[c].key
                                                             ELSE NoKey]
    /\ unread' = failed

\* The broker dies and starts again: connections and unanswered requests are gone.
Restart ==
    /\ epoch < MaxRestarts
    /\ epoch' = epoch + 1
    /\ \E failed \in SUBSET {c \in Channel : record[c].exists} : Load(failed)
    /\ create' = [r \in Request |->
                    IF create[r].at = "register" THEN Lost ELSE create[r]]
    /\ ticket' = [t \in Ticket |->
                    IF ticket[t] = "saved" THEN "lost" ELSE ticket[t]]
    /\ reader' = [d \in Reader |-> NoReader]
    /\ UNCHANGED <<record, counted>>

Next ==
    \/ \E t \in Ticket : GrantSaved(t) \/ GrantAnswered(t) \/ TicketExpires(t)
    \/ \E r \in Request :
          \/ \E q \in Args : Create(r, q)
          \/ Register(r)
    \/ \E d \in Reader :
          \/ \E c \in Channel : OpenGuard(d, c)
          \/ OpenAttach(d)
          \/ \E c \in Channel, k \in Key : PrivateAttach(d, c, k)
          \/ Detach(d)
    \/ Restart

Spec == Init /\ [][Next]_vars

-----------------------------------------------------------------------------
(* Properties *)

Created(r) == create[r].at = "created"
IsEphemeral(q) == q.ticket = NoTicket /\ ~ q.retain

\* A retained channel that was answered "created" belongs to that request: its
\* record holds the request's key and owner and is never anybody else's, whatever
\* creates of the same name race with it or follow it, and across restarts.
RetainedIsOurs ==
    \A r \in Request :
        Created(r) /\ ~ IsEphemeral(create[r].args) =>
            LET q == create[r].args IN
            /\ record[q.chan].exists
            /\ record[q.chan].by = r
            /\ record[q.chan].key = q.key

\* A ticket makes one channel at most, of a name it covers and with the ticket's
\* own policy, even if the broker dies before the redeemer hears of it.
TicketOnce ==
    \A t \in Ticket :
        LET made == {c \in Channel : record[c].exists /\ record[c].policy = t} IN
        /\ Cardinality(made) <= 1
        /\ made \subseteq match[t]
        /\ made # {} => ticket[t] = "used"

\* The counter of an account is the number of channels it has made without a
\* ticket, and so those never exceed the cap however its requests race.
CounterMatches ==
    \A o \in Account :
        LET made == {c \in Channel : record[c].exists /\ record[c].owner = o
                                       /\ record[c].policy = "retained"} IN
        /\ counted[o] = Cardinality(made)
        /\ counted[o] <= ChannelCap

\* An ephemeral channel that was answered "created" is admitted with its own key,
\* and no other, until the broker restarts.
EphemeralAdmits ==
    \A r \in Request :
        Created(r) /\ IsEphemeral(create[r].args) /\ create[r].epoch = epoch
            => registry[create[r].args.chan] = create[r].args.key

\* Request r made an ephemeral channel c in this run, and its key is c's.
TookName(r, c) ==
    /\ Created(r) /\ IsEphemeral(create[r].args) /\ create[r].epoch = epoch
    /\ create[r].args.chan = c /\ create[r].args.key = registry[c]

\* A retained channel that was answered "created" with a key is admitted with that
\* key in every later run of the broker whose start could read its record.  If it
\* could not, the channel is admitted with no key at all, or with that of an
\* ephemeral create of the same run, which finds the name unregistered.
RestartAdmits ==
    \A r \in Request :
        LET q == create[r].args IN
        Created(r) /\ ~ IsEphemeral(q) /\ q.key # NoKey /\ create[r].epoch < epoch
            => \/ registry[q.chan] = q.key
               \/ /\ q.chan \in unread
                  /\ \/ registry[q.chan] = NoKey
                     \/ \E e \in Request : TookName(e, q.chan)

\* While the broker runs, the key a channel is admitted with never changes.
KeyIsStable ==
    [][\A c \in Channel : registry[c] # NoKey /\ epoch' = epoch
          => registry'[c] = registry[c]]_vars

\* transport.go: "creating a private channel takes one request and yields a secret
\* that is the real gate".  A create answered "created" with a key is admitted with
\* that key for the rest of the run.
CreatedKeyAdmits ==
    \A r \in Request :
        Created(r) /\ create[r].args.key # NoKey /\ create[r].epoch = epoch
            => registry[create[r].args.chan] = create[r].args.key

\* transport.go: "the public plaintext endpoints refuse any name that is a
\* registered private channel, so a private channel can never be reached through
\* the open path".  Nobody is subscribed through the open path to a channel
\* somebody is attached to with its key.
PrivateNeverOpen ==
    ~ \E d, g \in Reader :
        /\ reader[d].at = "attached" /\ reader[g].at = "attached"
        /\ reader[d].path = "open" /\ reader[g].path = "private"
        /\ reader[d].chan = reader[g].chan
=============================================================================
