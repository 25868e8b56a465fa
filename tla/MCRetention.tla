---------------------------- MODULE MCRetention ----------------------------
(* Small instances of Retention for TLC. *)
EXTENDS Retention, TLC

CONSTANTS c1, c2, o1

\* One channel of an account, or two channels of the same account.
OneOwned == (c1 :> o1)
TwoOwned == (c1 :> o1) @@ (c2 :> o1)

\* Messages that expire, with the number capped or the bytes capped; messages
\* that do not expire, with the number capped.  The cap of one byte is less than
\* the larger message, which then goes with everything before it.
Aging == [ttl |-> 1, maxBytes |-> 0, maxMsgs |-> 2]
ByBytes == [ttl |-> 1, maxBytes |-> 1, maxMsgs |-> 0]
Permanent == [ttl |-> 0, maxBytes |-> 0, maxMsgs |-> 2]

\* The operator switches the first channel between its two kinds of limits; the
\* second one is there to share the account.
Switched == (c1 :> {ByBytes, Permanent}) @@ (c2 :> {Aging})
TwoAndOne == (c1 :> 2) @@ (c2 :> 1)

OnlyAging == (c1 :> {Aging})
Three == (c1 :> 3)
=============================================================================
