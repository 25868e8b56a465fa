------------------------------- MODULE Shelf -------------------------------
(***************************************************************************)
(* What the retention store promises for one channel (store.go, header     *)
(* comment: "assign seq, ... append, evict oldest past msg/byte caps").    *)
(* Messages get the seqs 1, 2, 3, ... in the order they are appended.  An  *)
(* append may push out the oldest entries, any number of them: by which    *)
(* caps and which counters is the store's business.  Whatever else         *)
(* disappears was past its expiry before.                                  *)
(***************************************************************************)
EXTENDS Naturals

VARIABLES
    issued,    \* how many seqs have been assigned
    kept,      \* the seqs in the stream
    expired    \* those of them that are past their expiry

vars == <<issued, kept, expired>>

Init ==
    /\ issued = 0
    /\ kept = {}
    /\ expired = {}

\* The next seq is assigned and the oldest entries go.  A message may be past its
\* expiry when it is stored: its clock was read before.
Add ==
    LET new == issued + 1
        entries == kept \cup {new}
    IN
    /\ issued' = new
    /\ \E gone \in SUBSET entries :
          /\ \A k \in gone, j \in entries \ gone : k < j
          /\ kept' = entries \ gone
          /\ \/ expired' = expired \ gone
             \/ expired' = (expired \cup {new}) \ gone

\* Time passes and some entries outlive their TTL.
Age(dead) ==
    /\ dead \subseteq kept
    /\ expired' = expired \cup dead
    /\ UNCHANGED <<issued, kept>>

\* The sweeper deletes an expired entry.
Remove(k) ==
    /\ k \in expired
    /\ kept' = kept \ {k}
    /\ expired' = expired \ {k}
    /\ UNCHANGED issued

Next ==
    \/ Add
    \/ \E dead \in SUBSET kept : Age(dead)
    \/ \E k \in expired : Remove(k)

Spec == Init /\ [][Next]_vars
=============================================================================
