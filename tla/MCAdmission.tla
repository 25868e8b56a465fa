---------------------------- MODULE MCAdmission ----------------------------
(* Small instances of Admission for TLC. *)
EXTENDS Admission, TLC

CONSTANTS c1, c2, t1

\* A ticket for the namespace both channels are in.
CoversBoth == (t1 :> {c1, c2})

Symmetry == Permutations(Channel) \cup Permutations(Key)
               \cup Permutations(Request)
=============================================================================
