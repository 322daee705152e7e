---------------------------- MODULE MCJobsPoller ----------------------------
(* Small instances of JobsPoller: two independent rows, or two requests for a *)
(* sync of the same user.                                                     *)
EXTENDS JobsPoller, TLC
CONSTANTS j1, j2, w1, w2, u1

MCIndependent == [j \in {j1, j2} |-> NoUser]
MCSameUser == [j \in {j1, j2} |-> u1]
MCSymmetry == Permutations({w1, w2}) \cup Permutations({j1, j2})
=============================================================================
