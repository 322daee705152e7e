------------------------------ MODULE MCCells ------------------------------
(***************************************************************************)
(* Parts of the system that share no state are checked side by side in one *)
(* run: part names the one that runs, which one is chosen at the start,    *)
(* and the cells are its variables, in the order it declares them; those   *)
(* it does not use stay 0.                                                 *)
(***************************************************************************)
EXTENDS Integers

VARIABLES part,
  c1, c2, c3, c4, c5, c6, c7, c8, c9, c10, c11, c12, c13, c14, c15, c16, c17

cells == <<part, c1, c2, c3, c4, c5, c6, c7, c8, c9, c10, c11, c12, c13, c14, c15, c16, c17>>

\* From cell n on, nothing is used.
Free17 == c17 = 0
Free16 == c16 = 0 /\ Free17
Free15 == c15 = 0 /\ Free16
Free14 == c14 = 0 /\ Free15
Free13 == c13 = 0 /\ Free14
Free12 == c12 = 0 /\ Free13
Free11 == c11 = 0 /\ Free12
Free10 == c10 = 0 /\ Free11
Free9 == c9 = 0 /\ Free10
Free8 == c8 = 0 /\ Free9
Free7 == c7 = 0 /\ Free8
Free6 == c6 = 0 /\ Free7
Free5 == c5 = 0 /\ Free6
Free4 == c4 = 0 /\ Free5
Free3 == c3 = 0 /\ Free4
Free2 == c2 = 0 /\ Free3

Kept17 == UNCHANGED <<part, c17>>
Kept16 == UNCHANGED c16 /\ Kept17
Kept15 == UNCHANGED c15 /\ Kept16
Kept14 == UNCHANGED c14 /\ Kept15
Kept13 == UNCHANGED c13 /\ Kept14
Kept12 == UNCHANGED c12 /\ Kept13
Kept11 == UNCHANGED c11 /\ Kept12
Kept10 == UNCHANGED c10 /\ Kept11
Kept9 == UNCHANGED c9 /\ Kept10
Kept8 == UNCHANGED c8 /\ Kept9
Kept7 == UNCHANGED c7 /\ Kept8
Kept6 == UNCHANGED c6 /\ Kept7
Kept5 == UNCHANGED c5 /\ Kept6
Kept4 == UNCHANGED c4 /\ Kept5
Kept3 == UNCHANGED c3 /\ Kept4
Kept2 == UNCHANGED c2 /\ Kept3
=============================================================================
