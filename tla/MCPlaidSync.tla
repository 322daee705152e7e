---------------------------- MODULE MCPlaidSync ----------------------------
(* Two transactions of two accounts; a rule categorises the first. *)
EXTENDS PlaidSync, TLC
CONSTANTS s1, s2, a1, a2, t1, t2

MCAccountOf == (t1 :> a1) @@ (t2 :> a2)
MCSymmetry == Permutations({s1, s2})
=============================================================================
