-------------------------- MODULE MCResponseCache --------------------------
(* Three requests of one user: two for the same response, one for another. *)
EXTENDS ResponseCache, TLC
CONSTANTS r1, r2, r3, u1, accounts, bills

MCAsks == [r \in {r1, r2, r3} |->
             [user |-> u1, route |-> IF r = r3 THEN bills ELSE accounts]]
=============================================================================
