-------------------------- MODULE MCInboundEvents --------------------------
(* Deliveries of one Plaid item: all alike, or with different keys. *)
EXTENDS InboundEvents, TLC
CONSTANTS w1, w2, item

MCOneItem == [e \in Events |-> item]
MCSameKey == [e \in Events |-> "key"]
MCOwnKeys == [e \in Events |-> e]
MCSymmetry == Permutations({w1, w2})
=============================================================================
