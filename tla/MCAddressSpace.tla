--------------------------- MODULE MCAddressSpace ----------------------------
(* The address spaces of a few states, small enough to explore in full. *)
EXTENDS AddressSpace, TLC

(* Addresses are interchangeable; the initial state is distinguished. *)
Addresses == Permutations(ObjectState) \cup Permutations(Value)
=============================================================================
