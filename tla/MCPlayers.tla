----------------------------- MODULE MCPlayers ------------------------------
(* Players for TLC: clients, addresses and thread ids are alike, and every *)
(* property is a safety property.                                          *)
EXTENDS Players, TLC

Symmetry == Permutations(Client) \cup Permutations(Address) \cup Permutations(Thread)
=============================================================================
