------------------------------ MODULE MCLibJHI ------------------------------
(* Model checking of LibJHI on small sets; threads and addresses are       *)
(* interchangeable.                                                        *)
EXTENDS LibJHI, TLC

Symmetry == Permutations(Threads) \cup Permutations(Addrs) \cup Permutations(Sids)

=============================================================================
