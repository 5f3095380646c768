-------------------------------- MODULE MCBHP --------------------------------
(* Instances of BHP for TLC.  Threads are interchangeable, and so are session records. *)
EXTENDS BHP, TLC

Symmetry == Permutations(Threads) \cup Permutations(Sess)
=============================================================================
