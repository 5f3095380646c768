----------------------------- MODULE MCSessions -----------------------------
(***************************************************************************)
(* Sessions for TLC.  Threads, session ids and processes are interchangeable. *)
(***************************************************************************)
EXTENDS Sessions, TLC

Symmetry == \* sound for safety only
    Permutations(Threads) \cup Permutations(Ids) \cup Permutations(Procs) \cup Permutations(Apps)
=============================================================================
