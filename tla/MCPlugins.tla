----------------------------- MODULE MCPlugins -----------------------------
(* Instances of the two VM plugins.  What a handler returned is left out of the state's  *)
(* view: the property about it is evaluated on every step.  So are the variables of the   *)
(* library that is not loaded, which never change.                                        *)
EXTENDS Plugins, TLC

Symmetry == Permutations(OemSDs) \cup Permutations(Sars)

Seen == IF vmType = "BEIHAI" THEN proxyVars
        ELSE <<lifeVars, seq, sdVars, taVars, installed, faults>>
=============================================================================
