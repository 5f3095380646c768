------------------------------ MODULE MCService ------------------------------
(* Instances of Service for TLC.  Client threads, listener threads and spooler sessions *)
(* are interchangeable among themselves.                                               *)
EXTENDS Service, TLC

\* A BHv1 machine where one thing at most is missing, other at each jhis_init, of those
\* jhis_init cannot do without; the version of the firmware is found.
Bhv1 == Things \ {"/dev/dal0", "SDM", "RTM", "metadata"}
FwVersion == {Opens[i] : i \in 1..3} \cup {Answers[i] : i \in 1..3}
OneFault == {Bhv1} \cup {Bhv1 \ {x} : x \in Bhv1 \ FwVersion}
Mei == [transport |-> "MEI"]

\* A BHv2 machine with the kernel's device, which may not be reachable.
Bhv2 == Things \ {"RTM"}
Reachable == {Bhv2, Bhv2 \ {"transport"}, Bhv2 \ {"pluginInit"}}
Auto == [transport |-> "AUTO"]

Symmetry == Permutations(Clients) \cup Permutations(Listeners) \cup Permutations(Spoolers)
==============================================================================
