------------------------------ MODULE RWLockSpec ------------------------------
(***************************************************************************)
(* What a readers-writer lock promises, whatever its implementation: many   *)
(* readers or one writer.                                                   *)
(***************************************************************************)
CONSTANT Threads

VARIABLE mode   \* what each thread holds: "none", "read" or "write"

Init == mode = [t \in Threads |-> "none"]

AcquireRead(t) == /\ mode[t] = "none"
                  /\ \A u \in Threads : mode[u] # "write"
                  /\ mode' = [mode EXCEPT ![t] = "read"]

AcquireWrite(t) == /\ \A u \in Threads : mode[u] = "none"
                   /\ mode' = [mode EXCEPT ![t] = "write"]

Release(t) == /\ mode[t] # "none"
              /\ mode' = [mode EXCEPT ![t] = "none"]

Next == \E t \in Threads : AcquireRead(t) \/ AcquireWrite(t) \/ Release(t)

Spec == Init /\ [][Next]_mode
==============================================================================
