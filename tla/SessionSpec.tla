----------------------------- MODULE SessionSpec -----------------------------
(***************************************************************************)
(* What the session table promises, without threads, locks or requests.    *)
(* A session is recorded for one owner; an applet has one shared session   *)
(* at most, which other processes join and leave; processes that ended are *)
(* forgotten; and a record goes only once the VM has ended the session or  *)
(* the plugin has given it up.                                             *)
(***************************************************************************)
EXTENDS Naturals, Functions

CONSTANTS Ids, Procs, Apps, None, MaxOwners

VARIABLES status,    \* "unused", "live" or "gone"
          appId, flags,   \* applet and kind of a live session
          owners,    \* how many handles each process has on it
          open       \* the sessions open in the VM, as far as the plugin can tell

vars == <<status, appId, flags, owners, open>>

NoOwners == [p \in Procs |-> 0]

Init == /\ status = [id \in Ids |-> "unused"]
        /\ appId = [id \in Ids |-> None]
        /\ flags = [id \in Ids |-> "none"]
        /\ owners = [id \in Ids |-> NoOwners]
        /\ open = {}

\* The VM opens a session; it ends, or the plugin drops it or reports it dead.
VMOpen(id) == status[id] = "unused" /\ open' = open \cup {id} /\ UNCHANGED <<status, appId, flags, owners>>
VMEnd(id) == open' = open \ {id} /\ UNCHANGED <<status, appId, flags, owners>>

Create(id, a, kind, p) ==
    /\ status[id] = "unused"
    /\ kind = "shared" =>
         \A other \in Ids : ~(status[other] = "live" /\ appId[other] = a /\ flags[other] = "shared")
    /\ status' = [status EXCEPT ![id] = "live"]
    /\ appId' = [appId EXCEPT ![id] = a]
    /\ flags' = [flags EXCEPT ![id] = kind]
    /\ owners' = [owners EXCEPT ![id] = [NoOwners EXCEPT ![p] = 1]]
    /\ UNCHANGED open
Join(id, p) ==
    /\ status[id] = "live" /\ flags[id] = "shared" /\ SumFunction(owners[id]) < MaxOwners
    /\ owners' = [owners EXCEPT ![id][p] = @ + 1]
    /\ UNCHANGED <<status, appId, flags, open>>
Leave(id, p) ==
    /\ status[id] = "live" /\ owners[id][p] > 0
    /\ owners' = [owners EXCEPT ![id][p] = @ - 1]
    /\ UNCHANGED <<status, appId, flags, open>>
Forget(dead) ==
    /\ owners' = [id \in Ids |-> [p \in Procs |-> IF p \in dead THEN 0 ELSE owners[id][p]]]
    /\ UNCHANGED <<status, appId, flags, open>>
End(id) ==
    /\ status[id] = "live" /\ id \notin open
    /\ status' = [status EXCEPT ![id] = "gone"]
    /\ appId' = [appId EXCEPT ![id] = None]
    /\ flags' = [flags EXCEPT ![id] = "none"]
    /\ owners' = [owners EXCEPT ![id] = NoOwners]
    /\ UNCHANGED open

Next == \/ \E id \in Ids : VMOpen(id) \/ VMEnd(id) \/ End(id)
        \/ \E id \in Ids, p \in Procs : Join(id, p) \/ Leave(id, p)
        \/ \E id \in Ids, a \in Apps, kind \in {"shared", "none"}, p \in Procs :
             Create(id, a, kind, p)
        \/ \E dead \in SUBSET Procs : Forget(dead)

Spec == Init /\ [][Next]_vars
==============================================================================
