------------------------------- MODULE LibJHI -------------------------------
(***************************************************************************)
(* The state libjhi keeps in an application (jhi.cpp): the reference       *)
(* counted appHandle, the list of session handles and the structures they  *)
(* point to.  Threads of the application call the API at any time; the     *)
(* handle is validated without a lock, the list is used under              *)
(* appHandleLock, and creating a session or sending to it calls the        *)
(* service between two critical sections.  A critical section is one       *)
(* step.  The service is the sessions it has and how often this process is *)
(* in the list of owners of each: a shared session is created once and     *)
(* joined afterwards.  The threads that listen for events are in Events.   *)
(***************************************************************************)
EXTENDS Integers, FiniteSets

CONSTANTS Threads,   \* threads of the application
          Addrs,     \* addresses of JHI_I_SESSION_HANDLE structures
          Sids,      \* session ids
          Pids,      \* processes an Android application creates sessions for
          None,
          MaxInits,  \* bound: JHI_Initialize calls
          MaxFaults  \* bound: calls the service does not answer, sessions it loses

ASSUME LibJHIAssumption ==
    /\ None \notin Addrs \cup Sids /\ "self" \notin Pids
    /\ None \notin [sid : Sids \cup {None}, pid : Pids \cup {"self"}]
    /\ IsFiniteSet(Threads) /\ IsFiniteSet(Addrs)
    /\ MaxInits \in Nat /\ MaxFaults \in Nat

VARIABLES
    platform,     \* "linux" or "android"
    ReferenceCount,  \* of appHandle; 0 when appHandle is NULL
    SessionsList, \* the addresses in appHandle->SessionsList
    mem,          \* address -> the structure there, None if it is free
    pc, h, sid,   \* a thread's place, and its session handle and session id
    inits,        \* handles the application has and has not given back
    used,         \* session ids the service has given out
    service,      \* the sessions the service has
    shared,       \* the session of the applet that is shared, or None
    owners,       \* session -> entries of this process in its list of owners
    deadPids,     \* processes that ended
    calls, faults, deinits, lostReplies

local == <<pc, h, sid>>
app == <<inits, deadPids>>
lib == <<ReferenceCount, SessionsList, mem>>
counts == <<calls, faults, deinits, lostReplies>>
daemon == <<used, service, shared, owners>>
vars == <<platform, lib, local, app, daemon, counts>>

Init ==
    /\ platform \in {"linux", "android"}
    /\ ReferenceCount = 0
    /\ SessionsList = {}
    /\ mem = [a \in Addrs |-> None]
    /\ pc = [t \in Threads |-> "idle"]
    /\ h = [t \in Threads |-> None]
    /\ sid = [t \in Threads |-> None]
    /\ inits = 0
    /\ used = {}
    /\ service = {}
    /\ shared = None
    /\ owners = [s \in Sids |-> 0]
    /\ deadPids = {}
    /\ calls = 0 /\ faults = 0 /\ deinits = 0 /\ lostReplies = 0

Goto(t, l) == pc' = [pc EXCEPT ![t] = l]
Fault == faults < MaxFaults /\ faults' = faults + 1

\* A call is over: its locals are gone.
Return(t) ==
    /\ Goto(t, "idle")
    /\ h' = [h EXCEPT ![t] = None]
    /\ sid' = [sid EXCEPT ![t] = None]

SessionHandleValid(a) == ReferenceCount > 0 /\ a \in SessionsList

\* JHI_DEALLOC of session structures.
Freed(as) == [a \in Addrs |-> IF a \in as THEN None ELSE mem[a]]

-----------------------------------------------------------------------------
(* JHI_Initialize and JHI_Deinit.                                          *)

\* Mutant: a second JHI_Initialize does not count.
Again_NotCounted == UNCHANGED ReferenceCount
Again == ReferenceCount' = ReferenceCount + 1

JHI_Initialize(t) ==
    /\ pc[t] = "idle"
    /\ calls < MaxInits
    /\ calls' = calls + 1
    /\ IF ReferenceCount > 0 THEN Again /\ UNCHANGED <<SessionsList, mem>>
       ELSE ReferenceCount' = 1 /\ SessionsList' = {} /\ UNCHANGED mem
    /\ inits' = inits + 1
    /\ UNCHANGED <<platform, local, deadPids, daemon, faults, deinits, lostReplies>>

\* The service does not answer, or there is no memory.
JHI_InitializeFails(t) ==
    /\ pc[t] = "idle"
    /\ ReferenceCount = 0
    /\ calls < MaxInits
    /\ calls' = calls + 1
    /\ Fault
    /\ UNCHANGED <<platform, lib, local, app, daemon, deinits, lostReplies>>

\* ValidateJHIhandle passes if the handle is appHandle; a thread whose
\* handle was given back by another one may meet a new appHandle, at the
\* same address or not.
Enter(t, l) ==
    /\ pc[t] = "idle"
    /\ inits > 0
    /\ Goto(t, l)

JHI_Deinit(t) ==
    /\ Enter(t, "deinit")
    /\ inits' = inits - 1
    /\ UNCHANGED <<platform, lib, h, sid, deadPids, daemon, counts>>

Deinit(t) ==
    /\ pc[t] = "deinit"
    /\ IF ReferenceCount > 1
       THEN ReferenceCount' = ReferenceCount - 1 /\ UNCHANGED <<SessionsList, mem, deinits>>
       ELSE IF ReferenceCount = 1
       THEN /\ ReferenceCount' = 0
            /\ mem' = Freed(SessionsList)
            /\ SessionsList' = {}
            /\ deinits' = deinits + 1
       ELSE UNCHANGED <<lib, deinits>>
    /\ Return(t)
    /\ UNCHANGED <<platform, inits, deadPids, daemon, calls, faults, lostReplies>>

-----------------------------------------------------------------------------
(* JHI_CreateSession, and its Android form for another process.            *)

\* The structure is allocated, and filled from appHandle; on Android, for
\* a process of the caller's, after the sessions of dead ones are cleared.
Allocate(t, p) ==
    \E a \in Addrs : /\ mem[a] = None
                     /\ mem' = [mem EXCEPT ![a] = [sid |-> None, pid |-> p]]
                     /\ h' = [h EXCEPT ![t] = a]
CreateAlloc(t) ==
    /\ Enter(t, "created")
    /\ Allocate(t, "self")
    /\ UNCHANGED <<platform, ReferenceCount, SessionsList, sid, app, daemon, counts>>
CreateProcessAlloc(t) ==
    /\ pc[t] = "cleared"
    /\ \E p \in Pids \ deadPids : Allocate(t, p)
    /\ Goto(t, "created")
    /\ UNCHANGED <<platform, ReferenceCount, SessionsList, sid, app, daemon, counts>>

\* The service opens a session, or joins the applet's shared one to which
\* it adds this process as an owner once more.
Opens(s) ==
    /\ \/ s \in Sids \ used /\ UNCHANGED shared
       \/ s \in Sids \ used /\ shared = None /\ shared' = s
       \/ s = shared /\ UNCHANGED shared
    /\ used' = used \cup {s}
    /\ service' = service \cup {s}
    /\ owners' = [owners EXCEPT ![s] = @ + 1]

\* The sessions ss are closed at the service, or not there any more.
Gone(ss) ==
    /\ service' = service \ ss
    /\ shared' = IF shared \in ss THEN None ELSE shared
    /\ owners' = [s \in Sids |-> IF s \in ss THEN 0 ELSE owners[s]]
    /\ UNCHANGED used

\* JhisCloseSession: this process is taken off the list of owners of the
\* shared session once; another session, or one that is closed by force, is
\* gone.  A shared session that this process does not own is refused.
Closes(s) ==
    /\ s = shared => owners[s] > 0
    /\ \/ /\ s = shared
          /\ owners' = [owners EXCEPT ![s] = @ - 1]
          /\ UNCHANGED <<used, service, shared>>
       \/ Gone({s})

\* For another process the call passes appHandle->processInfo, without the
\* lock: after JHI_Deinit the application ends there.
CreateCall(t) ==
    /\ pc[t] = "created"
    /\ mem[h[t]].pid = "self" \/ ReferenceCount > 0
    /\ \E s \in Sids :
        /\ Opens(s)
        /\ mem' = [mem EXCEPT ![h[t]] = [sid |-> s, pid |-> @.pid]]
        /\ sid' = [sid EXCEPT ![t] = s]
    /\ Goto(t, "add")
    /\ UNCHANGED <<platform, ReferenceCount, SessionsList, h, app, counts>>

\* JhisCreateSession fails: the structure is freed.  The session may exist
\* all the same, when the answer is what got lost.
CreateFails(t) ==
    /\ pc[t] = "created"
    /\ \/ UNCHANGED <<daemon, lostReplies>>
       \/ (\E s \in Sids : Opens(s)) /\ lostReplies' = lostReplies + 1
    /\ Fault
    /\ mem' = Freed({h[t]})
    /\ Return(t)
    /\ UNCHANGED <<platform, ReferenceCount, SessionsList, app, calls, deinits>>

\* Mutant: the handle is returned without being added to the list.
addSessionHandle_Skipped(a) == UNCHANGED SessionsList
addSessionHandle(a) == SessionsList' = SessionsList \cup {a}

\* The list is there, or JHI_Deinit took it away in the meantime.
CreateAdd(t) ==
    /\ pc[t] = "add"
    /\ IF ReferenceCount > 0
       THEN addSessionHandle(h[t]) /\ UNCHANGED mem
       ELSE mem' = Freed({h[t]}) /\ UNCHANGED SessionsList
    /\ Return(t)
    /\ UNCHANGED <<platform, ReferenceCount, inits, deadPids, daemon, counts>>

-----------------------------------------------------------------------------
(* JHI_CloseSession, JHI_ForceCloseSession, and the close that follows a   *)
(* call whose session turned out to be dead.                               *)

JHI_CloseSession(t) ==
    /\ Enter(t, "close")
    /\ \E a \in SessionsList : h' = [h EXCEPT ![t] = a]
    /\ UNCHANGED <<platform, lib, sid, app, daemon, counts>>

removeSessionHandle(a) ==
    /\ SessionsList' = SessionsList \ {a}
    /\ mem' = Freed({a})

\* JhisCloseSession succeeds or finds no session: the handle goes.
CloseDone(t) ==
    /\ pc[t] = "close"
    /\ SessionHandleValid(h[t])
    /\ Closes(mem[h[t]].sid)
    /\ removeSessionHandle(h[t])
    /\ Return(t)
    /\ UNCHANGED <<platform, ReferenceCount, app, counts>>

\* Mutant: the handle goes although the service did not close the session.
CloseKeeps_Removes(a) == removeSessionHandle(a)
CloseKeeps(a) == UNCHANGED <<SessionsList, mem>>

\* The service refuses, or does not answer, having closed the session or
\* not: the handle stays, without its events.
CloseFails(t) ==
    /\ pc[t] = "close"
    /\ SessionHandleValid(h[t])
    /\ CloseKeeps(h[t])
    /\ \/ /\ mem[h[t]].sid = shared /\ owners[shared] = 0
          /\ UNCHANGED <<daemon, lostReplies, faults>>
       \/ Fault /\ UNCHANGED <<daemon, lostReplies>>
       \/ Fault /\ Closes(mem[h[t]].sid) /\ lostReplies' = lostReplies + 1
    /\ Return(t)
    /\ UNCHANGED <<platform, ReferenceCount, app, calls, deinits>>

CloseInvalid(t) ==
    /\ pc[t] = "close"
    /\ ~SessionHandleValid(h[t]) \/ deinits > 0
    /\ Return(t)
    /\ UNCHANGED <<platform, lib, app, daemon, counts>>

-----------------------------------------------------------------------------
(* JHI_SendAndRecv2 and JHI_GetSessionInfo.                                *)

\* getSessionID copies the id under the lock.
getSessionID(t) ==
    /\ Enter(t, "send")
    /\ \E a \in SessionsList : /\ SessionHandleValid(a)
                       /\ h' = [h EXCEPT ![t] = a]
                       /\ sid' = [sid EXCEPT ![t] = mem[a].sid]
    /\ UNCHANGED <<platform, lib, app, daemon, counts>>

\* The session answers, or the service does not.
SendDone(t) ==
    /\ pc[t] = "send"
    /\ IF sid[t] \in service THEN UNCHANGED faults ELSE Fault
    /\ Return(t)
    /\ UNCHANGED <<platform, lib, app, daemon, calls, deinits, lostReplies>>

\* The session is not there, or it crashes: it is closed on this side too.
SendDead(t) ==
    /\ pc[t] = "send"
    /\ \/ sid[t] \notin service /\ UNCHANGED <<daemon, faults>>
       \/ sid[t] \in service /\ Fault /\ Gone({sid[t]})
    /\ sid' = [sid EXCEPT ![t] = None]
    /\ Goto(t, "close")
    /\ UNCHANGED <<platform, lib, h, app, calls, deinits, lostReplies>>

-----------------------------------------------------------------------------
(* JHI_RegisterEvents and JHI_UnRegisterEvents are one critical section,   *)
(* the call to the service included.  Here they matter when the service    *)
(* says that the session is not there.                                     *)

RegisterFindsDead(t) ==
    \E a \in SessionsList :
        /\ pc[t] = "idle"
        /\ inits > 0
        /\ SessionHandleValid(a)
        /\ mem[a].sid \notin service
        /\ removeSessionHandle(a)
        /\ UNCHANGED <<platform, ReferenceCount, local, app, daemon, counts>>

-----------------------------------------------------------------------------
(* Android: sessions of other processes are closed when these have ended,  *)
(* before a session is created or an applet installed; and by              *)
(* JHI_ClearSessions, for a process it is told of, dead or not.            *)

ClearBegin(t) ==
    /\ platform = "android"
    /\ \E next \in {"clear", "clearFirst"} : Enter(t, next)
    /\ ReferenceCount > 0
    /\ UNCHANGED <<platform, lib, h, sid, app, daemon, counts>>

AfterClear(t) == IF pc[t] = "clear" THEN Return(t) ELSE Goto(t, "cleared") /\ UNCHANGED <<h, sid>>

\* The handles clearDeadOwnersSessions or clearDestroyedSessions closes.
\* What the service answers to each close is ignored.
DeadOwners(as) == {a \in as : mem[a].pid \in deadPids}
ToClear(t) ==
    IF pc[t] = "clearFirst" THEN {DeadOwners(SessionsList)}
    ELSE {{a \in SessionsList : mem[a].pid = p} : p \in Pids}
Cleared(as) ==
    /\ owners' = [s \in Sids |->
          IF s \in service \ {shared} /\ \E a \in as : mem[a].sid = s THEN 0
          ELSE LET n == Cardinality({a \in as : mem[a].sid = s})
               IN  IF n < owners[s] THEN owners[s] - n ELSE 0]
    /\ service' = service \ ({mem[a].sid : a \in as} \ {shared})
    /\ UNCHANGED <<used, shared>>
Clear(t) ==
    /\ pc[t] \in {"clear", "clearFirst"}
    /\ ReferenceCount > 0
    /\ \E as \in ToClear(t) :
        /\ \E failed \in SUBSET as :
            /\ IF failed = {} THEN UNCHANGED faults ELSE Fault
            /\ Cleared(as \ failed)
        /\ SessionsList' = SessionsList \ as
        /\ mem' = Freed(as)
    /\ AfterClear(t)
    /\ UNCHANGED <<platform, ReferenceCount, app, calls, deinits, lostReplies>>

\* appHandle was read before the lock was taken, and JHI_Deinit came in
\* between: the list that is walked was freed.  It still reads as an empty
\* list, or the application ends.
ClearFreed(t) ==
    /\ pc[t] \in {"clear", "clearFirst"}
    /\ ReferenceCount = 0
    /\ AfterClear(t)
    /\ UNCHANGED <<platform, lib, app, daemon, counts>>

-----------------------------------------------------------------------------
(* The rest of the world.                                                  *)

ServiceLoses ==
    /\ Fault
    /\ \E s \in service : Gone({s})
    /\ UNCHANGED <<platform, lib, local, app, calls, deinits, lostReplies>>

ProcessEnds ==
    /\ platform = "android"
    /\ \E p \in Pids \ deadPids : deadPids' = deadPids \cup {p}
    /\ UNCHANGED <<platform, lib, local, inits, daemon, counts>>

Next ==
    \/ \E t \in Threads :
        \/ JHI_Initialize(t) \/ JHI_InitializeFails(t) \/ JHI_Deinit(t) \/ Deinit(t)
        \/ CreateAlloc(t) \/ CreateProcessAlloc(t) \/ CreateCall(t) \/ CreateFails(t) \/ CreateAdd(t)
        \/ JHI_CloseSession(t) \/ CloseDone(t) \/ CloseFails(t) \/ CloseInvalid(t)
        \/ getSessionID(t) \/ SendDone(t) \/ SendDead(t) \/ RegisterFindsDead(t)
        \/ ClearBegin(t) \/ Clear(t) \/ ClearFreed(t)
    \/ ServiceLoses \/ ProcessEnds

Spec == Init /\ [][Next]_vars

-----------------------------------------------------------------------------
(* Properties.                                                             *)

\* As long as the application has not given back every handle it got from
\* JHI_Initialize, appHandle is there, whatever its threads do; and
\* every handle in the list points to a structure that is not freed and
\* names a session.
HandleWhileHeld ==
    /\ ReferenceCount >= inits
    /\ \A a \in SessionsList : mem[a] # None /\ mem[a].sid # None

\* The handles to a session, those about to enter the list included.
HandlesTo(s) ==
    {a \in SessionsList : mem[a].sid = s}
    \cup {h[t] : t \in {u \in Threads : pc[u] = "add" /\ sid[u] = s}}

\* libjhi and the service agree on who holds what: the entries of this
\* process in a session's list of owners are as many as the handles libjhi
\* has to it.  A close by one holder of a shared session, unless by force,
\* takes nothing from another, and no session is left open that nothing can close, unless
\* JHI_Deinit dropped the list, an answer was lost, or (on Android) a close
\* for a dead process failed.
OwnersMatchHandles ==
    deinits = 0 /\ lostReplies = 0 /\ (platform = "linux" \/ faults = 0) =>
        \A s \in service : owners[s] = Cardinality(HandlesTo(s))

\* A handle leaves the list only in a step that takes an entry of this
\* process off the session's owners, when none is left, when
\* JHI_Deinit drops them all, or when the process it is for is dead or
\* JHI_ClearSessions closes the sessions of that process.
HandleKept ==
    [][\A a \in SessionsList \ SessionsList' :
          \/ owners[mem[a].sid] = 0
          \/ owners'[mem[a].sid] < owners[mem[a].sid]
          \/ ReferenceCount' = 0
          \/ mem[a].pid \in deadPids
          \/ mem[a].pid \in Pids /\ \E t \in Threads : pc[t] = "clear"]_vars

=============================================================================
