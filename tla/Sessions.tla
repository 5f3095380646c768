------------------------------ MODULE Sessions ------------------------------
(***************************************************************************)
(* The session core of the JHI service: SessionsManager's table and the    *)
(* handlers jhis_create_session, jhis_close_session, jhis_txrx_raw (SAR)   *)
(* and jhis_unload.  One thread serves each request.  _jhiMutex serialises *)
(* every request except SAR, so the races are between SAR threads and the  *)
(* one other handler.  A step ends where _locker is released, where a      *)
(* session lock is awaited, or where the VM answers.                       *)
(*                                                                         *)
(* Undefined behaviour (use of a session lock or of a table node that      *)
(* another thread has freed) either goes unnoticed or leaves the thread in *)
(* "halted".                                                               *)
(***************************************************************************)
EXTENDS Naturals, FiniteSets, Functions

CONSTANTS Threads,     \* threads that serve requests
          Ids,         \* session ids (fresh uuids, never reused)
          Procs,       \* client processes
          Apps,        \* applets
          None,        \* no thread, no session
          MaxOwners,   \* MAX_SESSION_OWNERS
          VMMax,       \* sessions the VM can hold
          MaxLRU       \* bound: joins and shared creations stop past this LRU count

ASSUME SessionsAssumption == /\ None \notin Threads /\ None \notin Ids
                             /\ None \notin Procs /\ None \notin Apps /\ IsFiniteSet(Ids)
                             /\ MaxOwners \in Nat \ {0} /\ VMMax \in Nat /\ MaxLRU \in Nat

VARIABLES
    \* one request per thread: its position, the command and its applet and process,
    \* the session it works on, sessions still to look at, where jhis_close_session
    \* returns to, its result
    pc, cmd, app, proc, sid, todo, ret, rc,
    \* _sessionList: whether the record exists, its applet, flags, owners and stamp
    status, appId, flags, owners, lastUsedTime,
    sharedSessionLRUCounter,
    holder, depth,     \* the recursive sessionLock of each session
    jhiMutex,          \* owner of _jhiMutex
    \* each session as the VM and the plugin see it: not created, "open", "leaked" (open,
    \* but its creation failed), "forgotten" (open, but a refused close made the proxy
    \* drop it), "misread" (open, but the plugin told a SAR that it is dead), "dead"
    vm,
    alive              \* client processes still running

req == <<cmd, app, proc>>
thread == <<pc, req, sid, todo, ret, rc>>
info == <<appId, flags>>
table == <<status, info, owners, lastUsedTime, sharedSessionLRUCounter>>
locks == <<holder, depth>>
vars == <<thread, table, locks, jhiMutex, vm, alive>>

Codes == {"SUCCESS", "APPLET_FATAL", "INVALID_SESSION_HANDLE", "INTERNAL_ERROR",
          "MAX_SESSIONS_REACHED", "MAX_SHARED_SESSION_REACHED", "SESSIONS_EXISTS",
          "SHARED_SESSION_NOT_SUPPORTED"}

VMStates == {"none", "open", "leaked", "forgotten", "misread", "dead"}

\* The requests; flags of a creation and force of a close are part of the command.
Commands == {"create", "createShared", "close", "forceClose", "sar", "unload"}

CreatePC == {"sweep", "share", "join", "vmCreate", "evict", "victim", "evicted",
             "vmRetry", "add"}
UnloadPC == {"clearShared", "check", "unload"}
ClosePC == {"cInfo", "cOwner", "cCount", "cLock", "cWait", "cHandle", "cVM", "cFinish"}
SarPC == {"sLock", "sWait", "sVM", "sDone"}
PC == CreatePC \cup UnloadPC \cup ClosePC \cup SarPC \cup {"idle", "reply", "halted"}

NoOwners == [p \in Procs |-> 0]
Live(id) == status[id] = "live"                           \* isSessionPresent
Shared(id) == flags[id] = "shared"
Unowned(id) == owners[id] = NoOwners
getOwnersCount(id) == SumFunction(owners[id])

Init == /\ pc = [t \in Threads |-> "idle"]
        /\ cmd = [t \in Threads |-> "sar"]
        /\ app = [t \in Threads |-> None]
        /\ proc = [t \in Threads |-> None]
        /\ sid = [t \in Threads |-> None]
        /\ todo = [t \in Threads |-> {}]
        /\ ret = [t \in Threads |-> "reply"]
        /\ rc = [t \in Threads |-> "INTERNAL_ERROR"]
        /\ status = [id \in Ids |-> "unused"]
        /\ appId = [id \in Ids |-> None]
        /\ flags = [id \in Ids |-> "none"]
        /\ owners = [id \in Ids |-> NoOwners]
        /\ lastUsedTime = [id \in Ids |-> 0]
        /\ sharedSessionLRUCounter = 1
        /\ holder = [id \in Ids |-> None]
        /\ depth = [id \in Ids |-> 0]
        /\ jhiMutex = None
        /\ vm = [id \in Ids |-> "none"]
        /\ alive = Procs

-----------------------------------------------------------------------------
(* Moves of one thread. *)
Goto(t, l) == pc' = [pc EXCEPT ![t] = l]
Reply(t, code) == Goto(t, "reply") /\ rc' = [rc EXCEPT ![t] = code]

\* jhis_close_session(&id, NULL, false, ...), called inside another handler that
\* goes on at l.
CallClose(t, id, l) == /\ Goto(t, "cInfo")
                       /\ sid' = [sid EXCEPT ![t] = id]
                       /\ ret' = [ret EXCEPT ![t] = l]

Nested(t) == ret[t] # "reply"                   \* processInfo == NULL
Forced(t) == ret[t] = "reply" /\ cmd[t] = "forceClose"
RemoveFromVM(t) == ret[t] # "sDone"

\* jhis_close_session returns; only a client and the eviction look at the result.
Return(t, code) ==
    /\ Goto(t, ret[t])
    /\ ret' = [ret EXCEPT ![t] = "reply"]
    /\ rc' = [rc EXCEPT ![t] = CASE ret[t] \in {"reply", "evicted"} -> code
                                [] ret[t] = "sDone"                -> @
                                [] OTHER                           -> "INTERNAL_ERROR"]

\* updateSessionLastUsage: a shared session that lost its last owner gets the next stamp.
updateSessionLastUsage(id, own) ==
    IF Shared(id) /\ own = NoOwners
    THEN /\ lastUsedTime' = [lastUsedTime EXCEPT ![id] = sharedSessionLRUCounter]
         /\ sharedSessionLRUCounter' = sharedSessionLRUCounter + 1
    ELSE UNCHANGED <<lastUsedTime, sharedSessionLRUCounter>>

removeSessionOwner(id, p) ==
    LET left == [owners[id] EXCEPT ![p] = @ - 1]
    IN owners' = [owners EXCEPT ![id] = left] /\ updateSessionLastUsage(id, left)

-----------------------------------------------------------------------------
(* CommandDispatcher: a request arrives, _jhiMutex unless it is a SAR. *)
Start(t, c, a, p, l) ==
    /\ pc[t] = "idle"
    /\ Goto(t, l)
    /\ cmd' = [cmd EXCEPT ![t] = c]
    /\ app' = [app EXCEPT ![t] = a]
    /\ proc' = [proc EXCEPT ![t] = p]
    /\ c = "sar" \/ jhiMutex = None
    /\ jhiMutex' = IF c = "sar" THEN jhiMutex ELSE t
    /\ UNCHANGED <<ret, rc, locks, vm, alive>>

\* ClearSessionsDeadOwners, then the list that ClearAbandonedNonSharedSessions makes.
\* The sessions that lose their last owner get consecutive stamps in map order, which
\* is the arbitrary order of the uuids.
AliveOwners(id) == [p \in Procs |-> IF p \in alive THEN owners[id][p] ELSE 0]
Abandoned == {id \in Ids : Live(id) /\ Shared(id) /\ ~Unowned(id) /\ AliveOwners(id) = NoOwners}
ClearDeadOwners(t) ==
    /\ owners' = [id \in Ids |-> AliveOwners(id)]
    /\ LET n == sharedSessionLRUCounter
           m == n + Cardinality(Abandoned)
       IN /\ \E stamp \in [Abandoned -> n..(m - 1)] :
               /\ \A a, b \in Abandoned : stamp[a] = stamp[b] => a = b
               /\ lastUsedTime' = [id \in Ids |-> IF id \in Abandoned THEN stamp[id] ELSE lastUsedTime[id]]
          /\ sharedSessionLRUCounter' = m
    /\ todo' = [todo EXCEPT ![t] = {id \in Ids : Live(id) /\ ~Shared(id) /\ AliveOwners(id) = NoOwners}]
    /\ UNCHANGED <<status, info, sid>>

StartCreate(t, c, a, p) ==
    /\ p \in alive
    /\ sharedSessionLRUCounter <= MaxLRU
    /\ Start(t, c, a, p, "sweep")
    /\ ClearDeadOwners(t)
StartUnload(t, a) ==
    /\ Start(t, "unload", a, None, "sweep")
    /\ ClearDeadOwners(t)
StartClose(t, c, id, p) ==
    /\ p \in alive /\ status[id] # "unused"
    /\ Start(t, c, None, p, "cInfo")
    /\ sid' = [sid EXCEPT ![t] = id]
    /\ UNCHANGED <<todo, table>>
StartSar(t, id) ==
    /\ status[id] # "unused"
    /\ Start(t, "sar", None, None, "sLock")
    /\ sid' = [sid EXCEPT ![t] = id]
    /\ UNCHANGED <<todo, table>>

\* The answer is sent: _jhiMutex is released and the thread ends.
Finish(t) == /\ pc[t] = "reply"
             /\ Goto(t, "idle")
             /\ cmd' = [cmd EXCEPT ![t] = "sar"]
             /\ app' = [app EXCEPT ![t] = None]
             /\ proc' = [proc EXCEPT ![t] = None]
             /\ sid' = [sid EXCEPT ![t] = None]
             /\ todo' = [todo EXCEPT ![t] = {}]
             /\ rc' = [rc EXCEPT ![t] = "INTERNAL_ERROR"]
             /\ jhiMutex' = IF cmd[t] = "sar" THEN jhiMutex ELSE None
             /\ UNCHANGED <<ret, table, locks, vm, alive>>

-----------------------------------------------------------------------------
(* jhis_create_session, and the clean-up it shares with jhis_unload. *)

\* ClearAbandonedNonSharedSessions: close the listed sessions one by one.
Sweep(t) ==
    /\ pc[t] = "sweep"
    /\ \/ \E id \in todo[t] : /\ todo' = [todo EXCEPT ![t] = @ \ {id}]
                              /\ CallClose(t, id, "sweep")
       \/ /\ todo[t] = {}
          /\ Goto(t, IF cmd[t] = "unload" THEN "clearShared" ELSE "share")
          /\ UNCHANGED <<todo, sid, ret>>
    /\ UNCHANGED <<req, rc, table, locks, jhiMutex, vm, alive>>

\* getSharedSessionID
SharedSessions(a) == {id \in Ids : Live(id) /\ Shared(id) /\ appId[id] = a}
\* Mutant: the look-up for the shared session finds nothing.
Share_Missed(t) ==
    /\ pc[t] = "share"
    /\ \/ /\ cmd[t] = "createShared"
          /\ \E id \in SharedSessions(app[t]) : sid' = [sid EXCEPT ![t] = id]
          /\ Goto(t, "join")
       \/ /\ TRUE
          /\ Goto(t, "vmCreate")
          /\ UNCHANGED sid
    /\ UNCHANGED <<req, todo, ret, rc, table, locks, jhiMutex, vm, alive>>
\* On a VM of the first kind the applet's manifest may not allow shared sessions.
Share(t) ==
    /\ pc[t] = "share"
    /\ \/ /\ cmd[t] = "createShared"
          /\ \E id \in SharedSessions(app[t]) : sid' = [sid EXCEPT ![t] = id]
          /\ Goto(t, "join")
          /\ UNCHANGED rc
       \/ /\ cmd[t] # "createShared" \/ SharedSessions(app[t]) = {}
          /\ Goto(t, "vmCreate")
          /\ UNCHANGED <<sid, rc>>
       \/ /\ cmd[t] = "createShared"
          /\ Reply(t, "SHARED_SESSION_NOT_SUPPORTED")
          /\ UNCHANGED sid
    /\ UNCHANGED <<req, todo, ret, table, locks, jhiMutex, vm, alive>>

\* addSessionOwner fails when the list is full, and when the record is gone.
Join(t) ==
    /\ pc[t] = "join"
    /\ IF Live(sid[t]) /\ getOwnersCount(sid[t]) < MaxOwners
       THEN /\ owners' = [owners EXCEPT ![sid[t]][proc[t]] = @ + 1]
            /\ Reply(t, "SUCCESS")
       ELSE /\ Reply(t, "MAX_SHARED_SESSION_REACHED")
            /\ UNCHANGED owners
    /\ UNCHANGED <<req, sid, todo, ret, status, info, lastUsedTime, sharedSessionLRUCounter,
                   locks, jhiMutex, vm, alive>>

\* JHI_Plugin_CreateSession for a fresh id.  The applet may refuse the session id the
\* plugin sends it: the plugin then fails and leaves the VM session behind ("leaked").
VMSessions == {id \in Ids : vm[id] \in {"open", "leaked", "forgotten", "misread"}}
VMCreate(t) ==
    /\ pc[t] \in {"vmCreate", "vmRetry"}
    /\ \/ /\ Cardinality(VMSessions) < VMMax
          /\ \E id \in Ids :
               /\ vm[id] = "none"
               /\ \/ /\ vm' = [vm EXCEPT ![id] = "open"]
                     /\ sid' = [sid EXCEPT ![t] = id]
                     /\ Goto(t, "add")
                     /\ UNCHANGED rc
                  \/ /\ vm' = [vm EXCEPT ![id] = "leaked"]
                     /\ Reply(t, "INTERNAL_ERROR")
                     /\ UNCHANGED sid
       \/ /\ Cardinality(VMSessions) >= VMMax
          /\ IF pc[t] = "vmCreate" THEN Goto(t, "evict") /\ UNCHANGED rc
                                   ELSE Reply(t, "MAX_SESSIONS_REACHED")
          /\ UNCHANGED <<vm, sid>>
       \/ Reply(t, "INTERNAL_ERROR") /\ UNCHANGED <<vm, sid>>
    /\ UNCHANGED <<req, todo, ret, table, locks, jhiMutex, alive>>

\* TryRemoveUnusedSharedSession(true): the list of shared sessions without owners.
Unused == {id \in Ids : Live(id) /\ Shared(id) /\ Unowned(id)}
\* Mutant: sessions that have owners are listed too.
Evict_Owned(t) ==
    /\ pc[t] = "evict"
    /\ IF {id \in Ids : Live(id) /\ Shared(id)} = {} THEN Reply(t, "MAX_SESSIONS_REACHED")
                      ELSE Goto(t, "victim") /\ UNCHANGED rc
    /\ todo' = [todo EXCEPT ![t] = {id \in Ids : Live(id) /\ Shared(id)}]
    /\ UNCHANGED <<req, sid, ret, table, locks, jhiMutex, vm, alive>>
Evict(t) ==
    /\ pc[t] = "evict"
    /\ IF Unused = {} THEN Reply(t, "MAX_SESSIONS_REACHED")
                      ELSE Goto(t, "victim") /\ UNCHANGED rc
    /\ todo' = [todo EXCEPT ![t] = Unused]
    /\ UNCHANGED <<req, sid, ret, table, locks, jhiMutex, vm, alive>>
\* ... the least recently used of them, if all are still there (else UseFreed).
Victim(t) ==
    /\ pc[t] = "victim"
    /\ \A id \in todo[t] : Live(id)
    /\ \E id \in todo[t] : /\ \A other \in todo[t] : lastUsedTime[id] <= lastUsedTime[other]
                           /\ CallClose(t, id, "evicted")
    /\ todo' = [todo EXCEPT ![t] = {}]
    /\ UNCHANGED <<req, rc, table, locks, jhiMutex, vm, alive>>
Evicted(t) ==
    /\ pc[t] = "evicted"
    /\ IF rc[t] = "SUCCESS" THEN Goto(t, "vmRetry") /\ UNCHANGED rc
                            ELSE Reply(t, "MAX_SESSIONS_REACHED")
    /\ UNCHANGED <<req, sid, todo, ret, table, locks, jhiMutex, vm, alive>>

\* SessionsManager::add: a record with the caller as its only owner.  It fails only for
\* an id that is in the table already, which generateNewSessionId has ruled out, and
\* without a process, which jhis_create_session always passes.
Add(t) ==
    /\ pc[t] = "add"
    /\ status' = [status EXCEPT ![sid[t]] = "live"]
    /\ appId' = [appId EXCEPT ![sid[t]] = app[t]]
    /\ flags' = [flags EXCEPT ![sid[t]] = IF cmd[t] = "createShared" THEN "shared" ELSE "none"]
    /\ owners' = [owners EXCEPT ![sid[t]] = [NoOwners EXCEPT ![proc[t]] = 1]]
    /\ Reply(t, "SUCCESS")
    /\ UNCHANGED <<req, sid, todo, ret, lastUsedTime, sharedSessionLRUCounter, locks, jhiMutex, vm, alive>>

-----------------------------------------------------------------------------
(* jhis_unload after the clean-up. *)

AppletHasNonSharedSessions(a) == \E id \in Ids : Live(id) /\ appId[id] = a /\ ~Shared(id)
\* ClearAppletSharedSession, if the applet has only a shared session.
ClearShared(t) ==
    /\ pc[t] = "clearShared"
    /\ LET unused == SharedSessions(app[t]) \cap Unused
       IN IF ~AppletHasNonSharedSessions(app[t]) /\ unused # {}
          THEN \E id \in unused : CallClose(t, id, "check")
          ELSE Goto(t, "check") /\ UNCHANGED <<sid, ret>>
    /\ UNCHANGED <<req, todo, rc, table, locks, jhiMutex, vm, alive>>
hasLiveSessions(a) == \E id \in Ids : Live(id) /\ appId[id] = a
Check(t) ==
    /\ pc[t] = "check"
    /\ IF hasLiveSessions(app[t]) THEN Reply(t, "SESSIONS_EXISTS")
                                     ELSE Goto(t, "unload") /\ UNCHANGED rc
    /\ UNCHANGED <<req, sid, todo, ret, table, locks, jhiMutex, vm, alive>>
\* JHI_Plugin_UnloadApplet
Unload(t) ==
    /\ pc[t] = "unload"
    /\ \E code \in {"SUCCESS", "INTERNAL_ERROR"} : Reply(t, code)
    /\ UNCHANGED <<req, sid, todo, ret, table, locks, jhiMutex, vm, alive>>

-----------------------------------------------------------------------------
(* jhis_close_session *)

\* getSessionInfo
CloseInfo(t) ==
    /\ pc[t] = "cInfo"
    /\ IF Live(sid[t])
       THEN Goto(t, IF Nested(t) THEN "cLock" ELSE "cOwner") /\ UNCHANGED <<ret, rc>>
       ELSE Return(t, "INVALID_SESSION_HANDLE")
    /\ UNCHANGED <<req, sid, todo, table, locks, jhiMutex, vm, alive>>
\* isSessionOwnerValid
CloseOwner(t) ==
    /\ pc[t] = "cOwner"
    /\ IF Live(sid[t]) /\ owners[sid[t]][proc[t]] > 0
       THEN Goto(t, "cCount") /\ UNCHANGED <<ret, rc>>
       ELSE Return(t, "INTERNAL_ERROR")
    /\ UNCHANGED <<req, sid, todo, table, locks, jhiMutex, vm, alive>>
\* getOwnersCount and the decision: remove the session, or only this owner.
CloseCount(t) ==
    /\ pc[t] = "cCount"
    /\ LET id == sid[t]
       IN \/ /\ Forced(t) \/ (Live(id) /\ getOwnersCount(id) = 1 /\ ~Shared(id))
             /\ Goto(t, IF Forced(t) THEN "cHandle" ELSE "cLock")
             /\ UNCHANGED <<ret, rc, owners, lastUsedTime, sharedSessionLRUCounter>>
          \/ /\ ~Forced(t) /\ Live(id) /\ (getOwnersCount(id) # 1 \/ Shared(id))
             /\ removeSessionOwner(id, proc[t])
             /\ Return(t, "SUCCESS")
          \/ /\ ~Forced(t) /\ ~Live(id)
             /\ Return(t, "SUCCESS")
             /\ UNCHANGED <<owners, lastUsedTime, sharedSessionLRUCounter>>
    /\ UNCHANGED <<req, sid, todo, status, info, locks, jhiMutex, vm, alive>>

-----------------------------------------------------------------------------
(* The session lock.  GetSessionLock fetches the Locker under _locker, waits for it *)
(* without, and looks whether the record is still there.                            *)
AcquireLock(t, id) == /\ Live(id)
                      /\ holder[id] \in {None, t}
                      /\ holder' = [holder EXCEPT ![id] = t]
                      /\ depth' = [depth EXCEPT ![id] = @ + 1]
ReleaseSessionLock(t, id) ==
    IF Live(id) /\ holder[id] = t
    THEN /\ depth' = [depth EXCEPT ![id] = @ - 1]
         /\ holder' = [holder EXCEPT ![id] = IF depth[id] = 1 THEN None ELSE t]
    ELSE UNCHANGED locks
\* SessionsManager::remove: the record goes, and the Locker is unlocked and freed.
remove(id) == /\ status' = [status EXCEPT ![id] = "gone"]
              /\ appId' = [appId EXCEPT ![id] = None]
              /\ flags' = [flags EXCEPT ![id] = "none"]
              /\ owners' = [owners EXCEPT ![id] = NoOwners]
              /\ lastUsedTime' = [lastUsedTime EXCEPT ![id] = 0]
              /\ holder' = [holder EXCEPT ![id] = None]
              /\ depth' = [depth EXCEPT ![id] = 0]

\* What GetSessionLock's failure makes of jhis_close_session.
LockFailed(t) == Return(t, IF Forced(t) THEN rc[t] ELSE "INVALID_SESSION_HANDLE")
CloseLock(t) ==
    /\ pc[t] = "cLock"
    /\ IF Live(sid[t]) THEN Goto(t, "cWait") /\ UNCHANGED <<ret, rc>> ELSE LockFailed(t)
    /\ UNCHANGED <<req, sid, todo, table, locks, jhiMutex, vm, alive>>
CloseWait(t) ==
    /\ pc[t] = "cWait"
    /\ \/ /\ AcquireLock(t, sid[t])
          /\ Goto(t, IF Forced(t) \/ ~RemoveFromVM(t) THEN "cFinish" ELSE "cHandle")
          /\ UNCHANGED <<ret, rc>>
       \/ ~Live(sid[t]) /\ LockFailed(t) /\ UNCHANGED locks
    /\ UNCHANGED <<req, sid, todo, table, jhiMutex, vm, alive>>
\* getVMSessionHandle
CloseHandle(t) ==
    /\ pc[t] = "cHandle"
    /\ IF Live(sid[t]) THEN Goto(t, "cVM") /\ UNCHANGED <<ret, rc>> ELSE Return(t, "INTERNAL_ERROR")
    /\ UNCHANGED <<req, sid, todo, table, locks, jhiMutex, vm, alive>>
\* Mutant: a forced close does not take the session lock before the removal.
CloseVM_NoLock(t) ==
    /\ pc[t] = "cVM"
    /\ \/ /\ vm[sid[t]] \in {"open", "misread"}
          /\ \/ /\ vm' = [vm EXCEPT ![sid[t]] = "dead"]
                /\ \E code \in {"SUCCESS", "APPLET_FATAL"} : rc' = [rc EXCEPT ![t] = code]
             \/ /\ vm' = [vm EXCEPT ![sid[t]] = "forgotten"]
                /\ \E code \in {"APPLET_FATAL", "INTERNAL_ERROR"} : rc' = [rc EXCEPT ![t] = code]
       \/ /\ \/ vm[sid[t]] = "forgotten" /\ rc' = [rc EXCEPT ![t] = "INVALID_SESSION_HANDLE"]
             \/ vm[sid[t]] = "dead" /\ rc' = [rc EXCEPT ![t] = "APPLET_FATAL"]
             \/ rc' = [rc EXCEPT ![t] = "INTERNAL_ERROR"]
          /\ UNCHANGED vm
    /\ Goto(t, "cFinish")
    /\ UNCHANGED <<req, sid, todo, ret, table, locks, jhiMutex, alive>>
\* JHI_Plugin_CloseSession or JHI_Plugin_ForceCloseSession.  The session ends (closed,
\* died or killed); or the VM refuses, with a code that may or may not say "crashed",
\* and BHP_CloseTASession drops its record all the same: from then on the proxy does not
\* know the session.  A session that is dead or forgotten is reported as such, and any
\* call may fail and change nothing.  APPLET_FATAL stands for every code that the service
\* takes for the end of a session the proxy knew, INTERNAL_ERROR for every other failure.
CloseVM(t) ==
    /\ pc[t] = "cVM"
    /\ \/ /\ vm[sid[t]] \in {"open", "misread"}
          /\ \/ /\ vm' = [vm EXCEPT ![sid[t]] = "dead"]
                /\ \E code \in {"SUCCESS", "APPLET_FATAL"} : rc' = [rc EXCEPT ![t] = code]
             \/ /\ vm' = [vm EXCEPT ![sid[t]] = "forgotten"]
                /\ \E code \in {"APPLET_FATAL", "INTERNAL_ERROR"} : rc' = [rc EXCEPT ![t] = code]
       \/ /\ \/ vm[sid[t]] = "forgotten" /\ rc' = [rc EXCEPT ![t] = "INVALID_SESSION_HANDLE"]
             \/ vm[sid[t]] = "dead" /\ rc' = [rc EXCEPT ![t] = "APPLET_FATAL"]
             \/ rc' = [rc EXCEPT ![t] = "INTERNAL_ERROR"]
          /\ UNCHANGED vm
    /\ Goto(t, IF Forced(t) THEN "cLock" ELSE "cFinish")
    /\ UNCHANGED <<req, sid, todo, ret, table, locks, jhiMutex, alive>>
\* Mutant: the record is removed whatever the VM answered.
CloseFinish_AnyCode(t) ==
    /\ pc[t] = "cFinish"
    /\ LET code == IF RemoveFromVM(t) THEN rc[t] ELSE "SUCCESS"
       IN /\ IF code \in {"SUCCESS", "APPLET_FATAL", "INVALID_SESSION_HANDLE", "INTERNAL_ERROR"}
             THEN remove(sid[t])
             ELSE ReleaseSessionLock(t, sid[t]) /\ UNCHANGED <<status, info, owners, lastUsedTime>>
          /\ Return(t, code)
    /\ UNCHANGED <<req, sid, todo, sharedSessionLRUCounter, jhiMutex, vm, alive>>
\* Mutant: a failed close does not release the session lock.
CloseFinish_KeepsLock(t) ==
    /\ pc[t] = "cFinish"
    /\ LET code == IF RemoveFromVM(t) THEN rc[t] ELSE "SUCCESS"
       IN /\ IF code \in {"SUCCESS", "APPLET_FATAL", "INVALID_SESSION_HANDLE"}
             THEN remove(sid[t])
             ELSE UNCHANGED <<locks, status, info, owners, lastUsedTime>>
          /\ Return(t, code)
    /\ UNCHANGED <<req, sid, todo, sharedSessionLRUCounter, jhiMutex, vm, alive>>
\* The record goes when the VM session has ended; else only the lock is released.
CloseFinish(t) ==
    /\ pc[t] = "cFinish"
    /\ LET code == IF RemoveFromVM(t) THEN rc[t] ELSE "SUCCESS"
       IN /\ IF code \in {"SUCCESS", "APPLET_FATAL", "INVALID_SESSION_HANDLE"}
             THEN remove(sid[t])
             ELSE ReleaseSessionLock(t, sid[t]) /\ UNCHANGED <<status, info, owners, lastUsedTime>>
          /\ Return(t, code)
    /\ UNCHANGED <<req, sid, todo, sharedSessionLRUCounter, jhiMutex, vm, alive>>

-----------------------------------------------------------------------------
(* jhis_txrx_raw *)

\* getSessionInfo and the first half of GetSessionLock; both fail in the same way.
SarLock(t) ==
    /\ pc[t] = "sLock"
    /\ IF Live(sid[t]) THEN Goto(t, "sWait") /\ UNCHANGED rc
                       ELSE Reply(t, "INVALID_SESSION_HANDLE")
    /\ UNCHANGED <<req, sid, todo, ret, table, locks, jhiMutex, vm, alive>>
SarWait(t) ==
    /\ pc[t] = "sWait"
    /\ \/ AcquireLock(t, sid[t]) /\ Goto(t, "sVM") /\ UNCHANGED rc
       \/ ~Live(sid[t]) /\ Reply(t, "INVALID_SESSION_HANDLE") /\ UNCHANGED locks
    /\ UNCHANGED <<req, sid, todo, ret, table, jhiMutex, vm, alive>>
\* JHI_Plugin_SendAndRecv.  APPLET_FATAL, APPLET_TIMEOUT and INVALID_SESSION_HANDLE mean
\* a dead session, whose record is removed; the plugin also makes APPLET_FATAL of errors
\* that leave the session open.  Every other answer, here SUCCESS, which includes the
\* failures that any session can get, leaves the record alone.
SarVM(t) ==
    /\ pc[t] = "sVM"
    /\ \/ /\ rc' = [rc EXCEPT ![t] = "SUCCESS"]
          /\ Goto(t, "sDone")
          /\ UNCHANGED <<vm, sid, ret>>
       \/ /\ rc' = [rc EXCEPT ![t] = "APPLET_FATAL"]
          /\ vm' = [vm EXCEPT ![sid[t]] = IF @ = "open" THEN "misread" ELSE @]
          /\ CallClose(t, sid[t], "sDone")
    /\ UNCHANGED <<req, todo, table, locks, jhiMutex, alive>>
SarDone(t) ==
    /\ pc[t] = "sDone"
    /\ ReleaseSessionLock(t, sid[t])
    /\ Goto(t, "reply")
    /\ UNCHANGED <<req, sid, todo, ret, rc, table, jhiMutex, vm, alive>>

-----------------------------------------------------------------------------
\* Undefined behaviour: waiting for a Locker that remove() has freed; the record that
\* operator[] makes up for a vanished session, closed with a null Locker; and
\* ClearAppletSharedSession's pointer into a table node that has been erased.
UseFreed(t) ==
    /\ \/ pc[t] \in {"cWait", "sWait"} /\ ~Live(sid[t])
       \/ pc[t] = "victim" /\ \E id \in todo[t] : ~Live(id)
       \/ pc[t] \in {"cInfo", "cLock"} /\ ret[t] = "check" /\ ~Live(sid[t])
    /\ Goto(t, "halted")
    /\ UNCHANGED <<req, sid, todo, ret, rc, table, locks, jhiMutex, vm, alive>>

\* The environment: an applet crashes, a client process ends.
AppletDies(id) == /\ vm[id] \in {"open", "misread"}
                  /\ vm' = [vm EXCEPT ![id] = "dead"]
                  /\ UNCHANGED <<thread, table, locks, jhiMutex, alive>>
ProcessDies(p) == /\ p \in alive
                  /\ alive' = alive \ {p}
                  /\ UNCHANGED <<thread, table, locks, jhiMutex, vm>>

CreateStep(t) == \/ Sweep(t) \/ Share(t) \/ Join(t) \/ VMCreate(t) \/ Evict(t) \/ Victim(t)
                 \/ Evicted(t) \/ Add(t) \/ ClearShared(t) \/ Check(t) \/ Unload(t)
CloseStep(t) == \/ CloseInfo(t) \/ CloseOwner(t) \/ CloseCount(t) \/ CloseLock(t)
                \/ CloseHandle(t) \/ CloseVM(t) \/ CloseFinish(t)
SarStep(t) == SarLock(t) \/ SarVM(t) \/ SarDone(t)
Waits(t) == CloseWait(t) \/ SarWait(t)
StartStep(t) == \/ \E c \in {"create", "createShared"}, a \in Apps, p \in Procs : StartCreate(t, c, a, p)
                \/ \E a \in Apps : StartUnload(t, a)
                \/ \E c \in {"close", "forceClose"}, id \in Ids, p \in Procs : StartClose(t, c, id, p)
                \/ \E id \in Ids : StartSar(t, id)

Next == \/ \E t \in Threads : \/ StartStep(t) \/ CreateStep(t) \/ CloseStep(t) \/ SarStep(t)
                              \/ Waits(t) \/ Finish(t) \/ UseFreed(t)
        \/ \E id \in Ids : AppletDies(id)
        \/ \E p \in Procs : ProcessDies(p)

Spec == Init /\ [][Next]_vars

-----------------------------------------------------------------------------
TypeOK == /\ pc \in [Threads -> PC]
          /\ cmd \in [Threads -> Commands]
          /\ app \in [Threads -> Apps \cup {None}]
          /\ proc \in [Threads -> Procs \cup {None}]
          /\ sid \in [Threads -> Ids \cup {None}]
          /\ todo \in [Threads -> SUBSET Ids]
          /\ ret \in [Threads -> {"reply", "sweep", "evicted", "check", "sDone"}]
          /\ rc \in [Threads -> Codes]
          /\ status \in [Ids -> {"unused", "live", "gone"}]
          /\ appId \in [Ids -> Apps \cup {None}]
          /\ flags \in [Ids -> {"shared", "none"}]
          /\ owners \in [Ids -> [Procs -> Nat]]
          /\ lastUsedTime \in [Ids -> Nat]
          /\ sharedSessionLRUCounter \in Nat
          /\ holder \in [Ids -> Threads \cup {None}]
          /\ depth \in [Ids -> Nat]
          /\ jhiMutex \in Threads \cup {None}
          /\ vm \in [Ids -> VMStates]
          /\ alive \in SUBSET Procs

\* An applet has at most one shared session in the table: getSharedSessionID, the
\* VM call and add lie far apart, and only _jhiMutex keeps two creations apart.
OneSharedPerApplet == \A a \in Apps : \A i, j \in SharedSessions(a) : i = j

\* No VM session is lost silently: a session that is open in the VM has a table record,
\* or the thread that created it is about to add one, until the plugin has given it up.
\* Only two answers do that: a refused close, after which the proxy no longer knows the
\* session and the next close drops its record, and APPLET_FATAL for a live session.
\* Failed calls, a forced close next to a running SAR and the removal after a crash
\* never drop the record of an open session.
NoLostVMSession == \A id \in Ids : vm[id] = "open" =>
                      Live(id) \/ \E t \in Threads : pc[t] = "add" /\ sid[t] = id

\* A thread that is past GetSessionLock holds the lock and its record still exists:
\* nobody removes a record under a SAR or a close that holds the session lock.
Inside(t) == \/ pc[t] \in {"sVM", "cFinish"}
             \/ pc[t] \in {"cHandle", "cVM"} /\ ~Forced(t)
HolderKeepsRecord == \A t \in Threads : Inside(t) => holder[sid[t]] = t /\ Live(sid[t])

\* The clean-ups and the eviction close only sessions without owners: between the
\* listing and the removal no client can become an owner of the session.
OnlyUnownedClosed == \A t \in Threads :
    pc[t] \in ClosePC /\ ret[t] \in {"sweep", "evicted", "check"} => Unowned(sid[t])

\* JHI_Plugin_UnloadApplet is called only for an applet that has no session record.
UnloadOnlyUnused == \A t \in Threads : pc[t] = "unload" => ~hasLiveSessions(app[t])

\* The stamps of unused shared sessions are distinct and in the past, so the least
\* recently used one is well defined.
StampsDistinct == \A i, j \in Unused : /\ lastUsedTime[i] < sharedSessionLRUCounter
                                       /\ lastUsedTime[i] > 0
                                       /\ lastUsedTime[i] = lastUsedTime[j] => i = j

Abstract == INSTANCE SessionSpec WITH open <- {id \in Ids : vm[id] = "open"}

\* The handlers and the table together implement the sequential session table; a
\* session that the plugin has given up counts as ended there.
ImplementsSessionSpec == Abstract!Spec

\* No deadlock over the session locks, and none stays locked: the holder of a session
\* lock is between GetSessionLock and the release, on that very session, so it waits
\* neither for _jhiMutex nor for another session; and it has entered the lock as often
\* as it is going to leave it.  The clean-up that waits, with _jhiMutex held, for the
\* lock of a session with a running SAR therefore gets it.
Serving(t) == Inside(t) \/ pc[t] = "sDone" \/ (pc[t] \in ClosePC /\ ret[t] = "sDone")
NoHoldAndWait == \A id \in Ids : holder[id] # None =>
    LET t == holder[id]
    IN /\ Serving(t) /\ sid[t] = id /\ Live(id)
       /\ depth[id] = IF pc[t] = "cFinish" /\ ret[t] = "sDone" THEN 2 ELSE 1

-----------------------------------------------------------------------------
(* The inductive invariant behind these properties, conjunct by conjunct. *)

\* Which request a thread at each position serves, and on which session.
Closing(t, l) == pc[t] \in ClosePC /\ ret[t] = l
Position(t) ==
    /\ pc[t] = "sweep" \/ Closing(t, "sweep") => cmd[t] \in {"create", "createShared", "unload"}
    /\ pc[t] \in CreatePC \ {"sweep"} \/ Closing(t, "evicted") => cmd[t] \in {"create", "createShared"}
    /\ cmd[t] \in {"create", "createShared"} => app[t] \in Apps /\ proc[t] \in Procs
    /\ cmd[t] \in {"close", "forceClose"} => proc[t] \in Procs
    /\ pc[t] \in UnloadPC \/ Closing(t, "check") => cmd[t] = "unload"
    /\ pc[t] \in SarPC \/ Closing(t, "sDone") => cmd[t] = "sar"
    /\ Closing(t, "reply") => cmd[t] \in {"close", "forceClose"}
    /\ pc[t] \notin ClosePC \cup {"halted"} => ret[t] = "reply"
    /\ pc[t] \in ClosePC \cup SarPC => sid[t] \in Ids /\ status[sid[t]] # "unused"
    /\ pc[t] \in {"cOwner", "cCount"} => ret[t] = "reply"
    /\ pc[t] = "cCount" /\ Live(sid[t]) => owners[sid[t]][proc[t]] > 0
    /\ pc[t] = "join" => sid[t] \in Ids /\ (Live(sid[t]) => Shared(sid[t]))
    /\ pc[t] = "add" => sid[t] \in Ids /\ status[sid[t]] = "unused" /\ vm[sid[t]] \notin {"none", "leaked"}
    /\ pc[t] \in {"sweep", "victim"} \/ Closing(t, "sweep") =>
          \A id \in todo[t] : status[id] # "unused"

\* A SAR keeps the lock while it removes the record of its dead session.
LockHeld(t) == Inside(t) \/ Closing(t, "sDone") => holder[sid[t]] = t /\ Live(sid[t])

\* A thread about to remove a record was told that the VM session is over.
Ended == {"SUCCESS", "APPLET_FATAL", "INVALID_SESSION_HANDLE"}
EndKnown(t) ==
    /\ Closing(t, "sDone") => vm[sid[t]] # "open"
    /\ pc[t] = "cFinish" \/ (pc[t] \in {"cLock", "cWait"} /\ Forced(t))
         => (rc[t] \in Ended /\ RemoveFromVM(t) => vm[sid[t]] # "open")

\* While a shared session is being created the applet has no other.
NoSharedYet(t) ==
    /\ pc[t] \in {"vmCreate", "evict", "victim", "evicted", "vmRetry", "add"} \/ Closing(t, "evicted")
    /\ cmd[t] = "createShared"
    => \A id \in Ids : ~(Live(id) /\ Shared(id) /\ appId[id] = app[t])

\* The listed sessions, and the one being closed, stay without owners.
StaysUnowned(t) ==
    /\ pc[t] \in {"sweep", "victim"} \/ Closing(t, "sweep") => \A id \in todo[t] : Unowned(id)
    /\ pc[t] \in ClosePC /\ ret[t] \in {"sweep", "evicted", "check"} => Unowned(sid[t])

ThreadInv(t) == /\ Position(t) /\ LockHeld(t) /\ EndKnown(t) /\ NoSharedYet(t) /\ StaysUnowned(t)
                /\ pc[t] = "unload" => ~hasLiveSessions(app[t])

\* _jhiMutex is held by the thread that serves a request other than a SAR.
MutexHeld == \A t \in Threads : jhiMutex = t <=> pc[t] # "idle" /\ cmd[t] # "sar"

\* A session lock that is held has been entered.
DepthCounts == \A id \in Ids : holder[id] # None => depth[id] > 0

\* Sessions the VM does not know have no record.
VMKnows == \A id \in Ids : vm[id] \in {"none", "leaked"} => status[id] = "unused"

\* The inductive invariant: what each position guarantees, who holds _jhiMutex, and
\* how the table and the VM agree.
SessionsInv == /\ TypeOK /\ MutexHeld /\ DepthCounts /\ sharedSessionLRUCounter > 0
               /\ \A t \in Threads : ThreadInv(t)
               /\ VMKnows /\ NoLostVMSession /\ OneSharedPerApplet /\ StampsDistinct

-----------------------------------------------------------------------------
(* What comments and documentation say, and the code does not do. *)

\* closeSession.cpp:135, when GetSessionLock fails after a forced close: "the session
\* record has already been deleted. We can stop here and return the result".
ForcedCloseReturns == \A t \in Threads : pc[t] = "halted" => ~Forced(t)
=============================================================================
