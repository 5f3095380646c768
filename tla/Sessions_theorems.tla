--------------------------- MODULE Sessions_theorems ---------------------------
(***************************************************************************)
(* What holds of the session core for any number of threads, sessions,     *)
(* processes and applets: the remaining inductive steps, which take or     *)
(* release a lock or start or end a request, the inductive invariant, the  *)
(* properties it implies, and the refinement of the session table of       *)
(* SessionSpec.                                                            *)
(***************************************************************************)
EXTENDS Sessions_proofs, FiniteSetTheorems

\* The provers get more than their default time.
USE SMTT(25), ZenonT(25)
USE DEF Closing, CreatePC, UnloadPC, ClosePC, SarPC, Rets

\* A session lock changes hands.
LEMMA LockStep ==
  ASSUME SessionsInv, NEW t \in Threads, \A u \in Threads \ {t} : Same(u) /\ KeepsLock(u),
         LocalsOK', holder' \in [Ids -> Threads \cup {None}], depth' \in [Ids -> Nat], DepthCounts',
         UNCHANGED <<cmd, table, jhiMutex, vm, alive>>,
         pc[t] \notin {"idle", "add"}, pc'[t] # "idle", ThreadInv(t)'
  PROVE SessionsInv'
  <1>1. LocksOK /\ MutexHeld
     BY Types, Zenon DEF SessionsInv
  <1>2. LocksOK'
     BY <1>1, Zenon DEF LocksOK
  <1>3. MutexHeld'
     BY <1>1, Zenon DEF MutexHeld, Same
  <1> QED BY <1>2, <1>3, ThreadStep, Zenon

\* What taking the session lock does to the locks.
LEMMA Acquired ==
  ASSUME SessionsInv, NEW t \in Threads, sid[t] \in Ids, AcquireLock(t, sid[t]), UNCHANGED status
  PROVE /\ holder' \in [Ids -> Threads \cup {None}] /\ depth' \in [Ids -> Nat] /\ DepthCounts'
        /\ \A u \in Threads \ {t} : KeepsLock(u)
        /\ holder'[sid[t]] = t /\ Live(sid[t])
  <1>1. LocksOK /\ DepthCounts
     BY Types, Zenon DEF SessionsInv
  <1>2. holder' \in [Ids -> Threads \cup {None}] /\ depth' \in [Ids -> Nat]
     BY <1>1 DEF AcquireLock, LocksOK
  <1>3. DepthCounts'
     BY <1>1 DEF AcquireLock, DepthCounts, LocksOK
  <1>4. holder'[sid[t]] = t /\ Live(sid[t])
     BY <1>1, Zenon DEF AcquireLock, LocksOK
  <1>5. ASSUME NEW u \in Threads, u # t PROVE KeepsLock(u)
     BY <1>1, <1>5, SessionsAssumption, Zenon DEF AcquireLock, LocksOK, KeepsLock, Live
  <1> QED BY <1>2, <1>3, <1>4, <1>5, Zenon

\* What releasing it does.
LEMMA Released ==
  ASSUME SessionsInv, NEW t \in Threads, sid[t] \in Ids, ReleaseSessionLock(t, sid[t]),
         UNCHANGED status
  PROVE /\ holder' \in [Ids -> Threads \cup {None}] /\ depth' \in [Ids -> Nat] /\ DepthCounts'
        /\ \A u \in Threads \ {t} : KeepsLock(u)
  <1>1. LocksOK /\ DepthCounts
     BY Types, Zenon DEF SessionsInv
  <1>2. CASE ~(Live(sid[t]) /\ holder[sid[t]] = t)
     BY <1>1, <1>2, Zenon DEF ReleaseSessionLock, locks, LocksOK, DepthCounts, KeepsLock, Live
  <1>3. CASE Live(sid[t]) /\ holder[sid[t]] = t
     <2>1. depth[sid[t]] \in Nat /\ depth[sid[t]] > 0
        BY <1>1, <1>3, SessionsAssumption, Zenon DEF DepthCounts, LocksOK
     <2>2. /\ depth' = [depth EXCEPT ![sid[t]] = @ - 1]
           /\ holder' = [holder EXCEPT ![sid[t]] = IF depth[sid[t]] = 1 THEN None ELSE t]
        BY <1>3, Zenon DEF ReleaseSessionLock
     <2>3. holder' \in [Ids -> Threads \cup {None}] /\ depth' \in [Ids -> Nat]
        BY <1>1, <2>1, <2>2 DEF LocksOK
     <2>4. DepthCounts'
        BY <1>1, <2>1, <2>2 DEF LocksOK, DepthCounts
     <2>5. ASSUME NEW u \in Threads, u # t PROVE KeepsLock(u)
        BY <1>1, <1>3, <2>2, <2>5, Zenon DEF LocksOK, KeepsLock, Live
     <2> QED BY <2>3, <2>4, <2>5, Zenon
  <1> QED BY <1>2, <1>3, Zenon

\* Inductive step: waiting for the session lock in jhis_close_session.
LEMMA CloseWaitStep == ASSUME SessionsInv, NEW t \in Threads, CloseWait(t) PROVE SessionsInv'
  <1>0. LocalsOK /\ VMOK /\ ThreadInv(t)
     BY Types, Zenon DEF SessionsInv
  <1>1. /\ pc[t] = "cWait" /\ sid[t] \in Ids
        /\ UNCHANGED <<req, sid, todo, table, jhiMutex, vm, alive>>
     BY <1>0, Zenon DEF CloseWait, ThreadInv, Position
  <1>2. CASE ~Live(sid[t]) /\ LockFailed(t) /\ UNCHANGED locks
     <2>1. Return(t, IF Forced(t) THEN rc[t] ELSE "INVALID_SESSION_HANDLE")
        BY <1>2, Zenon DEF LockFailed
     <2> QED BY <1>0, <1>1, <1>2, <2>1, Returned, NothingShrinks, QuietStep, Zenon DEF req, Codes, LocalsOK
  <1>3. CASE AcquireLock(t, sid[t]) /\ UNCHANGED <<ret, rc>>
             /\ Goto(t, IF Forced(t) \/ ~RemoveFromVM(t) THEN "cFinish" ELSE "cHandle")
     <2>1. LocalsOK' /\ \A u \in Threads \ {t} : Same(u)
        BY <1>0, <1>1, <1>3, Zenon DEF Goto, LocalsOK, req, Same, PC
     <2>2. /\ pc'[t] = IF Forced(t) \/ ~RemoveFromVM(t) THEN "cFinish" ELSE "cHandle"
           /\ ret'[t] = ret[t] /\ rc'[t] = rc[t] /\ sid'[t] = sid[t] /\ cmd'[t] = cmd[t]
        BY <1>0, <1>1, <1>3, Zenon DEF Goto, LocalsOK, req
     <2>3. UNCHANGED status
        BY <1>1, Zenon DEF table
     <2>4. holder'[sid[t]] = t /\ Live(sid[t])
        BY <1>1, <1>3, <2>3, Acquired, Zenon
     <2>5. Position(t)'
        BY <1>0, <1>1, <2>2, Zenon DEF ThreadInv, Position, table, req
     <2>6. LockHeld(t)'
        BY <2>2, <2>3, <2>4, Zenon DEF LockHeld, Live
     <2>7. EndKnown(t)'
        BY <1>0, <1>1, <2>2, Zenon DEF ThreadInv, EndKnown, Forced, RemoveFromVM
     <2>8. NoSharedYet(t)' /\ StaysUnowned(t)'
        BY <1>0, <1>1, <2>2, Zenon DEF ThreadInv, NoSharedYet, StaysUnowned, Live, Shared, Unowned, NoOwners, table, info, req
     <2>9. ThreadInv(t)'
        BY <2>2, <2>5, <2>6, <2>7, <2>8, Zenon DEF ThreadInv
     <2> QED BY <1>1, <1>3, <2>1, <2>2, <2>3, <2>9, Acquired, LockStep, Zenon DEF req
  <1> QED BY <1>2, <1>3, Zenon DEF CloseWait

\* Inductive step: waiting for the session lock in jhis_txrx_raw.
LEMMA SarWaitStep == ASSUME SessionsInv, NEW t \in Threads, SarWait(t) PROVE SessionsInv'
  <1>0. LocalsOK /\ ThreadInv(t)
     BY Types, Zenon DEF SessionsInv
  <1>1. /\ pc[t] = "sWait" /\ sid[t] \in Ids
        /\ UNCHANGED <<req, sid, todo, ret, table, jhiMutex, vm, alive>>
     BY <1>0, Zenon DEF SarWait, ThreadInv, Position
  <1>2. CASE ~Live(sid[t]) /\ Reply(t, "INVALID_SESSION_HANDLE") /\ UNCHANGED locks
     <2>1. LocalsOK' /\ \A u \in Threads \ {t} : Same(u)
        BY <1>0, <1>1, <1>2, Zenon DEF Reply, Goto, LocalsOK, req, Same, PC, Codes
     <2>2. pc'[t] = "reply" /\ ret'[t] = ret[t]
        BY <1>0, <1>1, <1>2, Zenon DEF Reply, Goto, LocalsOK
     <2> QED BY <1>0, <1>1, <1>2, <2>1, <2>2, Replied, QuietStep, Zenon DEF req
  <1>3. CASE AcquireLock(t, sid[t]) /\ Goto(t, "sVM") /\ UNCHANGED rc
     <2>1. LocalsOK' /\ \A u \in Threads \ {t} : Same(u)
        BY <1>0, <1>1, <1>3, Zenon DEF Goto, LocalsOK, req, Same, PC
     <2>2. pc'[t] = "sVM" /\ ret'[t] = ret[t] /\ sid'[t] = sid[t]
        BY <1>0, <1>1, <1>3, Zenon DEF Goto, LocalsOK
     <2>3. UNCHANGED status
        BY <1>1, Zenon DEF table
     <2>4. holder'[sid[t]] = t /\ Live(sid[t])
        BY <1>1, <1>3, <2>3, Acquired, Zenon
     <2>5. Position(t)'
        BY <1>0, <1>1, <2>2, Zenon DEF ThreadInv, Position, table, req
     <2>6. LockHeld(t)'
        BY <2>2, <2>3, <2>4, Zenon DEF LockHeld, Live
     <2>7. EndKnown(t)' /\ NoSharedYet(t)' /\ StaysUnowned(t)'
        BY <2>2, Zenon DEF EndKnown, NoSharedYet, StaysUnowned
     <2>8. ThreadInv(t)'
        BY <2>2, <2>5, <2>6, <2>7, Zenon DEF ThreadInv
     <2> QED BY <1>1, <1>3, <2>1, <2>2, <2>3, <2>8, Acquired, LockStep, Zenon DEF req
  <1> QED BY <1>2, <1>3, Zenon DEF SarWait

\* Inductive step: releasing it after the SAR.
LEMMA SarDoneStep == ASSUME SessionsInv, NEW t \in Threads, SarDone(t) PROVE SessionsInv'
  <1>0. LocalsOK /\ ThreadInv(t)
     BY Types, Zenon DEF SessionsInv
  <1>1. /\ pc[t] = "sDone" /\ sid[t] \in Ids
        /\ UNCHANGED <<req, sid, todo, ret, rc, table, jhiMutex, vm, alive>>
     BY <1>0, Zenon DEF SarDone, ThreadInv, Position
  <1>2. LocalsOK' /\ \A u \in Threads \ {t} : Same(u)
     BY <1>0, <1>1, Zenon DEF SarDone, Goto, LocalsOK, req, Same, PC
  <1>3. pc'[t] = "reply" /\ ret'[t] = ret[t]
     BY <1>0, <1>1, Zenon DEF SarDone, Goto, LocalsOK
  <1>4. ThreadInv(t)'
     BY <1>0, <1>1, <1>3, Replied, Zenon DEF req
  <1>5. ReleaseSessionLock(t, sid[t]) /\ UNCHANGED status
     BY <1>1, Zenon DEF SarDone, table
  <1> QED BY <1>1, <1>2, <1>3, <1>4, <1>5, Released, LockStep, Zenon DEF req

\* The locals and the mutex after a request has been taken up.
LEMMA Started ==
  ASSUME SessionsInv, NEW t \in Threads, NEW c \in Commands, NEW a \in Apps \cup {None},
         NEW p \in Procs \cup {None}, NEW l \in PC \ {"idle"}, Start(t, c, a, p, l),
         sid' \in [Threads -> Ids \cup {None}], todo' \in [Threads -> SUBSET Ids],
         \A u \in Threads \ {t} : sid'[u] = sid[u] /\ todo'[u] = todo[u]
  PROVE /\ LocalsOK' /\ LocksOK' /\ DepthCounts' /\ MutexHeld'
        /\ \A u \in Threads \ {t} : Same(u)
        /\ pc[t] = "idle" /\ ret'[t] = "reply"
        /\ pc'[t] = l /\ cmd'[t] = c /\ app'[t] = a /\ proc'[t] = p
  <1>0. LocalsOK /\ LocksOK /\ DepthCounts /\ MutexHeld /\ Position(t)
     BY Types, Zenon DEF SessionsInv, ThreadInv
  <1>1. LocalsOK' /\ \A u \in Threads \ {t} : Same(u)
     BY <1>0, Zenon DEF Start, Goto, LocalsOK, Same
  <1>2. pc[t] = "idle" /\ pc'[t] = l /\ cmd'[t] = c /\ app'[t] = a /\ proc'[t] = p
     BY <1>0, Zenon DEF Start, Goto, LocalsOK
  <1>3. ret'[t] = "reply"
     BY <1>0, <1>2, Zenon DEF Start, Position
  <1>4. LocksOK' /\ DepthCounts'
     BY <1>0, Zenon DEF Start, LocksOK, DepthCounts, locks
  <1>5. MutexHeld'
     <2>1. CASE c = "sar"
        BY <1>0, <1>1, <1>2, <2>1 DEF Start, MutexHeld, Same
     <2>2. CASE c # "sar"
        <3>1. jhiMutex = None /\ jhiMutex' = t /\ None \notin Threads
           BY <2>2, SessionsAssumption, Zenon DEF Start
        <3>2. ASSUME NEW u \in Threads, u # t PROVE pc'[u] = "idle" \/ cmd'[u] = "sar"
           BY <1>0, <1>1, <3>1, <3>2, Zenon DEF MutexHeld, Same
        <3> QED BY <1>2, <2>2, <3>1, <3>2, Zenon DEF MutexHeld
     <2> QED BY <2>1, <2>2, Zenon
  <1> QED BY <1>1, <1>2, <1>3, <1>4, <1>5, Zenon

\* Inductive step: a SAR begins.
LEMMA StartSarStep ==
  ASSUME SessionsInv, NEW t \in Threads, NEW id \in Ids, StartSar(t, id)
  PROVE SessionsInv'
  <1>0. LocalsOK
     BY Types, Zenon DEF SessionsInv
  <1>1. /\ Start(t, "sar", None, None, "sLock") /\ status[id] # "unused"
        /\ sid' = [sid EXCEPT ![t] = id] /\ UNCHANGED <<todo, table, locks, vm, alive>>
     BY Zenon DEF StartSar, Start
  <1>2. /\ sid' \in [Threads -> Ids \cup {None}] /\ todo' \in [Threads -> SUBSET Ids] /\ sid'[t] = id
        /\ \A u \in Threads \ {t} : sid'[u] = sid[u] /\ todo'[u] = todo[u]
     BY <1>0, <1>1, Zenon DEF LocalsOK
  <1>3. /\ LocalsOK' /\ LocksOK' /\ DepthCounts' /\ MutexHeld'
        /\ \A u \in Threads \ {t} : Same(u)
        /\ pc[t] = "idle" /\ ret'[t] = "reply" /\ pc'[t] = "sLock" /\ cmd'[t] = "sar"
     <2>1. "sar" \in Commands /\ "sLock" \in PC \ {"idle"}
        BY Zenon DEF Commands, PC
     <2> QED BY <1>1, <1>2, <2>1, Started, ZenonT(40)
  <1>4. Position(t)'
     BY <1>1, <1>2, <1>3, Zenon DEF Position, table
  <1>5. LockHeld(t)' /\ EndKnown(t)' /\ NoSharedYet(t)' /\ StaysUnowned(t)'
     BY <1>3, Zenon DEF LockHeld, EndKnown, NoSharedYet, StaysUnowned, Inside
  <1>6. ThreadInv(t)'
     BY <1>3, <1>4, <1>5, Zenon DEF ThreadInv
  <1>7. \A u \in Threads \ {t} : KeepsLock(u)
     BY <1>1, Zenon DEF KeepsLock, Live, locks, table
  <1> QED BY <1>1, <1>3, <1>6, <1>7, ThreadStep, Zenon

\* Inductive step: a close or forced close begins.
LEMMA StartCloseStep ==
  ASSUME SessionsInv, NEW t \in Threads, NEW c \in {"close", "forceClose"}, NEW id \in Ids,
         NEW p \in Procs, StartClose(t, c, id, p)
  PROVE SessionsInv'
  <1>0. LocalsOK
     BY Types, Zenon DEF SessionsInv
  <1>1. /\ Start(t, c, None, p, "cInfo") /\ status[id] # "unused"
        /\ sid' = [sid EXCEPT ![t] = id] /\ UNCHANGED <<todo, table, locks, vm, alive>>
     BY Zenon DEF StartClose, Start
  <1>2. /\ sid' \in [Threads -> Ids \cup {None}] /\ todo' \in [Threads -> SUBSET Ids] /\ sid'[t] = id
        /\ \A u \in Threads \ {t} : sid'[u] = sid[u] /\ todo'[u] = todo[u]
     BY <1>0, <1>1, Zenon DEF LocalsOK
  <1>3. /\ LocalsOK' /\ LocksOK' /\ DepthCounts' /\ MutexHeld'
        /\ \A u \in Threads \ {t} : Same(u)
        /\ pc[t] = "idle" /\ ret'[t] = "reply" /\ pc'[t] = "cInfo" /\ cmd'[t] = c /\ proc'[t] = p
     <2>1. c \in Commands /\ "cInfo" \in PC \ {"idle"}
        BY Zenon DEF Commands, PC
     <2> QED BY <1>1, <1>2, <2>1, Started
  <1>4. Position(t)'
     BY <1>1, <1>2, <1>3, Zenon DEF Position, table
  <1>5. LockHeld(t)' /\ EndKnown(t)' /\ NoSharedYet(t)' /\ StaysUnowned(t)'
     BY <1>3, Zenon DEF LockHeld, EndKnown, NoSharedYet, StaysUnowned, Inside
  <1>6. ThreadInv(t)'
     BY <1>3, <1>4, <1>5, Zenon DEF ThreadInv
  <1>7. \A u \in Threads \ {t} : KeepsLock(u)
     BY <1>1, Zenon DEF KeepsLock, Live, locks, table
  <1> QED BY <1>1, <1>3, <1>6, <1>7, ThreadStep, Zenon

\* Inductive step: the answer is sent and _jhiMutex released.
LEMMA FinishStep == ASSUME SessionsInv, NEW t \in Threads, Finish(t) PROVE SessionsInv'
  <1>0. LocalsOK /\ LocksOK /\ DepthCounts /\ MutexHeld /\ ThreadInv(t)
     BY Types, Zenon DEF SessionsInv
  <1>1. LocalsOK' /\ \A u \in Threads \ {t} : Same(u)
     BY <1>0, Zenon DEF Finish, Goto, LocalsOK, Same, PC, Commands, Codes
  <1>2. pc[t] = "reply" /\ pc'[t] = "idle" /\ cmd'[t] = "sar" /\ ret'[t] = "reply"
     BY <1>0, Zenon DEF Finish, Goto, LocalsOK, ThreadInv, Position
  <1>3. LocksOK' /\ DepthCounts' /\ \A u \in Threads \ {t} : KeepsLock(u)
     BY <1>0, Zenon DEF Finish, LocksOK, DepthCounts, locks, KeepsLock, Live, table
  <1>4. MutexHeld'
     <2>1. CASE cmd[t] = "sar"
        BY <1>0, <1>1, <1>2, <2>1 DEF Finish, MutexHeld, Same
     <2>2. CASE cmd[t] # "sar"
        BY <1>0, <1>1, <1>2, <2>2, SessionsAssumption DEF Finish, MutexHeld, Same
     <2> QED BY <2>1, <2>2, Zenon
  <1>5. Position(t)' /\ LockHeld(t)' /\ EndKnown(t)' /\ NoSharedYet(t)' /\ StaysUnowned(t)'
     BY <1>2, Zenon DEF Position, LockHeld, EndKnown, NoSharedYet, StaysUnowned, Inside
  <1>6. ThreadInv(t)'
     BY <1>2, <1>5, Zenon DEF ThreadInv
  <1>7. UNCHANGED <<table, vm, alive>>
     BY Zenon DEF Finish
  <1> QED BY <1>1, <1>2, <1>3, <1>4, <1>6, <1>7, ThreadStep, Zenon

\* Inductive step: SessionsManager::remove or ReleaseSessionLock.
LEMMA CloseFinishStep == ASSUME SessionsInv, NEW t \in Threads, CloseFinish(t) PROVE SessionsInv'
  <1> DEFINE id == sid[t]
             code == IF RemoveFromVM(t) THEN rc[t] ELSE "SUCCESS"
  <1>0. LocalsOK /\ TableOK /\ LocksOK /\ VMOK /\ ThreadInv(t)
     BY Types, Zenon DEF SessionsInv
  <1>1. /\ pc[t] = "cFinish" /\ id \in Ids /\ holder[id] = t /\ Live(id) /\ code \in Codes
        /\ Return(t, code)
        /\ UNCHANGED <<req, sid, todo, sharedSessionLRUCounter, jhiMutex, vm, alive>>
     BY <1>0, Zenon DEF CloseFinish, ThreadInv, Position, LockHeld, Inside, LocalsOK, Codes
  <1>2. CASE code \notin Ended
     <2>1. ReleaseSessionLock(t, id) /\ UNCHANGED table
        BY <1>1, <1>2, ZenonT(40) DEF CloseFinish, Ended, table
     <2>2. Forward /\ Shrinks
        BY <1>0, <1>1, <2>1, NothingShrinks, Zenon
     <2>3. /\ LocalsOK' /\ ThreadInv(t)' /\ pc'[t] # "idle"
           /\ \A u \in Threads \ {t} : Same(u)
        BY <1>0, <1>1, <2>2, Returned, Zenon
     <2>4. UNCHANGED status
        BY <2>1, Zenon DEF table
     <2> QED BY <1>1, <2>1, <2>3, <2>4, Released, LockStep, Zenon DEF req
  <1>3. CASE code \in Ended
     <2>1. remove(id)
        BY <1>1, <1>3, Zenon DEF CloseFinish, Ended
     <2>2. /\ status'[id] = "gone" /\ owners'[id] = NoOwners
           /\ \A i \in Ids : i # id => /\ status'[i] = status[i] /\ appId'[i] = appId[i]
                                       /\ flags'[i] = flags[i] /\ owners'[i] = owners[i]
                                       /\ lastUsedTime'[i] = lastUsedTime[i]
                                       /\ holder'[i] = holder[i] /\ depth'[i] = depth[i]
           /\ holder'[id] = None
        BY <1>0, <1>1, <2>1, Zenon DEF remove, TableOK, LocksOK
     <2>3. Forward /\ Shrinks
        BY <1>0, <1>1, <2>2, ZenonT(40) DEF Forward, Shrinks, Live, Unowned
     <2>4. /\ LocalsOK' /\ ThreadInv(t)' /\ pc'[t] # "idle"
           /\ \A u \in Threads \ {t} : Same(u)
        BY <1>0, <1>1, <2>3, Returned, Zenon
     <2>5. ASSUME NEW u \in Threads, u # t PROVE ThreadInv(u)'
        <3>1. KeepsLock(u)
           BY <1>1, <2>2, <2>5, Zenon DEF KeepsLock, Live
        <3>2. \A i \in Ids : status'[i] = "live" => owners'[i] = owners[i]
           BY <2>2, Zenon
        <3>3. ThreadInv(u) /\ Same(u)
           BY <2>4, <2>5, Zenon DEF SessionsInv
        <3> QED BY <1>0, <2>3, <3>1, <3>2, <3>3, FrameAny, Zenon
     <2>6. TypeOK'
        <3>1. TableOK'
           BY <1>0, <1>1, <2>1, Zenon DEF remove, TableOK, NoOwners
        <3>2. LocksOK' /\ VMOK'
           BY <1>0, <1>1, <2>1, Zenon DEF remove, LocksOK, VMOK
        <3> QED BY <2>4, <3>1, <3>2, TypesAfter, Zenon
     <2>7. MutexHeld'
        BY <1>1, <2>4, MutexKept, Zenon DEF req
     <2>8. DepthCounts' /\ sharedSessionLRUCounter' > 0
        BY <1>1, <2>2, Zenon DEF SessionsInv, DepthCounts
     <2>9. vm[id] # "open"
        BY <1>0, <1>1, <1>3, Zenon DEF ThreadInv, EndKnown, RemoveFromVM
     <2>10. NoLostVMSession'
        <3>1. \A i \in Ids : vm'[i] = "open" => vm[i] = "open" /\ (Live(i) => status'[i] = "live")
           BY <1>1, <2>2, <2>9, Zenon DEF Live
        <3> QED BY <1>1, <2>4, <3>1, KnownStays, ZenonT(40) DEF SessionsInv
     <2>11. VMKnows'
        BY <1>1, <2>2, Zenon DEF SessionsInv, VMKnows, Live
     <2>12. OneSharedPerApplet'
        BY <2>3, StaysOneShared, Zenon DEF SessionsInv, Shrinks
     <2>13. StampsDistinct'
        BY <1>1, <2>2 DEF SessionsInv, StampsDistinct, Unused, Live, Shared, Unowned, NoOwners
     <2> QED BY <2>4, <2>5, <2>6, <2>7, <2>8, <2>10, <2>11, <2>12, <2>13, ZenonT(40) DEF SessionsInv
  <1> QED BY <1>2, <1>3, Zenon

-----------------------------------------------------------------------------
(* The invariant and what follows from it. *)
HIDE DEF Closing, CreatePC, UnloadPC, ClosePC, SarPC, Rets

\* ClearSessionsDeadOwners only takes owners away; a shared session that loses its last
\* one gets a stamp of its own, later than all others.
LEMMA ClearDeadOwnersKeeps ==
  ASSUME SessionsInv, NEW t \in Threads, ClearDeadOwners(t)
  PROVE /\ owners' \in [Ids -> [Procs -> Nat]] /\ lastUsedTime' \in [Ids -> Nat]
        /\ sharedSessionLRUCounter' \in Nat /\ sharedSessionLRUCounter' > 0
        /\ todo' \in [Threads -> SUBSET Ids] /\ \A u \in Threads \ {t} : todo'[u] = todo[u]
        /\ \A id \in todo'[t] : Live(id) /\ owners'[id] = NoOwners
        /\ StampsDistinct'
  <1> DEFINE n == sharedSessionLRUCounter
             m == n + Cardinality(Abandoned)
  <1>0. LocalsOK /\ TableOK /\ n > 0 /\ StampsDistinct
     BY Types, Zenon DEF SessionsInv
  <1>1. Cardinality(Abandoned) \in Nat
     <2>1. IsFiniteSet(Abandoned)
        BY FS_Subset, SessionsAssumption, Zenon DEF Abandoned
     <2> QED BY <2>1, FS_CardinalityType, Zenon
  <1>2. n \in Nat /\ m \in Nat /\ m >= n
     BY <1>0, <1>1 DEF TableOK
  <1>3. sharedSessionLRUCounter' = m
     BY Zenon DEF ClearDeadOwners
  <1>4. \A id \in Ids : AliveOwners(id) \in [Procs -> Nat]
     BY <1>0, Zenon DEF TableOK, AliveOwners
  <1>5. owners' \in [Ids -> [Procs -> Nat]] /\ \A id \in Ids : owners'[id] = AliveOwners(id)
     BY <1>4, Zenon DEF ClearDeadOwners
  <1>6. /\ todo' \in [Threads -> SUBSET Ids] /\ \A u \in Threads \ {t} : todo'[u] = todo[u]
        /\ \A id \in todo'[t] : id \in Ids /\ Live(id) /\ AliveOwners(id) = NoOwners
     BY <1>0, Zenon DEF ClearDeadOwners, LocalsOK
  <1>7. PICK stamp \in [Abandoned -> n..(m - 1)] :
           /\ \A a, b \in Abandoned : stamp[a] = stamp[b] => a = b
           /\ lastUsedTime' = [id \in Ids |-> IF id \in Abandoned THEN stamp[id] ELSE lastUsedTime[id]]
     BY Zenon DEF ClearDeadOwners
  <1>8. /\ \A id \in Abandoned : id \in Ids /\ lastUsedTime'[id] = stamp[id] /\ stamp[id] \in n..(m - 1)
        /\ \A id \in Ids \ Abandoned : lastUsedTime'[id] = lastUsedTime[id]
     BY <1>7, Zenon DEF Abandoned
  <1>9. lastUsedTime' \in [Ids -> Nat]
     <2>1. \A id \in Ids : (IF id \in Abandoned THEN stamp[id] ELSE lastUsedTime[id]) \in Nat
        BY <1>0, <1>2, <1>8 DEF TableOK
     <2> QED BY <1>7, <2>1, Zenon
  <1>10. \A id \in Unused' : id \in Ids /\ (id \in Unused \/ id \in Abandoned)
     BY <1>5, Zenon DEF ClearDeadOwners, Unused, Abandoned, Unowned, Live, Shared, info, NoOwners
  <1>11. \A id \in Unused : id \notin Abandoned /\ id \in Ids /\ lastUsedTime[id] \in Nat
     BY <1>0, Zenon DEF Unused, Abandoned, TableOK
  <1>12. StampsDistinct'
     <2> SUFFICES ASSUME NEW i \in Unused', NEW j \in Unused'
                  PROVE /\ lastUsedTime'[i] < m /\ lastUsedTime'[i] > 0
                        /\ lastUsedTime'[i] = lastUsedTime'[j] => i = j
        BY <1>3, Zenon DEF StampsDistinct
     <2>1. ASSUME NEW k \in Unused'
           PROVE \/ k \in Unused /\ lastUsedTime'[k] = lastUsedTime[k] /\ lastUsedTime[k] < n
                    /\ lastUsedTime[k] > 0 /\ lastUsedTime[k] \in Nat
                 \/ k \in Abandoned /\ lastUsedTime'[k] = stamp[k] /\ stamp[k] \in n..(m - 1)
        BY <1>0, <1>8, <1>10, <1>11, Zenon DEF StampsDistinct
     <2>2. \A a, b \in Unused : lastUsedTime[a] = lastUsedTime[b] => a = b
        BY <1>0, Zenon DEF StampsDistinct
     <2> HIDE DEF n, m
     <2> QED BY <1>0, <1>2, <1>7, <2>1, <2>2
  <1> QED BY <1>0, <1>2, <1>3, <1>5, <1>6, <1>9, <1>12

\* A creation or an unload begins and clears the dead owners.
LEMMA StartSweep ==
  ASSUME SessionsInv, NEW t \in Threads, NEW c \in {"create", "createShared", "unload"},
         NEW a \in Apps, NEW p \in Procs \cup {None}, p = None => c = "unload",
         Start(t, c, a, p, "sweep"), ClearDeadOwners(t)
  PROVE SessionsInv'
  <1> USE DEF Closing, CreatePC, UnloadPC, ClosePC, SarPC, Rets
  <1>0. LocalsOK /\ TableOK /\ VMOK
     BY Types, Zenon DEF SessionsInv
  <1>1. /\ UNCHANGED <<status, appId, flags, sid, locks, vm, alive>> /\ jhiMutex = None
     BY Zenon DEF Start, ClearDeadOwners, info
  <1>2. /\ LocalsOK' /\ LocksOK' /\ DepthCounts' /\ MutexHeld'
        /\ \A u \in Threads \ {t} : Same(u)
        /\ pc[t] = "idle" /\ ret'[t] = "reply"
        /\ pc'[t] = "sweep" /\ cmd'[t] = c /\ app'[t] = a /\ proc'[t] = p
     <2>1. /\ sid' \in [Threads -> Ids \cup {None}] /\ todo' \in [Threads -> SUBSET Ids]
           /\ \A u \in Threads \ {t} : sid'[u] = sid[u] /\ todo'[u] = todo[u]
        BY <1>0, <1>1, ClearDeadOwnersKeeps, Zenon DEF LocalsOK
     <2>2. c \in Commands /\ "sweep" \in PC \ {"idle"}
        BY Zenon DEF Commands, PC
     <2> QED BY <2>1, <2>2, Started
  <1>3. TypeOK'
     <2>1. TableOK' /\ VMOK'
        BY <1>0, <1>1, ClearDeadOwnersKeeps, Zenon DEF TableOK, VMOK
     <2> QED BY <1>2, <2>1, TypesAfter, Zenon
  <1>4. ThreadInv(t)'
     <2>1. \A id \in todo'[t] : Live(id) /\ owners'[id] = NoOwners
        BY ClearDeadOwnersKeeps, Zenon
     <2>2. Position(t)'
        BY <1>1, <1>2, <2>1, Zenon DEF Position, Live
     <2>3. LockHeld(t)' /\ EndKnown(t)' /\ NoSharedYet(t)'
        BY <1>2, Zenon DEF LockHeld, EndKnown, NoSharedYet, Inside
     <2>4. StaysUnowned(t)'
        BY <1>2, <2>1, ZenonT(40) DEF StaysUnowned, Unowned, NoOwners
     <2> QED BY <1>2, <2>2, <2>3, <2>4, Zenon DEF ThreadInv
  <1>5. \A u \in Threads \ {t} : ThreadInv(u)'
     <2>1. Forward /\ \A u \in Threads \ {t} : KeepsLock(u)
        BY <1>1, Zenon DEF Forward, KeepsLock, locks, Live
     <2> QED BY <1>1, <1>2, <2>1, OthersSar, Zenon
  <1>6. NoLostVMSession'
     BY <1>1, <1>2, KnownStays, Zenon DEF SessionsInv, Live
  <1>7. VMKnows'
     BY <1>1, Zenon DEF SessionsInv, VMKnows
  <1>8. OneSharedPerApplet'
     BY <1>1, StaysOneShared, Zenon DEF SessionsInv, Live
  <1> QED BY <1>2, <1>3, <1>4, <1>5, <1>6, <1>7, <1>8, ClearDeadOwnersKeeps, ZenonT(40) DEF SessionsInv

\* The invariant holds when the service starts.
LEMMA InitInv == Init => SessionsInv
  <1> SUFFICES ASSUME Init PROVE SessionsInv
     BY Zenon
  <1>1. TypeOK
     BY Zenon DEF Init, TypeOK, PC, Commands, Codes, VMStates, NoOwners
  <1>2. ASSUME NEW t \in Threads PROVE ThreadInv(t)
     <2>1. pc[t] = "idle" /\ cmd[t] = "sar" /\ ret[t] = "reply"
        BY Zenon DEF Init
     <2>2. Position(t)
        BY <2>1, Zenon DEF Position, Closing, ClosePC, CreatePC, SarPC, UnloadPC
     <2>3. LockHeld(t) /\ EndKnown(t) /\ NoSharedYet(t) /\ StaysUnowned(t)
        BY <2>1, Zenon DEF LockHeld, EndKnown, NoSharedYet, StaysUnowned, Inside, Closing, ClosePC
     <2> QED BY <2>1, <2>2, <2>3, Zenon DEF ThreadInv
  <1>3. MutexHeld
     BY SessionsAssumption, Zenon DEF Init, MutexHeld
  <1>4. DepthCounts /\ sharedSessionLRUCounter > 0 /\ VMKnows /\ NoLostVMSession
     BY DEF Init, DepthCounts, VMKnows, NoLostVMSession
  <1>5. OneSharedPerApplet /\ StampsDistinct
     BY Zenon DEF Init, OneSharedPerApplet, StampsDistinct, SharedSessions, Unused, Live
  <1> QED BY <1>1, <1>2, <1>3, <1>4, <1>5, Zenon DEF SessionsInv

\* It is kept when nothing happens.
LEMMA StutterInv == SessionsInv /\ UNCHANGED vars => SessionsInv'
  <1> SUFFICES ASSUME SessionsInv, UNCHANGED vars PROVE SessionsInv'
     BY Zenon
  <1>0. LocalsOK /\ VMOK /\ MutexHeld
     BY Types, Zenon DEF SessionsInv
  <1>1. LocalsOK' /\ VMOK' /\ MutexHeld' /\ UNCHANGED <<table, locks, jhiMutex, vm>>
     BY <1>0, Zenon DEF vars, thread, req, LocalsOK, VMOK, MutexHeld
  <1>2. GivenUp /\ \A u \in Threads \ {None} : Same(u)
     BY Zenon DEF vars, thread, req, Same, GivenUp
  <1> QED BY <1>1, <1>2, VMEnds, SessionsAssumption, Zenon

\* Every step of the service, the VM and the clients keeps the invariant.
LEMMA NextInv == SessionsInv /\ [Next]_vars => SessionsInv'
  <1> SUFFICES ASSUME SessionsInv, [Next]_vars PROVE SessionsInv'
     BY Zenon
  <1>1. CASE UNCHANGED vars
     BY <1>1, StutterInv, Zenon
  <1>2. ASSUME NEW id \in Ids, AppletDies(id) PROVE SessionsInv'
     BY <1>2, AppletDiesStep, Zenon
  <1>3. ASSUME NEW p \in Procs, ProcessDies(p) PROVE SessionsInv'
     BY <1>3, ProcessDiesStep, Zenon
  <1>4. ASSUME NEW t \in Threads, StartStep(t) PROVE SessionsInv'
     <2>1. ASSUME NEW c \in {"create", "createShared"}, NEW a \in Apps, NEW p \in Procs,
                  StartCreate(t, c, a, p)
           PROVE SessionsInv'
        <3>1. Start(t, c, a, p, "sweep") /\ ClearDeadOwners(t) /\ p # None
           BY <2>1, SessionsAssumption, Zenon DEF StartCreate
        <3> QED BY <3>1, StartSweep, Zenon
     <2>2. ASSUME NEW a \in Apps, StartUnload(t, a) PROVE SessionsInv'
        BY <2>2, StartSweep, Zenon DEF StartUnload
     <2>3. ASSUME NEW c \in {"close", "forceClose"}, NEW id \in Ids, NEW p \in Procs,
                  StartClose(t, c, id, p)
           PROVE SessionsInv'
        BY <2>3, StartCloseStep, Zenon
     <2>4. ASSUME NEW id \in Ids, StartSar(t, id) PROVE SessionsInv'
        BY <2>4, StartSarStep, Zenon
     <2> QED BY <1>4, <2>1, <2>2, <2>3, <2>4, Zenon DEF StartStep
  <1>5. ASSUME NEW t \in Threads, CreateStep(t) PROVE SessionsInv'
     BY Zenon, <1>5, SweepStep, ShareStep, JoinStep, VMCreateStep, EvictStep, VictimStep, EvictedStep,
        AddStep, ClearSharedStep, CheckStep, UnloadStep DEF CreateStep
  <1>6. ASSUME NEW t \in Threads, CloseStep(t) PROVE SessionsInv'
     BY Zenon, <1>6, CloseInfoStep, CloseOwnerStep, CloseCountStep, CloseLockStep, CloseHandleStep,
        CloseVMStep, CloseFinishStep DEF CloseStep
  <1>7. ASSUME NEW t \in Threads, SarStep(t) \/ Waits(t) PROVE SessionsInv'
     BY <1>7, SarLockStep, SarVMStep, SarDoneStep, CloseWaitStep, SarWaitStep, Zenon DEF SarStep, Waits
  <1>8. ASSUME NEW t \in Threads, Finish(t) \/ UseFreed(t) PROVE SessionsInv'
     BY <1>8, FinishStep, UseFreedStep, Zenon
  <1> QED BY <1>1, <1>2, <1>3, <1>4, <1>5, <1>6, <1>7, <1>8, Zenon DEF Next

\* The invariant of the session core: who holds _jhiMutex, what each position of each
\* handler guarantees, and how table, locks and VM agree, in every reachable state.
THEOREM SessionsInvariant == Spec => []SessionsInv
  BY InitInv, NextInv, PTL DEF Spec

\* The variables keep their types.
THEOREM TypeCorrect == Spec => []TypeOK
  <1>1. SessionsInv => TypeOK
     BY Zenon DEF SessionsInv
  <1> QED BY <1>1, SessionsInvariant, PTL

\* jhis_create_session never records two shared sessions for one applet.
THEOREM SharedIsUnique == Spec => []OneSharedPerApplet
  <1>1. SessionsInv => OneSharedPerApplet
     BY Zenon DEF SessionsInv
  <1> QED BY <1>1, SessionsInvariant, PTL

\* Neither a failed close, nor a forced close next to a SAR, nor the removal after a
\* crash drops the record of a session that is open in the VM, unless the plugin has
\* given the session up: it refused a close, or reported a live session as dead.
THEOREM VMSessionsKept == Spec => []NoLostVMSession
  <1>1. SessionsInv => NoLostVMSession
     BY Zenon DEF SessionsInv
  <1> QED BY <1>1, SessionsInvariant, PTL

\* Past GetSessionLock a thread holds the lock and its record is there.
THEOREM LockProtectsRecord == Spec => []HolderKeepsRecord
  <1>1. SessionsInv => HolderKeepsRecord
     BY Zenon DEF SessionsInv, ThreadInv, LockHeld, HolderKeepsRecord
  <1> QED BY <1>1, SessionsInvariant, PTL

\* The clean-ups and the eviction close only sessions without owners.
THEOREM OwnedSessionsStay == Spec => []OnlyUnownedClosed
  <1>1. SessionsInv => OnlyUnownedClosed
     BY Zenon DEF SessionsInv, ThreadInv, StaysUnowned, OnlyUnownedClosed
  <1> QED BY <1>1, SessionsInvariant, PTL

\* jhis_unload unloads only applets without sessions.
THEOREM UnloadIsSafe == Spec => []UnloadOnlyUnused
  <1>1. SessionsInv => UnloadOnlyUnused
     BY Zenon DEF SessionsInv, ThreadInv, UnloadOnlyUnused
  <1> QED BY <1>1, SessionsInvariant, PTL

\* The stamps that order the eviction are distinct and in the past.
THEOREM LRUIsWellDefined == Spec => []StampsDistinct
  <1>1. SessionsInv => StampsDistinct
     BY Zenon DEF SessionsInv
  <1> QED BY <1>1, SessionsInvariant, PTL

-----------------------------------------------------------------------------
(* The steps that SessionSpec sees.  All others leave its variables alone. *)
Open == {id \in Ids : vm[id] = "open"}
AbstractStep == Abstract!Next \/ UNCHANGED <<status, appId, flags, owners, Open>>

\* addSessionOwner is a Join of SessionSpec, or fails without effect.
LEMMA JoinRefines == ASSUME SessionsInv, NEW t \in Threads, Join(t) PROVE AbstractStep
  <1>1. /\ sid[t] \in Ids /\ proc[t] \in Procs /\ (Live(sid[t]) => Shared(sid[t]))
        /\ UNCHANGED <<status, appId, flags, vm>>
     BY Zenon DEF Join, SessionsInv, ThreadInv, Position, info, CreatePC
  <1>2. CASE Live(sid[t]) /\ getOwnersCount(sid[t]) < MaxOwners
     <2>1. Abstract!Join(sid[t], proc[t])
        BY <1>1, <1>2, Zenon DEF Abstract!Join, Join, Live, Shared, getOwnersCount, SumFunction,
                          SumFunctionOnSet, FoldFunctionOnSet, MapThenFoldSet, Abstract!SumFunction,
                          Abstract!SumFunctionOnSet, Abstract!FoldFunctionOnSet, Abstract!MapThenFoldSet
     <2> QED BY <1>1, <2>1, ZenonT(40) DEF Abstract!Next, AbstractStep
  <1>3. CASE ~(Live(sid[t]) /\ getOwnersCount(sid[t]) < MaxOwners)
     BY <1>1, <1>3, Zenon DEF Join, AbstractStep, Open
  <1> QED BY <1>2, <1>3, Zenon

\* SessionsManager::add is a Create: no other shared session of the applet exists.
LEMMA AddRefines == ASSUME SessionsInv, NEW t \in Threads, Add(t) PROVE AbstractStep
  <1> DEFINE kind == IF cmd[t] = "createShared" THEN "shared" ELSE "none"
  <1>1. /\ sid[t] \in Ids /\ proc[t] \in Procs /\ app[t] \in Apps /\ status[sid[t]] = "unused"
        /\ kind \in {"shared", "none"} /\ UNCHANGED vm
     BY Zenon DEF Add, SessionsInv, ThreadInv, Position, CreatePC
  <1>2. kind = "shared" =>
           \A other \in Ids : ~(status[other] = "live" /\ appId[other] = app[t] /\ flags[other] = "shared")
     BY Zenon DEF Add, SessionsInv, ThreadInv, NoSharedYet, Live, Shared
  <1>3. Abstract!Create(sid[t], app[t], kind, proc[t])
     BY <1>1, <1>2, Zenon DEF Add, Abstract!Create, NoOwners, Abstract!NoOwners
  <1> QED BY <1>1, <1>3, Zenon DEF Abstract!Next, AbstractStep

\* removeSessionOwner is a Leave.
LEMMA CountRefines == ASSUME SessionsInv, NEW t \in Threads, CloseCount(t) PROVE AbstractStep
  <1>1. /\ sid[t] \in Ids /\ proc[t] \in Procs /\ UNCHANGED <<status, appId, flags, vm>>
        /\ Live(sid[t]) => owners[sid[t]][proc[t]] > 0
     BY Zenon DEF CloseCount, SessionsInv, ThreadInv, Position, info, ClosePC, Closing
  <1>2. CASE Live(sid[t]) /\ removeSessionOwner(sid[t], proc[t])
     <2>1. Abstract!Leave(sid[t], proc[t])
        BY <1>1, <1>2, Zenon DEF Abstract!Leave, removeSessionOwner, Live
     <2> QED BY <1>1, <2>1, Zenon DEF Abstract!Next, AbstractStep
  <1>3. CASE UNCHANGED owners
     BY <1>1, <1>3, Zenon DEF AbstractStep, Open
  <1> QED BY <1>2, <1>3, ZenonT(40) DEF CloseCount

\* SessionsManager::remove is an End: the VM session has ended.
LEMMA FinishRefines == ASSUME SessionsInv, NEW t \in Threads, CloseFinish(t) PROVE AbstractStep
  <1> DEFINE code == IF RemoveFromVM(t) THEN rc[t] ELSE "SUCCESS"
  <1>1. sid[t] \in Ids /\ Live(sid[t]) /\ UNCHANGED vm /\ pc[t] = "cFinish"
     BY Zenon DEF CloseFinish, SessionsInv, ThreadInv, Position, LockHeld, Inside, ClosePC
  <1>2. CASE code \in Ended
     <2>1. vm[sid[t]] # "open"
        BY <1>1, <1>2, Zenon DEF SessionsInv, ThreadInv, EndKnown, RemoveFromVM, Closing, ClosePC
     <2>2. remove(sid[t])
        BY <1>2, ZenonT(40) DEF CloseFinish, Ended
     <2>3. Abstract!End(sid[t])
        BY <1>1, <2>1, <2>2, Zenon DEF Abstract!End, remove, Live, NoOwners, Abstract!NoOwners
     <2> QED BY <1>1, <2>3, ZenonT(40) DEF Abstract!Next, AbstractStep
  <1>3. CASE code \notin Ended
     BY <1>1, <1>3, Zenon DEF CloseFinish, Ended, AbstractStep, Open, info
  <1> QED BY <1>2, <1>3, Zenon

\* ClearSessionsDeadOwners is a Forget of the processes that have ended.
LEMMA ClearRefines ==
  ASSUME NEW t \in Threads, ClearDeadOwners(t), UNCHANGED vm
  PROVE AbstractStep
  <1>1. Abstract!Forget(Procs \ alive)
     BY Zenon DEF Abstract!Forget, ClearDeadOwners, AliveOwners, info
  <1> QED BY <1>1, Zenon DEF Abstract!Next, AbstractStep

\* JHI_Plugin_CreateSession is a VMOpen, or is invisible.
LEMMA VMCreateRefines == ASSUME SessionsInv, NEW t \in Threads, VMCreate(t) PROVE AbstractStep
  <1>1. UNCHANGED <<status, appId, flags, owners>> /\ VMOK
     BY Types, Zenon DEF VMCreate, table, info, SessionsInv
  <1>2. ASSUME NEW id \in Ids, vm[id] = "none", vm' = [vm EXCEPT ![id] = "open"]
        PROVE AbstractStep
     <2>1. status[id] = "unused" /\ Open' = Open \cup {id}
        BY <1>1, <1>2, Zenon DEF SessionsInv, VMKnows, Open, VMOK
     <2>2. Abstract!VMOpen(id)
        BY <1>1, <2>1, Zenon DEF Abstract!VMOpen, Open
     <2> QED BY <2>2, Zenon DEF Abstract!Next, AbstractStep
  <1>3. ASSUME NEW id \in Ids, vm[id] = "none", vm' = [vm EXCEPT ![id] = "leaked"]
        PROVE AbstractStep
     BY <1>1, <1>3, Zenon DEF AbstractStep, Open, VMOK
  <1>4. CASE UNCHANGED vm
     BY <1>1, <1>4, Zenon DEF AbstractStep, Open
  <1> QED BY <1>2, <1>3, <1>4, Zenon DEF VMCreate

\* A VM session that is closed, killed, crashes or is given up is a VMEnd.
LEMMA VMEndRefines ==
  ASSUME SessionsInv, NEW id \in Ids, NEW v, v # "open", UNCHANGED table,
         vm' = [vm EXCEPT ![id] = v]
  PROVE AbstractStep
  <1>1. UNCHANGED <<status, appId, flags, owners>> /\ VMOK
     BY Types, Zenon DEF table, info, SessionsInv
  <1>2. Open' = Open \ {id}
     BY <1>1, Zenon DEF Open, VMOK
  <1>3. Abstract!VMEnd(id)
     BY <1>1, <1>2, Zenon DEF Abstract!VMEnd, Open
  <1> QED BY <1>3, Zenon DEF Abstract!Next, AbstractStep

\* A step that leaves table and VM alone is invisible.
LEMMA QuietRefines == ASSUME UNCHANGED <<table, vm>> PROVE AbstractStep
  BY Zenon DEF AbstractStep, Open, table, info

\* A SAR whose answer gives up an open session is a VMEnd; any other is invisible.
LEMMA SarVMRefines == ASSUME SessionsInv, NEW t \in Threads, SarVM(t) PROVE AbstractStep
  <1>1. sid[t] \in Ids /\ UNCHANGED table /\ VMOK
     BY Types, Zenon DEF SarVM, SessionsInv, ThreadInv, Position, SarPC
  <1> DEFINE v == IF vm[sid[t]] = "open" THEN "misread" ELSE vm[sid[t]]
  <1>2. UNCHANGED vm \/ vm' = [vm EXCEPT ![sid[t]] = v]
     BY Zenon DEF SarVM
  <1>3. v # "open"
     BY Zenon
  <1> HIDE DEF v
  <1> QED BY <1>1, <1>2, <1>3, QuietRefines, VMEndRefines, Zenon

\* Every step of the core is a step of SessionSpec or is invisible to it.
LEMMA NextRefines == SessionsInv /\ [Next]_vars => AbstractStep
  <1> SUFFICES ASSUME SessionsInv, [Next]_vars PROVE AbstractStep
     BY Zenon
  <1>1. CASE UNCHANGED vars
     BY <1>1, QuietRefines, Zenon DEF vars
  <1>2. ASSUME NEW id \in Ids, AppletDies(id) PROVE AbstractStep
     <2>1. UNCHANGED table /\ vm' = [vm EXCEPT ![id] = "dead"] /\ "dead" # "open"
        BY <1>2, Zenon DEF AppletDies
     <2> QED BY <2>1, VMEndRefines, Zenon
  <1>3. ASSUME NEW p \in Procs, ProcessDies(p) PROVE AbstractStep
     BY <1>3, QuietRefines, Zenon DEF ProcessDies
  <1>4. ASSUME NEW t \in Threads, StartStep(t) PROVE AbstractStep
     <2>1. ASSUME NEW c, NEW a, NEW p, StartCreate(t, c, a, p) \/ StartUnload(t, a)
           PROVE AbstractStep
        BY <2>1, ClearRefines, Zenon DEF StartCreate, StartUnload, Start
     <2>2. ASSUME NEW c, NEW id, NEW p, StartClose(t, c, id, p) \/ StartSar(t, id)
           PROVE AbstractStep
        BY <2>2, QuietRefines, Zenon DEF StartClose, StartSar, Start
     <2> QED BY <1>4, <2>1, <2>2, Zenon DEF StartStep
  <1>5. ASSUME NEW t \in Threads, CreateStep(t) PROVE AbstractStep
     <2>1. CASE \/ Sweep(t) \/ Share(t) \/ Evict(t) \/ Victim(t) \/ Evicted(t) \/ ClearShared(t)
                \/ Check(t) \/ Unload(t)
        BY <2>1, QuietRefines, Zenon DEF Sweep, Share, Evict, Victim, Evicted, ClearShared, Check, Unload
     <2> QED BY <1>5, <2>1, JoinRefines, VMCreateRefines, AddRefines, Zenon DEF CreateStep
  <1>6. ASSUME NEW t \in Threads, CloseStep(t) PROVE AbstractStep
     <2>1. CASE CloseInfo(t) \/ CloseOwner(t) \/ CloseLock(t) \/ CloseHandle(t)
        BY <2>1, QuietRefines, Zenon DEF CloseInfo, CloseOwner, CloseLock, CloseHandle
     <2>2. CASE CloseVM(t)
        <3>1. sid[t] \in Ids
           BY <2>2, ZenonT(40) DEF CloseVM, SessionsInv, ThreadInv, Position, ClosePC
        <3>2. UNCHANGED table /\ (UNCHANGED vm \/ \E v \in {"dead", "forgotten"} : vm' = [vm EXCEPT ![sid[t]] = v])
           BY <2>2, Zenon DEF CloseVM
        <3>3. \A v \in {"dead", "forgotten"} : v # "open"
           BY Zenon
        <3> QED BY <3>1, <3>2, <3>3, QuietRefines, VMEndRefines, Zenon
     <2> QED BY <1>6, <2>1, <2>2, CountRefines, FinishRefines, Zenon DEF CloseStep
  <1>7. ASSUME NEW t \in Threads, SarStep(t) \/ Waits(t) \/ Finish(t) \/ UseFreed(t)
        PROVE AbstractStep
     <2>1. CASE SarVM(t)
        BY <2>1, SarVMRefines, Zenon
     <2>2. CASE SarLock(t) \/ SarDone(t) \/ Waits(t) \/ Finish(t) \/ UseFreed(t)
        BY <2>2, QuietRefines, Zenon DEF Waits, SarLock, SarDone, CloseWait, SarWait, Finish, UseFreed
     <2> QED BY <1>7, <2>1, <2>2, Zenon DEF SarStep
  <1> QED BY <1>1, <1>2, <1>3, <1>4, <1>5, <1>6, <1>7, Zenon DEF Next

\* The handlers, with their locks and races, implement the sequential session table.
THEOREM Refinement == Spec => ImplementsSessionSpec
  <1>1. Init => Abstract!Init
     BY DEF Init, Abstract!Init, NoOwners, Abstract!NoOwners
  <1>2. SessionsInv /\ [Next]_vars => [Abstract!Next]_Abstract!vars
     BY NextRefines, Zenon DEF AbstractStep, Abstract!vars, Open
  <1> QED BY <1>1, <1>2, SessionsInvariant, PTL DEF Spec, ImplementsSessionSpec, Abstract!Spec
-----------------------------------------------------------------------------
(* The session locks: who holds one is at work and waits for nothing. *)

Twice(t) == pc[t] = "cFinish" /\ ret[t] = "sDone"
\* The inductive form: a free lock has depth zero, and the close that a SAR calls never
\* goes to the VM.
HoldInv == /\ NoHoldAndWait
           /\ \A id \in Ids : holder[id] = None => depth[id] = 0
           /\ \A t \in Threads : pc[t] \in {"cHandle", "cVM"} => ret[t] # "sDone"
Still(u) == pc'[u] = pc[u] /\ ret'[u] = ret[u] /\ sid'[u] = sid[u] /\ cmd'[u] = cmd[u]
HoldsNone(t) == \A id \in Ids : holder[id] # t

\* A thread that is not serving holds no session lock, one that serves holds no other.
LEMMA OnlyOwn ==
  ASSUME HoldInv, NEW t \in Threads
  PROVE /\ ~Serving(t) => HoldsNone(t)
        /\ \A id \in Ids : id # sid[t] => holder[id] # t
  <1>1. ASSUME NEW id \in Ids, holder[id] = t PROVE Serving(t) /\ sid[t] = id
     BY <1>1, SessionsAssumption, Zenon DEF HoldInv, NoHoldAndWait
  <1> QED BY <1>1, Zenon DEF HoldsNone

\* What a thread knows of a lock that it holds.
LEMMA OwnLock ==
  ASSUME HoldInv, NEW t \in Threads, NEW id \in Ids, holder[id] = t
  PROVE Serving(t) /\ sid[t] = id /\ Live(id) /\ depth[id] = IF Twice(t) THEN 2 ELSE 1
  <1>1. holder[id] # None
     BY SessionsAssumption, Zenon
  <1> QED BY <1>1, Zenon DEF HoldInv, NoHoldAndWait, Twice

\* A thread that stands still goes on serving.
LEMMA StillServing ==
  ASSUME NEW u, Still(u), Serving(u)
  PROVE Serving(u)' /\ sid'[u] = sid[u] /\ (Twice(u)' <=> Twice(u))
  <1>1. Serving(u)'
     BY Zenon DEF Still, Serving, Inside, Forced
  <1> QED BY <1>1, Zenon DEF Still, Twice

\* NoHoldAndWait after a step, thread by thread.
LEMMA HoldersServe ==
  ASSUME \A id \in Ids : holder'[id] \in Threads \cup {None},
         \A id \in Ids, u \in Threads : holder'[id] = u =>
            /\ Serving(u)' /\ sid'[u] = id /\ status'[id] = "live"
            /\ depth'[id] = IF Twice(u)' THEN 2 ELSE 1
  PROVE NoHoldAndWait'
  <1>1. ASSUME NEW id \in Ids, NEW u \in Threads, holder'[id] = u
        PROVE (LET v == holder[id]
               IN /\ Serving(v) /\ sid[v] = id /\ Live(id)
                  /\ depth[id] = IF pc[v] = "cFinish" /\ ret[v] = "sDone" THEN 2 ELSE 1)'
     BY <1>1, Zenon DEF Serving, Inside, Forced, Twice, Live
  <1> QED BY <1>1, Zenon DEF NoHoldAndWait

\* A step of t that uses no lock: a serving thread goes on serving its session.
LEMMA HoldQuiet ==
  ASSUME HoldInv, NEW t \in Threads, \A u \in Threads \ {t} : Still(u), UNCHANGED locks, LocksOK,
         \A id \in Ids : Live(id) => status'[id] = "live",
         ~HoldsNone(t) => Serving(t)' /\ sid'[t] = sid[t] /\ ~Twice(t) /\ ~Twice(t)',
         pc'[t] \in {"cHandle", "cVM"} => ret'[t] # "sDone"
  PROVE HoldInv'
  <1>1. ASSUME NEW id \in Ids, NEW u \in Threads, holder'[id] = u
        PROVE /\ Serving(u)' /\ sid'[u] = id /\ status'[id] = "live"
              /\ depth'[id] = IF Twice(u)' THEN 2 ELSE 1
     <2>1. holder[id] = u /\ depth'[id] = depth[id] /\ u # None
        BY <1>1, SessionsAssumption, Zenon DEF locks
     <2>2. Serving(u) /\ sid[u] = id /\ status'[id] = "live" /\ depth[id] = IF Twice(u) THEN 2 ELSE 1
        BY <2>1, Zenon DEF HoldInv, NoHoldAndWait, Twice
     <2>3. CASE u = t
        BY <2>1, <2>2, <2>3, Zenon DEF HoldsNone
     <2>4. CASE u # t
        <3>1. Serving(u)' /\ sid'[u] = id /\ (Twice(u)' <=> Twice(u))
           BY <2>2, <2>4, StillServing, Zenon
        <3> QED BY <2>1, <2>2, <3>1, Zenon
     <2> QED BY <2>3, <2>4, Zenon
  <1>2. NoHoldAndWait'
     BY <1>1, HoldersServe, Zenon DEF LocksOK, locks
  <1>3. \A id \in Ids : holder'[id] = None => depth'[id] = 0
     BY Zenon DEF HoldInv, locks
  <1>4. \A u \in Threads : pc'[u] \in {"cHandle", "cVM"} => ret'[u] # "sDone"
     BY Zenon DEF HoldInv, Still
  <1> QED BY <1>2, <1>3, <1>4, Zenon DEF HoldInv

\* A step of t that takes or leaves the lock of its session.
LEMMA HoldLock ==
  ASSUME HoldInv, NEW t \in Threads, \A u \in Threads \ {t} : Still(u),
         LocksOK', NEW s \in Ids, holder[s] \in {None, t}, \A id \in Ids \ {s} : holder[id] # t,
         \A id \in Ids \ {s} : /\ holder'[id] = holder[id] /\ depth'[id] = depth[id]
                               /\ status'[id] = status[id],
         \/ holder'[s] = None /\ depth'[s] = 0
         \/ /\ holder'[s] = t /\ Serving(t)' /\ sid'[t] = s /\ status'[s] = "live"
            /\ depth'[s] = IF Twice(t)' THEN 2 ELSE 1,
         pc'[t] \in {"cHandle", "cVM"} => ret'[t] # "sDone"
  PROVE HoldInv'
  <1>1. ASSUME NEW id \in Ids, NEW u \in Threads, holder'[id] = u
        PROVE /\ Serving(u)' /\ sid'[u] = id /\ status'[id] = "live"
              /\ depth'[id] = IF Twice(u)' THEN 2 ELSE 1
     <2>1. CASE id = s
        BY <1>1, <2>1, SessionsAssumption, Zenon
     <2>2. CASE id # s
        <3>1. u \in Threads \ {t} /\ holder[id] = u /\ depth'[id] = depth[id] /\ status'[id] = status[id]
           BY <1>1, <2>2, Zenon
        <3>2. Serving(u) /\ sid[u] = id /\ status[id] = "live" /\ depth[id] = IF Twice(u) THEN 2 ELSE 1
           BY <3>1, SessionsAssumption, Zenon DEF HoldInv, NoHoldAndWait, Twice, Live
        <3>3. Serving(u)' /\ sid'[u] = id /\ (Twice(u)' <=> Twice(u))
           BY <3>1, <3>2, StillServing, Zenon
        <3> QED BY <3>1, <3>2, <3>3, Zenon
     <2> QED BY <2>1, <2>2, Zenon
  <1>2. NoHoldAndWait'
     BY <1>1, HoldersServe, Zenon DEF LocksOK
  <1>3. \A id \in Ids : holder'[id] = None => depth'[id] = 0
     BY SessionsAssumption, Zenon DEF HoldInv
  <1>4. \A u \in Threads : pc'[u] \in {"cHandle", "cVM"} => ret'[u] # "sDone"
     BY Zenon DEF HoldInv, Still
  <1> QED BY <1>2, <1>3, <1>4, Zenon DEF HoldInv

\* Steps of a thread that is not serving, and of the environment.
LEMMA HoldOther ==
  ASSUME SessionsInv, HoldInv, NEW t \in Threads, \A u \in Threads \ {t} : Still(u), UNCHANGED locks,
         \A id \in Ids : Live(id) => status'[id] = "live", ~Serving(t),
         pc'[t] \in {"cHandle", "cVM"} => ret'[t] # "sDone"
  PROVE HoldInv'
  <1>1. LocksOK /\ HoldsNone(t)
     BY Types, OnlyOwn, Zenon DEF SessionsInv
  <1> QED BY <1>1, HoldQuiet, Zenon

\* Requests arrive and are answered, and the handlers before and after a close.
LEMMA HoldStart == ASSUME SessionsInv, HoldInv, NEW t \in Threads, StartStep(t) PROVE HoldInv'
  <1>0. LocalsOK /\ TableOK
     BY Types, Zenon DEF SessionsInv
  <1>1. /\ pc[t] = "idle" /\ UNCHANGED <<locks, ret>>
        /\ \E l \in {"sweep", "cInfo", "sLock"} : Goto(t, l)
        /\ \E c : cmd' = [cmd EXCEPT ![t] = c]
     BY Zenon DEF StartStep, StartCreate, StartUnload, StartClose, StartSar, Start
  <1>2. UNCHANGED status /\ \A u \in Threads \ {t} : sid'[u] = sid[u]
     BY <1>0, Zenon DEF StartStep, StartCreate, StartUnload, StartClose, StartSar, ClearDeadOwners, table, LocalsOK
  <1>3. pc'[t] \in {"sweep", "cInfo", "sLock"} /\ \A u \in Threads \ {t} : Still(u)
     BY <1>0, <1>1, <1>2, Zenon DEF Goto, LocalsOK, Still
  <1>4. ~Serving(t) /\ pc'[t] \notin {"cHandle", "cVM"}
     BY <1>1, <1>3, Zenon DEF Serving, Inside, ClosePC
  <1> QED BY <1>1, <1>2, <1>3, <1>4, HoldOther, Zenon DEF Live
LEMMA HoldCreate == ASSUME SessionsInv, HoldInv, NEW t \in Threads, CreateStep(t) PROVE HoldInv'
  <1>0. LocalsOK /\ TableOK /\ ThreadInv(t)
     BY Types, Zenon DEF SessionsInv
  <1>1. pc[t] \in CreatePC \cup UnloadPC /\ UNCHANGED locks
     BY Zenon DEF CreateStep, Sweep, Share, Join, VMCreate, Evict, Victim, Evicted, Add, ClearShared, Check,
                  Unload, CreatePC, UnloadPC
  <1>2. \A id \in Ids : Live(id) => status'[id] = "live"
     <2>1. CASE Add(t)
        BY <1>0, <2>1, Zenon DEF Add, Live, TableOK
     <2>2. CASE UNCHANGED status
        BY <2>2, Zenon DEF Live
     <2> QED BY <2>1, <2>2, Zenon DEF CreateStep, Sweep, Share, Join, VMCreate, Evict, Victim, Evicted,
                  ClearShared, Check, Unload, table
  <1>3. \A u \in Threads \ {t} : pc'[u] = pc[u] /\ cmd'[u] = cmd[u]
     BY <1>0, Zenon DEF CreateStep, Sweep, Share, Join, VMCreate, Evict, Victim, Evicted, Add, ClearShared, Check,
                  Unload, CallClose, Reply, Goto, LocalsOK, req
  <1>4. \A u \in Threads \ {t} : sid'[u] = sid[u] /\ ret'[u] = ret[u]
     BY <1>0, Zenon DEF CreateStep, Sweep, Share, Join, VMCreate, Evict, Victim, Evicted, Add, ClearShared, Check,
                  Unload, CallClose, LocalsOK
  <1>5. ~Serving(t)
     BY <1>1, Zenon DEF Serving, Inside, ClosePC, CreatePC, UnloadPC
  <1>6. pc'[t] \notin {"cHandle", "cVM"}
     BY <1>0, Zenon DEF CreateStep, Sweep, Share, Join, VMCreate, Evict, Victim, Evicted, Add, ClearShared, Check,
                  Unload, CallClose, Reply, Goto, LocalsOK
  <1>7. \A u \in Threads \ {t} : Still(u)
     BY <1>3, <1>4, Zenon DEF Still
  <1> QED BY <1>1, <1>2, <1>5, <1>6, <1>7, HoldOther, Zenon
LEMMA HoldEnd ==
  ASSUME SessionsInv, HoldInv, NEW t \in Threads, Finish(t) \/ SarLock(t) \/ UseFreed(t)
  PROVE HoldInv'
  <1>0. LocalsOK /\ ThreadInv(t)
     BY Types, Zenon DEF SessionsInv
  <1>1. pc'[t] \in {"idle", "sWait", "reply", "halted"} /\ UNCHANGED <<locks, status>>
     BY <1>0, Zenon DEF Finish, SarLock, UseFreed, Reply, Goto, LocalsOK, table
  <1>2. \A u \in Threads \ {t} : Still(u)
     BY <1>0, Zenon DEF Finish, SarLock, UseFreed, Reply, Goto, LocalsOK, req, Still
  <1>3. ~Serving(t)
     <2>1. CASE Finish(t) \/ SarLock(t)
        BY <2>1, Zenon DEF Finish, SarLock, Serving, Inside, ClosePC
     <2>2. CASE UseFreed(t)
        <3>1. /\ pc[t] \in {"cWait", "sWait", "victim", "cInfo", "cLock"}
              /\ pc[t] \in ClosePC => ~Live(sid[t])
           BY <2>2, Zenon DEF UseFreed, ClosePC
        <3>2. ~(pc[t] \in ClosePC /\ ret[t] = "sDone")
           BY <1>0, <3>1, Zenon DEF ThreadInv, LockHeld, Closing
        <3> QED BY <3>1, <3>2, Zenon DEF Serving, Inside
     <2> QED BY <2>1, <2>2, Zenon
  <1>4. pc'[t] \notin {"cHandle", "cVM"}
     BY <1>1, Zenon
  <1> QED BY <1>1, <1>2, <1>3, <1>4, HoldOther, Zenon DEF Live

\* The steps of jhis_close_session and of a SAR that use no lock.
LEMMA HoldClose ==
  ASSUME SessionsInv, HoldInv, NEW t \in Threads,
         CloseInfo(t) \/ CloseOwner(t) \/ CloseCount(t) \/ CloseLock(t)
  PROVE HoldInv'
  <1>0. LocalsOK /\ LocksOK /\ ThreadInv(t)
     BY Types, Zenon DEF SessionsInv
  <1>1. pc[t] \in {"cInfo", "cOwner", "cCount", "cLock"} /\ UNCHANGED <<locks, status, cmd, sid>>
     BY Zenon DEF CloseInfo, CloseOwner, CloseCount, CloseLock, table, req
  <1>2. \A u \in Threads \ {t} : Still(u)
     <2>1. \A u \in Threads \ {t} : pc'[u] = pc[u] /\ ret'[u] = ret[u]
        BY <1>0, Zenon DEF CloseInfo, CloseOwner, CloseCount, CloseLock, LockFailed, Return, Goto, LocalsOK
     <2> QED BY <1>1, <2>1, Zenon DEF Still
  <1>3. Serving(t) => ret[t] = "sDone" /\ Live(sid[t]) /\ pc[t] \in {"cInfo", "cLock"}
     BY <1>0, <1>1, Zenon DEF Serving, Inside, ThreadInv, LockHeld, Position, Closing
  <1>4. Serving(t) => pc'[t] \in {"cLock", "cWait"} /\ ret'[t] = "sDone"
     BY <1>0, <1>1, <1>3, Zenon DEF CloseInfo, CloseOwner, CloseCount, CloseLock, Nested, Goto, LocalsOK
  <1>5. Serving(t) => Serving(t)' /\ sid'[t] = sid[t] /\ ~Twice(t) /\ ~Twice(t)'
     BY <1>1, <1>4, Zenon DEF Serving, Twice, ClosePC
  <1>6. pc'[t] \in {"cHandle", "cVM"} => ret'[t] # "sDone"
     <2>1. pc[t] = "cCount" => ret[t] = "reply"
        BY <1>0, Zenon DEF ThreadInv, Position
     <2>2. pc'[t] \in {"cHandle", "cVM"} => pc[t] = "cCount" /\ ret'[t] = ret[t]
        BY <1>0, <1>1, <2>1, Zenon DEF CloseInfo, CloseOwner, CloseCount, CloseLock, LockFailed, Return, Goto,
                                      LocalsOK, Rets
     <2> QED BY <2>1, <2>2, Zenon
  <1>7. ~HoldsNone(t) => Serving(t)
     BY OnlyOwn, Zenon
  <1> QED BY <1>0, <1>1, <1>2, <1>5, <1>6, <1>7, HoldQuiet, Zenon DEF Live
LEMMA HoldVM ==
  ASSUME SessionsInv, HoldInv, NEW t \in Threads, CloseHandle(t) \/ CloseVM(t) \/ SarVM(t)
  PROVE HoldInv'
  <1>0. LocalsOK /\ LocksOK /\ ThreadInv(t)
     BY Types, Zenon DEF SessionsInv
  <1>1. /\ pc[t] \in {"cHandle", "cVM", "sVM"} /\ UNCHANGED <<locks, status, cmd>>
        /\ pc[t] \in {"cHandle", "cVM"} => ret[t] # "sDone"
     BY Zenon DEF CloseHandle, CloseVM, SarVM, table, req, HoldInv
  <1>2. \A u \in Threads \ {t} : Still(u)
     <2>1. \A u \in Threads \ {t} : pc'[u] = pc[u] /\ ret'[u] = ret[u] /\ sid'[u] = sid[u]
        BY <1>0, Zenon DEF CloseHandle, CloseVM, SarVM, CallClose, Return, Goto, LocalsOK
     <2> QED BY <1>1, <2>1, Zenon DEF Still
  <1>3. sid'[t] = sid[t]
     BY <1>0, Zenon DEF CloseHandle, CloseVM, SarVM, CallClose, LocalsOK
  <1>4. CASE SarVM(t)
     <2>1. pc'[t] = "sDone" \/ (pc'[t] = "cInfo" /\ ret'[t] = "sDone")
        BY <1>0, <1>4, Zenon DEF SarVM, CallClose, Goto, LocalsOK
     <2>2. Serving(t)' /\ ~Twice(t) /\ ~Twice(t)' /\ pc'[t] \notin {"cHandle", "cVM"}
        BY <1>4, <2>1, Zenon DEF SarVM, Serving, Twice, ClosePC
     <2> QED BY <1>0, <1>1, <1>2, <1>3, <2>2, HoldQuiet, Zenon DEF Live
  <1>5. CASE CloseHandle(t) \/ CloseVM(t)
     <2>1. Serving(t) => ~Forced(t) /\ Live(sid[t])
        BY <1>0, <1>1, <1>5, Zenon DEF Serving, Inside, ThreadInv, LockHeld, CloseHandle, CloseVM
     <2>2. Serving(t) => pc'[t] \in {"cVM", "cFinish"} /\ ret'[t] = ret[t]
        BY <1>0, <1>5, <2>1, Zenon DEF CloseHandle, CloseVM, Goto, LocalsOK
     <2>3. Serving(t) => Serving(t)' /\ ~Twice(t) /\ ~Twice(t)'
        BY <1>1, <1>5, <2>1, <2>2, Zenon DEF CloseHandle, CloseVM, Serving, Inside, Forced, Twice
     <2>4. pc'[t] \in {"cHandle", "cVM"} => ret'[t] # "sDone"
        <3>1. pc'[t] \in {"cHandle", "cVM"} => ret'[t] \in {ret[t], "reply"}
           BY <1>0, <1>5, Zenon DEF CloseHandle, CloseVM, Return, Goto, LocalsOK
        <3> QED BY <1>1, <1>5, <3>1, Zenon DEF CloseHandle, CloseVM
     <2>5. ~HoldsNone(t) => Serving(t)
        BY OnlyOwn, Zenon
     <2> QED BY <1>0, <1>1, <1>2, <1>3, <2>3, <2>4, <2>5, HoldQuiet, Zenon DEF Live
  <1> QED BY <1>4, <1>5, Zenon

\* GetSessionLock: a free lock is entered once, the SAR's own lock a second time.
LEMMA HoldWaits ==
  ASSUME SessionsInv, SessionsInv', HoldInv, NEW t \in Threads, Waits(t)
  PROVE HoldInv'
  <1>0. LocalsOK /\ LocksOK /\ ThreadInv(t)
     BY Types, Zenon DEF SessionsInv
  <1>1. /\ pc[t] \in {"cWait", "sWait"} /\ UNCHANGED <<status, cmd, sid>> /\ sid[t] \in Ids
        /\ (AcquireLock(t, sid[t]) \/ (~Live(sid[t]) /\ UNCHANGED locks))
     BY <1>0, Zenon DEF Waits, CloseWait, SarWait, table, req, ThreadInv, Position, ClosePC, SarPC
  <1>2. \A u \in Threads \ {t} : Still(u)
     <2>1. \A u \in Threads \ {t} : pc'[u] = pc[u] /\ ret'[u] = ret[u]
        BY <1>0, Zenon DEF Waits, CloseWait, SarWait, Reply, LockFailed, Return, Goto, LocalsOK
     <2> QED BY <1>1, <2>1, Zenon DEF Still
  <1>3. CASE ~Live(sid[t]) /\ UNCHANGED locks
     <2>1. ~Serving(t)
        BY <1>0, <1>1, <1>3, Zenon DEF Serving, Inside, ThreadInv, LockHeld, Closing
     <2>2. pc'[t] \notin {"cHandle", "cVM"}
        BY <1>0, <1>3, Zenon DEF Waits, CloseWait, SarWait, AcquireLock, Reply, LockFailed, Return, Goto,
                                 LocalsOK, Rets
     <2> QED BY <1>1, <1>2, <1>3, <2>1, <2>2, HoldOther, Zenon DEF Live
  <1>4. CASE AcquireLock(t, sid[t])
     <2> DEFINE s == sid[t]
     <2>1. /\ s \in Ids /\ Live(s) /\ holder[s] \in {None, t} /\ holder'[s] = t /\ depth'[s] = depth[s] + 1
           /\ \A id \in Ids \ {s} : holder'[id] = holder[id] /\ depth'[id] = depth[id]
        BY <1>0, <1>1, <1>4, Zenon DEF AcquireLock, LocksOK
     <2>2. /\ pc[t] = "sWait" => pc'[t] = "sVM"
           /\ pc[t] = "cWait" => /\ ret'[t] = ret[t]
                                 /\ pc'[t] = IF Forced(t) \/ ret[t] = "sDone" THEN "cFinish" ELSE "cHandle"
        BY <1>0, <1>4, Zenon DEF Waits, CloseWait, SarWait, AcquireLock, Goto, LocalsOK, RemoveFromVM
     <2>3. Serving(t)' /\ (Twice(t)' <=> pc[t] = "cWait" /\ ret[t] = "sDone")
        BY <1>1, <2>2, Zenon DEF Serving, Inside, Forced, Twice
     <2>4. depth'[s] = IF Twice(t)' THEN 2 ELSE 1
        <3>1. CASE Twice(t)'
           <4>1. holder[s] = t
              BY <1>0, <2>3, <3>1, Zenon DEF ThreadInv, LockHeld, Closing, ClosePC
           <4>2. depth[s] = 1
              BY <2>1, <2>3, <3>1, <4>1, OwnLock, Zenon DEF Twice
           <4> QED BY <2>1, <3>1, <4>2
        <3>2. CASE ~Twice(t)'
           <4>1. ~Serving(t)
              BY <1>1, <2>3, <3>2, Zenon DEF Serving, Inside, ClosePC
           <4>2. holder[s] = None
              BY <2>1, <4>1, OnlyOwn, Zenon DEF HoldsNone
           <4>3. depth[s] = 0
              BY <2>1, <4>2, Zenon DEF HoldInv
           <4> QED BY <2>1, <3>2, <4>3
        <3> QED BY <3>1, <3>2, Zenon
     <2>5. \A id \in Ids \ {s} : holder[id] # t
        BY OnlyOwn, Zenon
     <2>6. pc'[t] \in {"cHandle", "cVM"} => ret'[t] # "sDone"
        BY <1>1, <2>2, Zenon
     <2>7. LocksOK'
        BY Types, Zenon DEF SessionsInv, TypeOK, LocksOK
     <2> QED BY <1>1, <1>2, <2>1, <2>3, <2>4, <2>5, <2>6, <2>7, HoldLock, Zenon DEF Live
  <1> QED BY <1>1, <1>3, <1>4, Zenon

\* The record goes with its lock, or the lock is left; it was entered once then.
LEMMA HoldFinish ==
  ASSUME SessionsInv, SessionsInv', HoldInv, NEW t \in Threads, CloseFinish(t) \/ SarDone(t)
  PROVE HoldInv'
  <1> DEFINE s == sid[t]
  <1>0. LocalsOK /\ LocksOK /\ TableOK /\ ThreadInv(t) /\ LocksOK'
     BY Types, Zenon DEF SessionsInv, TypeOK, LocksOK
  <1>1. pc[t] \in {"cFinish", "sDone"} /\ s \in Ids /\ UNCHANGED <<cmd, sid>>
     BY <1>0, Zenon DEF CloseFinish, SarDone, req, ThreadInv, Position, ClosePC, SarPC
  <1>2. \A u \in Threads \ {t} : Still(u)
     <2>1. \A u \in Threads \ {t} : pc'[u] = pc[u] /\ ret'[u] = ret[u]
        BY <1>0, Zenon DEF CloseFinish, SarDone, Return, Goto, LocalsOK
     <2> QED BY <1>1, <2>1, Zenon DEF Still
  <1>3. pc'[t] \notin {"cHandle", "cVM"}
     BY <1>0, Zenon DEF CloseFinish, SarDone, Return, Goto, LocalsOK, Rets
  <1>4. \A id \in Ids \ {s} : holder[id] # t
     BY OnlyOwn, Zenon
  <1>5. CASE remove(s) /\ pc[t] = "cFinish"
     <2>1. /\ holder'[s] = None /\ depth'[s] = 0
           /\ \A id \in Ids \ {s} : /\ holder'[id] = holder[id] /\ depth'[id] = depth[id]
                                    /\ status'[id] = status[id]
        BY <1>0, <1>1, <1>5, Zenon DEF remove, LocksOK, TableOK
     <2>2. holder[s] = t
        BY <1>0, <1>5, Zenon DEF ThreadInv, LockHeld, Inside
     <2> QED BY <1>0, <1>1, <1>2, <1>3, <1>4, <2>1, <2>2, HoldLock, Zenon
  <1>6. CASE ReleaseSessionLock(t, s) /\ UNCHANGED status /\ ~Twice(t)
     <2>1. CASE Live(s) /\ holder[s] = t
        <3>1. depth[s] = 1
           BY <1>1, <1>6, <2>1, OwnLock, Zenon
        <3>2. holder' = [holder EXCEPT ![s] = None] /\ depth' = [depth EXCEPT ![s] = depth[s] - 1]
           BY <1>6, <2>1, <3>1, Zenon DEF ReleaseSessionLock
        <3>3. holder'[s] = None /\ depth'[s] = 0
           BY <1>0, <1>1, <3>1, <3>2 DEF LocksOK
        <3>4. \A id \in Ids \ {s} : /\ holder'[id] = holder[id] /\ depth'[id] = depth[id]
                                     /\ status'[id] = status[id]
           BY <1>0, <1>1, <1>6, <3>2, Zenon DEF LocksOK
        <3> QED BY <1>0, <1>1, <1>2, <1>3, <1>4, <2>1, <3>3, <3>4, HoldLock, Zenon
     <2>2. CASE ~(Live(s) /\ holder[s] = t)
        <3>1. UNCHANGED locks /\ HoldsNone(t)
           BY <1>4, <1>6, <2>2, OwnLock, Zenon DEF ReleaseSessionLock, HoldsNone
        <3> QED BY <1>0, <1>2, <1>3, <1>6, <3>1, HoldQuiet, Zenon DEF Live
     <2> QED BY <2>1, <2>2, Zenon
  <1>7. CASE SarDone(t)
     BY <1>6, <1>7, Zenon DEF SarDone, Twice, table
  <1>8. CASE CloseFinish(t)
     <2>1. ret[t] = "sDone" => ~RemoveFromVM(t)
        BY Zenon DEF RemoveFromVM
     <2>2. (remove(s) /\ pc[t] = "cFinish") \/ (ReleaseSessionLock(t, s) /\ UNCHANGED status /\ RemoveFromVM(t))
        BY <1>8, Zenon DEF CloseFinish
     <2> QED BY <1>5, <1>6, <2>1, <2>2, Zenon DEF Twice
  <1> QED BY <1>7, <1>8, Zenon

\* Nothing but a step of its holder moves a session lock.
LEMMA HoldNext == SessionsInv /\ SessionsInv' /\ HoldInv /\ [Next]_vars => HoldInv'
  <1> SUFFICES ASSUME SessionsInv, SessionsInv', HoldInv, [Next]_vars PROVE HoldInv'
     BY Zenon
  <1>1. CASE UNCHANGED <<thread, status, locks>>
     BY <1>1, Zenon DEF HoldInv, NoHoldAndWait, Serving, Inside, Forced, Live, thread, req, locks
  <1>2. ASSUME NEW t \in Threads, \/ StartStep(t) \/ CreateStep(t) \/ CloseStep(t) \/ SarStep(t)
                                   \/ Waits(t) \/ Finish(t) \/ UseFreed(t)
        PROVE HoldInv'
     BY <1>2, HoldStart, HoldCreate, HoldEnd, HoldClose, HoldVM, HoldWaits, HoldFinish, ZenonT(40)
        DEF CloseStep, SarStep
  <1>3. (\E id \in Ids : AppletDies(id)) \/ (\E p \in Procs : ProcessDies(p)) \/ UNCHANGED vars
           => UNCHANGED <<thread, status, locks>>
     BY Zenon DEF AppletDies, ProcessDies, vars, table
  <1> QED BY <1>1, <1>2, <1>3, Zenon DEF Next

\* Who holds a session lock serves a request on that session, waits for nothing, and
\* leaves the lock free: GetSessionLock and _jhiMutex cannot deadlock the service.
THEOREM LocksAreReleased == Spec => []NoHoldAndWait
  <1>1. Init => HoldInv
     BY Zenon DEF Init, HoldInv, NoHoldAndWait
  <1>2. HoldInv => NoHoldAndWait
     BY Zenon DEF HoldInv
  <1> QED BY <1>1, <1>2, HoldNext, SessionsInvariant, PTL DEF Spec
==============================================================================
