--------------------------- MODULE Sessions_proofs ---------------------------
(***************************************************************************)
(* SessionsInv is an inductive invariant of Sessions: the frame lemmas and *)
(* the steps that change the session table, call the VM or only move a     *)
(* thread (the others are in Sessions_theorems).  A step of thread t       *)
(* leaves the other threads where they are; what they know survives it by  *)
(* one of two frame lemmas: FrameAny, for steps that only shrink the table *)
(* (removals, departures, VM sessions that end), and FrameSar, for steps   *)
(* of the holder of _jhiMutex, next to which only SARs run.                *)
(***************************************************************************)
EXTENDS Sessions, TLAPS

\* The provers get more than their default time.
USE SMTT(25), ZenonT(25)

Rets == {"reply", "sweep", "evicted", "check", "sDone"}
LocalsOK == /\ pc \in [Threads -> PC] /\ cmd \in [Threads -> Commands]
            /\ app \in [Threads -> Apps \cup {None}] /\ proc \in [Threads -> Procs \cup {None}]
            /\ sid \in [Threads -> Ids \cup {None}] /\ todo \in [Threads -> SUBSET Ids]
            /\ ret \in [Threads -> Rets] /\ rc \in [Threads -> Codes]
TableOK == /\ status \in [Ids -> {"unused", "live", "gone"}]
           /\ appId \in [Ids -> Apps \cup {None}]
           /\ flags \in [Ids -> {"shared", "none"}]
           /\ owners \in [Ids -> [Procs -> Nat]]
           /\ lastUsedTime \in [Ids -> Nat] /\ sharedSessionLRUCounter \in Nat
LocksOK == /\ holder \in [Ids -> Threads \cup {None}] /\ depth \in [Ids -> Nat]
           /\ jhiMutex \in Threads \cup {None}
VMOK == vm \in [Ids -> VMStates] /\ alive \in SUBSET Procs

\* Thread u stands still.
Same(u) == /\ pc'[u] = pc[u] /\ cmd'[u] = cmd[u] /\ app'[u] = app[u] /\ proc'[u] = proc[u]
           /\ sid'[u] = sid[u] /\ todo'[u] = todo[u] /\ ret'[u] = ret[u] /\ rc'[u] = rc[u]

\* Ids are not handed out twice, and no VM session that has a record is reopened.
Forward == \A id \in Ids :
    /\ status[id] # "unused" => status'[id] # "unused"
    /\ status[id] # "unused" /\ vm'[id] = "open" => vm[id] = "open"
\* What u holds stays.
KeepsLock(u) == sid[u] \in Ids /\ holder[sid[u]] = u /\ Live(sid[u])
                => holder'[sid[u]] = u /\ status'[sid[u]] = "live"
\* No session, shared session or owner appears.
Shrinks == \A id \in Ids :
    /\ status'[id] = "live" => /\ Live(id) /\ appId'[id] = appId[id] /\ flags'[id] = flags[id]
    /\ status[id] = "unused" => status'[id] = "unused"
    /\ vm[id] \notin {"none", "leaked"} => vm'[id] \notin {"none", "leaked"}
    /\ Unowned(id) => owners'[id] = NoOwners

\* The types of the four groups of variables make up TypeOK.
LEMMA Types == TypeOK <=> LocalsOK /\ TableOK /\ LocksOK /\ VMOK
  BY Zenon DEF TypeOK, LocalsOK, TableOK, LocksOK, VMOK, Rets

\* A thread that stands still keeps its part of the invariant in a step that only
\* shrinks the table.
LEMMA FrameAny ==
  ASSUME NEW u \in Threads, LocalsOK, ThreadInv(u), Same(u), Forward, KeepsLock(u), Shrinks,
         pc[u] = "cCount" => \A id \in Ids : status'[id] = "live" => owners'[id] = owners[id]
  PROVE ThreadInv(u)'
  <1> USE DEF Same, Closing
  <1>1. sid[u] \in Ids \cup {None} /\ todo[u] \subseteq Ids
     BY Zenon DEF LocalsOK
  <1>2. Position(u)'
     BY <1>1 DEF ThreadInv, Position, Live, Shared, Forward, Shrinks, ClosePC, SarPC
  <1>3. LockHeld(u)'
     BY <1>1, Zenon DEF ThreadInv, Position, LockHeld, Inside, Forced, Live, KeepsLock, SarPC, ClosePC
  <1>4. EndKnown(u)'
     BY <1>1 DEF ThreadInv, Position, EndKnown, Forced, RemoveFromVM, Forward, ClosePC, SarPC
  <1>5. NoSharedYet(u)'
     BY Zenon DEF ThreadInv, NoSharedYet, Live, Shared, Shrinks
  <1>6. StaysUnowned(u)'
     BY <1>1, Zenon DEF ThreadInv, Position, StaysUnowned, Unowned, NoOwners, Shrinks
  <1>7. (pc[u] = "unload" => ~hasLiveSessions(app[u]))'
     BY Zenon DEF ThreadInv, Live, hasLiveSessions, Shrinks
  <1> QED BY <1>2, <1>3, <1>4, <1>5, <1>6, <1>7, Zenon DEF ThreadInv

\* A thread that serves a SAR, or nothing, knows only about its own session.
LEMMA FrameSar ==
  ASSUME NEW u \in Threads, LocalsOK, ThreadInv(u), Same(u), Forward, KeepsLock(u),
         pc[u] = "idle" \/ cmd[u] = "sar"
  PROVE ThreadInv(u)'
  <1> USE DEF Same, Closing
  <1>1. sid[u] \in Ids \cup {None} /\ ret[u] \in Rets
     BY Zenon DEF LocalsOK
  <1>2. Position(u)'
     BY <1>1 DEF ThreadInv, Position, Live, Shared, Forward, CreatePC, UnloadPC, ClosePC, SarPC, Rets
  <1>3. LockHeld(u)'
     BY <1>1, Zenon DEF ThreadInv, Position, LockHeld, Inside, Forced, Live, KeepsLock, SarPC, ClosePC
  <1>4. EndKnown(u)'
     BY <1>1, Zenon DEF ThreadInv, Position, EndKnown, Forced, RemoveFromVM, Forward, ClosePC, SarPC
  <1>5. NoSharedYet(u)'
     BY Zenon DEF ThreadInv, Position, NoSharedYet, CreatePC, ClosePC
  <1>6. StaysUnowned(u)'
     BY <1>1, Zenon DEF ThreadInv, Position, StaysUnowned, CreatePC, ClosePC, Rets
  <1>7. (pc[u] = "unload" => ~hasLiveSessions(app[u]))'
     BY Zenon DEF ThreadInv, Position, UnloadPC
  <1> QED BY <1>2, <1>3, <1>4, <1>5, <1>6, <1>7, Zenon DEF ThreadInv

\* A step of t that leaves the table and the VM alone.
LEMMA ThreadStep ==
  ASSUME SessionsInv, NEW t \in Threads, \A u \in Threads \ {t} : Same(u) /\ KeepsLock(u),
         LocalsOK', LocksOK', DepthCounts', MutexHeld', UNCHANGED <<table, vm, alive>>,
         pc[t] # "add", ThreadInv(t)'
  PROVE SessionsInv'
  <1>0. LocalsOK /\ TableOK /\ VMOK
     BY Types, Zenon DEF SessionsInv
  <1>1. TypeOK'
     <2>1. TableOK' /\ VMOK'
        BY <1>0, Zenon DEF TableOK, VMOK, table, info
     <2> QED BY <2>1, Zenon DEF TypeOK, LocalsOK, TableOK, LocksOK, VMOK, Rets
  <1>2. ASSUME NEW u \in Threads PROVE ThreadInv(u)'
     <2>1. CASE u = t BY <2>1, Zenon
     <2>2. CASE u # t
        <3>1. Forward /\ Shrinks
           BY <1>0, Zenon DEF Forward, Shrinks, Live, Unowned, NoOwners, table, info
        <3>2. ThreadInv(u) /\ UNCHANGED owners
           BY Zenon DEF SessionsInv, table
        <3> QED BY <1>0, <2>2, <3>1, <3>2, FrameAny, Zenon
     <2> QED BY <2>1, <2>2, Zenon
  <1>3. NoLostVMSession'
     BY DEF SessionsInv, NoLostVMSession, Same, Live, table
  <1>4. VMKnows' /\ OneSharedPerApplet' /\ StampsDistinct' /\ sharedSessionLRUCounter' > 0
     BY DEF SessionsInv, VMKnows, OneSharedPerApplet, StampsDistinct, Unused, SharedSessions,
            Live, Shared, Unowned, NoOwners, table, info
  <1> QED BY <1>1, <1>2, <1>3, <1>4, Zenon DEF SessionsInv

\* ... and neither starts nor ends a request, nor uses a lock.
LEMMA QuietStep ==
  ASSUME SessionsInv, NEW t \in Threads, \A u \in Threads \ {t} : Same(u), LocalsOK',
         UNCHANGED <<cmd, table, locks, jhiMutex, vm, alive>>,
         pc[t] \notin {"idle", "add"}, pc'[t] # "idle", ThreadInv(t)'
  PROVE SessionsInv'
  <1>1. LocksOK /\ DepthCounts /\ MutexHeld
     BY Types, Zenon DEF SessionsInv
  <1>2. LocksOK' /\ DepthCounts' /\ \A u \in Threads \ {t} : KeepsLock(u)
     BY <1>1, Zenon DEF LocksOK, DepthCounts, KeepsLock, Live, locks, table
  <1>3. MutexHeld'
     BY <1>1, Zenon DEF MutexHeld, Same
  <1> QED BY <1>2, <1>3, ThreadStep, Zenon
USE DEF Closing, CreatePC, UnloadPC, ClosePC, SarPC, Rets

\* A thread outside jhis_close_session that has its answer knows nothing more.
LEMMA Replied ==
  ASSUME NEW t \in Threads, LocalsOK, ThreadInv(t), pc[t] \notin ClosePC \cup {"halted"},
         pc'[t] = "reply", ret'[t] = ret[t], cmd'[t] = cmd[t], app'[t] = app[t], proc'[t] = proc[t]
  PROVE ThreadInv(t)'
  <1>1. ret'[t] = "reply"
     BY Zenon DEF ThreadInv, Position
  <1>2. Position(t)'
     BY <1>1, Zenon DEF ThreadInv, Position
  <1>3. LockHeld(t)' /\ EndKnown(t)' /\ NoSharedYet(t)' /\ StaysUnowned(t)'
     BY <1>1, Zenon DEF LockHeld, EndKnown, NoSharedYet, StaysUnowned, Inside
  <1> QED BY <1>2, <1>3, Zenon DEF ThreadInv

\* jhis_close_session returns to its caller, which goes on with what it knew.
LEMMA Returned ==
  ASSUME NEW t \in Threads, LocalsOK, ThreadInv(t), pc[t] \in ClosePC, NEW code \in Codes,
         Return(t, code), UNCHANGED <<req, sid, todo>>, Forward, Shrinks
  PROVE /\ LocalsOK' /\ ThreadInv(t)' /\ pc'[t] \notin {"idle", "add"}
        /\ \A u \in Threads \ {t} : Same(u)
  <1>1. LocalsOK' /\ \A u \in Threads \ {t} : Same(u)
     BY Zenon DEF Return, Goto, LocalsOK, req, Same, PC, Codes
  <1>2. /\ pc'[t] = ret[t] /\ ret'[t] = "reply" /\ cmd'[t] = cmd[t] /\ app'[t] = app[t]
        /\ proc'[t] = proc[t] /\ sid'[t] = sid[t] /\ todo'[t] = todo[t]
        /\ sid[t] \in Ids /\ ret[t] \in Rets /\ todo[t] \subseteq Ids
     BY Zenon DEF Return, Goto, LocalsOK, req, ThreadInv, Position
  <1>3. Position(t)'
     BY <1>2, Zenon DEF ThreadInv, Position, Forward
  <1>4. LockHeld(t)' /\ EndKnown(t)'
     BY <1>2, Zenon DEF LockHeld, EndKnown, Inside
  <1>5. NoSharedYet(t)'
     BY <1>2, Zenon DEF ThreadInv, NoSharedYet, Live, Shared, Shrinks
  <1>6. StaysUnowned(t)'
     BY <1>2, Zenon DEF ThreadInv, StaysUnowned, Unowned, NoOwners, Shrinks
  <1>7. ThreadInv(t)'
     BY <1>2, <1>3, <1>4, <1>5, <1>6, Zenon DEF ThreadInv
  <1> QED BY <1>1, <1>2, <1>7, Zenon

\* The tables stand still.
LEMMA NothingShrinks ==
  ASSUME VMOK, UNCHANGED <<table, vm>>
  PROVE Forward /\ Shrinks
  BY Zenon DEF Forward, Shrinks, table, info, Live, Unowned, NoOwners

\* The open VM sessions keep their records or the thread that is to add one: t is not
\* adding one, and a session that is still open loses no record.
LEMMA KnownStays ==
  ASSUME NoLostVMSession, NEW t \in Threads \cup {None}, \A u \in Threads \ {t} : Same(u),
         t \in Threads => pc[t] # "add",
         \A id \in Ids : vm'[id] = "open" => vm[id] = "open" /\ (Live(id) => status'[id] = "live")
  PROVE NoLostVMSession'
  <1>1. ASSUME NEW id \in Ids, vm'[id] = "open"
        PROVE  status'[id] = "live" \/ \E u \in Threads : pc'[u] = "add" /\ sid'[u] = id
     <2>1. CASE Live(id)
        BY <1>1, <2>1, Zenon
     <2>2. CASE \E u \in Threads : pc[u] = "add" /\ sid[u] = id
        BY <2>2, Zenon DEF Same
     <2> QED BY <1>1, <2>1, <2>2, Zenon DEF NoLostVMSession
  <1> QED BY <1>1, Zenon DEF NoLostVMSession, Live

\* An applet gets no second shared session from a step that adds none.
LEMMA StaysOneShared ==
  ASSUME OneSharedPerApplet,
         \A id \in Ids : status'[id] = "live" => /\ Live(id) /\ appId'[id] = appId[id]
                                               /\ flags'[id] = flags[id]
  PROVE OneSharedPerApplet'
  <1>1. ASSUME NEW a \in Apps, NEW i \in SharedSessions(a)' PROVE i \in SharedSessions(a)
     BY <1>1, Zenon DEF SharedSessions, Live, Shared
  <1> QED BY <1>1, Zenon DEF OneSharedPerApplet

\* The properties of the table alone.
LEMMA TableKept ==
  ASSUME OneSharedPerApplet, StampsDistinct, UNCHANGED table
  PROVE OneSharedPerApplet' /\ StampsDistinct'
  <1>1. OneSharedPerApplet'
     BY StaysOneShared, Zenon DEF Live, table, info
  <1>2. StampsDistinct'
     BY DEF StampsDistinct, Unused, Live, Shared, Unowned, NoOwners, table, info
  <1> QED BY <1>1, <1>2, Zenon

\* The threads next to the holder of _jhiMutex serve SARs or nothing.
LEMMA OthersSar ==
  ASSUME SessionsInv, NEW t \in Threads, jhiMutex \in {None, t}, Forward,
         \A u \in Threads \ {t} : Same(u) /\ KeepsLock(u)
  PROVE \A u \in Threads \ {t} : ThreadInv(u)'
  <1> SUFFICES ASSUME NEW u \in Threads, u # t PROVE ThreadInv(u)'
     BY Zenon
  <1>1. LocalsOK /\ ThreadInv(u)
     BY Types, Zenon DEF SessionsInv
  <1>2. pc[u] = "idle" \/ cmd[u] = "sar"
     BY SessionsAssumption, Zenon DEF SessionsInv, MutexHeld
  <1> QED BY <1>1, <1>2, FrameSar, Zenon

\* The thread that serves a request other than a SAR holds _jhiMutex.
LEMMA HoldsMutex ==
  ASSUME SessionsInv, NEW t \in Threads, pc[t] # "idle", cmd[t] # "sar"
  PROVE jhiMutex = t
  BY Zenon DEF SessionsInv, MutexHeld

\* The types after a step, from those of its four groups.
LEMMA TypesAfter ==
  ASSUME LocalsOK', TableOK', LocksOK', VMOK'
  PROVE TypeOK'
  BY Zenon DEF TypeOK, LocalsOK, TableOK, LocksOK, VMOK

\* A step inside a request keeps who holds _jhiMutex.
LEMMA MutexKept ==
  ASSUME SessionsInv, NEW t \in Threads, \A u \in Threads \ {t} : Same(u), pc[t] # "idle",
         pc'[t] # "idle", UNCHANGED <<cmd, jhiMutex>>
  PROVE MutexHeld'
  BY Zenon DEF SessionsInv, MutexHeld, Same

\* The session locks and _jhiMutex stand still.
LEMMA LocksKept ==
  ASSUME SessionsInv, UNCHANGED <<locks, jhiMutex>>
  PROVE LocksOK' /\ DepthCounts'
  <1>1. LocksOK /\ DepthCounts
     BY Types, Zenon DEF SessionsInv
  <1> QED BY <1>1, Zenon DEF LocksOK, DepthCounts, locks

-----------------------------------------------------------------------------
(* Steps of jhis_create_session and of the unloading of an applet that only move the *)
(* thread. *)

\* Inductive step: closing the abandoned sessions one by one (ClearAbandonedNonSharedSessions).
LEMMA SweepStep == ASSUME SessionsInv, NEW t \in Threads, Sweep(t) PROVE SessionsInv'
  <1>0. LocalsOK /\ VMOK /\ ThreadInv(t)
     BY Types, Zenon DEF SessionsInv
  <1>1. pc[t] = "sweep" /\ UNCHANGED <<req, rc, table, locks, jhiMutex, vm, alive>>
     BY Zenon DEF Sweep
  <1>2. CASE todo[t] # {}
     <2>0. PICK id \in todo[t] : todo' = [todo EXCEPT ![t] = @ \ {id}] /\ CallClose(t, id, "sweep")
        BY <1>0, <1>1, <1>2, Zenon DEF Sweep
     <2>1. LocalsOK' /\ \A u \in Threads \ {t} : Same(u)
        BY <1>0, <1>1, <1>2, <2>0 DEF Sweep, CallClose, Goto, LocalsOK, req, Same, PC
     <2>2. /\ pc'[t] = "cInfo" /\ sid'[t] = id /\ ret'[t] = "sweep" /\ rc'[t] = rc[t]
           /\ todo'[t] = todo[t] \ {id} /\ id \in Ids
        BY <1>0, <1>1, <1>2, <2>0, Zenon DEF Sweep, CallClose, Goto, LocalsOK
     <2>3. Position(t)'
        BY <1>0, <1>1, <1>2, <2>0, <2>2, Zenon DEF ThreadInv, Position, Live, Shared, table, info, req
     <2>4. LockHeld(t)'
        BY <2>2, Zenon DEF LockHeld, Inside
     <2>5. EndKnown(t)'
        BY <2>2, Zenon DEF EndKnown
     <2>6. NoSharedYet(t)'
        BY <2>2, Zenon DEF NoSharedYet
     <2>7. StaysUnowned(t)'
        BY <1>0, <1>1, <1>2, <2>0, <2>2, Zenon DEF ThreadInv, StaysUnowned, Unowned, NoOwners, table, req
     <2>8. ThreadInv(t)'
        BY <2>2, <2>3, <2>4, <2>5, <2>6, <2>7, Zenon DEF ThreadInv
     <2> QED BY <1>0, <1>1, <2>1, <2>2, <2>8, QuietStep, Zenon DEF req
  <1>3. CASE todo[t] = {}
     <2>1. LocalsOK' /\ \A u \in Threads \ {t} : Same(u)
        BY <1>0, <1>1, <1>3, Zenon DEF Sweep, Goto, LocalsOK, req, Same, PC
     <2>2. /\ pc'[t] = IF cmd[t] = "unload" THEN "clearShared" ELSE "share"
           /\ sid'[t] = sid[t] /\ ret'[t] = ret[t] /\ rc'[t] = rc[t] /\ cmd[t] \in Commands
        BY <1>0, <1>1, <1>3, Zenon DEF Sweep, Goto, LocalsOK
     <2>3. Position(t)'
        BY <1>0, <1>1, <1>3, <2>2, Zenon DEF ThreadInv, Position, Commands, Live, Shared, table, info, req
     <2>4. LockHeld(t)'
        BY <2>2, Zenon DEF LockHeld, Inside
     <2>5. EndKnown(t)'
        BY <2>2, Zenon DEF EndKnown
     <2>6. NoSharedYet(t)'
        BY <2>2, Zenon DEF NoSharedYet
     <2>7. StaysUnowned(t)'
        BY <2>2, Zenon DEF StaysUnowned
     <2>8. ThreadInv(t)'
        BY <2>2, <2>3, <2>4, <2>5, <2>6, <2>7, Zenon DEF ThreadInv
     <2> QED BY <1>0, <1>1, <2>1, <2>2, <2>8, QuietStep, Zenon DEF req
  <1> QED BY <1>1, <1>2, <1>3, Zenon

\* Inductive step: looking for the applet's shared session (getSharedSessionID).
LEMMA ShareStep == ASSUME SessionsInv, NEW t \in Threads, Share(t) PROVE SessionsInv'
  <1>0. LocalsOK /\ VMOK /\ ThreadInv(t)
     BY Types, Zenon DEF SessionsInv
  <1>1. pc[t] = "share" /\ UNCHANGED <<req, todo, ret, table, locks, jhiMutex, vm, alive>>
     BY Zenon DEF Share
  <1>2. CASE /\ cmd[t] = "createShared" /\ UNCHANGED rc /\ Goto(t, "join")
             /\ \E id \in SharedSessions(app[t]) : sid' = [sid EXCEPT ![t] = id]
     <2>0. PICK id \in SharedSessions(app[t]) : sid' = [sid EXCEPT ![t] = id] /\ Goto(t, "join")
        BY <1>2, Zenon
     <2>1. LocalsOK' /\ \A u \in Threads \ {t} : Same(u)
        BY <1>0, <1>1, <1>2, <2>0, Zenon DEF SharedSessions, Goto, LocalsOK, req, Same, PC
     <2>2. pc'[t] = "join" /\ sid'[t] = id /\ ret'[t] = ret[t] /\ rc'[t] = rc[t] /\ id \in Ids
        BY <1>0, <1>1, <1>2, <2>0, Zenon DEF SharedSessions, Goto, LocalsOK
     <2>3. Position(t)'
        BY <1>0, <1>1, <1>2, <2>0, <2>2, Zenon DEF ThreadInv, Position, SharedSessions, Live, Shared, table, info, req
     <2>4. LockHeld(t)'
        BY <2>2, Zenon DEF LockHeld, Inside
     <2>5. EndKnown(t)'
        BY <2>2, Zenon DEF EndKnown
     <2>6. NoSharedYet(t)'
        BY <2>2, Zenon DEF NoSharedYet
     <2>7. StaysUnowned(t)'
        BY <2>2, Zenon DEF StaysUnowned
     <2>8. ThreadInv(t)'
        BY <2>2, <2>3, <2>4, <2>5, <2>6, <2>7, Zenon DEF ThreadInv
     <2> QED BY <1>0, <1>1, <2>1, <2>2, <2>8, QuietStep, Zenon DEF req
  <1>3. CASE /\ cmd[t] # "createShared" \/ SharedSessions(app[t]) = {}
             /\ Goto(t, "vmCreate") /\ UNCHANGED <<sid, rc>>
     <2>1. LocalsOK' /\ \A u \in Threads \ {t} : Same(u)
        BY <1>0, <1>1, <1>3, Zenon DEF Goto, LocalsOK, req, Same, PC
     <2>2. pc'[t] = "vmCreate" /\ sid'[t] = sid[t] /\ ret'[t] = ret[t] /\ rc'[t] = rc[t]
        BY <1>0, <1>1, <1>3, Zenon DEF Goto, LocalsOK
     <2>3. Position(t)'
        BY <1>0, <1>1, <1>3, <2>2, Zenon DEF ThreadInv, Position, Live, Shared, table, info, req
     <2>4. LockHeld(t)'
        BY <2>2, Zenon DEF LockHeld, Inside
     <2>5. EndKnown(t)'
        BY <2>2, Zenon DEF EndKnown
     <2>6. NoSharedYet(t)'
        BY <1>0, <1>1, <1>3, <2>2, ZenonT(40) DEF ThreadInv, NoSharedYet, SharedSessions, Live, Shared, table, info, req
     <2>7. StaysUnowned(t)'
        BY <2>2, Zenon DEF StaysUnowned
     <2>8. ThreadInv(t)'
        BY <2>2, <2>3, <2>4, <2>5, <2>6, <2>7, Zenon DEF ThreadInv
     <2> QED BY <1>0, <1>1, <2>1, <2>2, <2>8, QuietStep, Zenon DEF req
  <1>4. CASE Reply(t, "SHARED_SESSION_NOT_SUPPORTED") /\ UNCHANGED sid
     <2>1. LocalsOK' /\ \A u \in Threads \ {t} : Same(u)
        BY <1>0, <1>1, <1>4, Zenon DEF Reply, Goto, LocalsOK, req, Same, PC, Codes
     <2>2. pc'[t] = "reply" /\ sid'[t] = sid[t] /\ ret'[t] = ret[t]
        BY <1>0, <1>1, <1>4, Zenon DEF Reply, Goto, LocalsOK
     <2>3. ThreadInv(t)'
        BY <1>0, <1>1, <2>2, Replied, Zenon DEF req
     <2> QED BY <1>0, <1>1, <2>1, <2>2, <2>3, QuietStep, Zenon DEF req
  <1> QED BY <1>2, <1>3, <1>4, Zenon DEF Share

\* Inductive step: listing the unused shared sessions (TryRemoveUnusedSharedSession).
LEMMA EvictStep == ASSUME SessionsInv, NEW t \in Threads, Evict(t) PROVE SessionsInv'
  <1>0. LocalsOK /\ VMOK /\ ThreadInv(t)
     BY Types, Zenon DEF SessionsInv
  <1>1. pc[t] = "evict" /\ UNCHANGED <<req, sid, ret, table, locks, jhiMutex, vm, alive>>
     BY Zenon DEF Evict
  <1>2. CASE Unused = {}
     <2>1. LocalsOK' /\ \A u \in Threads \ {t} : Same(u)
        BY <1>0, <1>1, <1>2, Zenon DEF Evict, Unused, Reply, Goto, LocalsOK, req, Same, PC, Codes
     <2>2. pc'[t] = "reply" /\ ret'[t] = ret[t]
        BY <1>0, <1>1, <1>2, Zenon DEF Evict, Unused, Reply, Goto, LocalsOK
     <2> QED BY <1>0, <1>1, <2>1, <2>2, Replied, QuietStep, Zenon DEF req
  <1>3. CASE Unused # {}
     <2>1. LocalsOK' /\ \A u \in Threads \ {t} : Same(u)
        BY <1>0, <1>1, <1>3, Zenon DEF Evict, Unused, Goto, LocalsOK, req, Same, PC
     <2>2. pc'[t] = "victim" /\ todo'[t] = Unused /\ ret'[t] = ret[t] /\ rc'[t] = rc[t]
        BY <1>0, <1>1, <1>3, Zenon DEF Evict, Unused, Goto, LocalsOK
     <2>3. Position(t)'
        BY <1>0, <1>1, <1>3, <2>2, Zenon DEF ThreadInv, Position, Unused, Live, Shared, table, info, req
     <2>4. LockHeld(t)'
        BY <2>2, Zenon DEF LockHeld, Inside
     <2>5. EndKnown(t)'
        BY <2>2, Zenon DEF EndKnown
     <2>6. NoSharedYet(t)'
        BY <1>0, <1>1, <1>3, <2>2, Zenon DEF ThreadInv, NoSharedYet, Live, Shared, table, info, req
     <2>7. StaysUnowned(t)'
        BY <1>0, <1>1, <1>3, <2>2, ZenonT(40) DEF ThreadInv, StaysUnowned, Unused, Unowned, NoOwners, table, req
     <2>8. ThreadInv(t)'
        BY <2>2, <2>3, <2>4, <2>5, <2>6, <2>7, Zenon DEF ThreadInv
     <2> QED BY <1>0, <1>1, <2>1, <2>2, <2>8, QuietStep, Zenon DEF req
  <1> QED BY <1>1, <1>2, <1>3, Zenon

\* Inductive step: choosing the least recently used of them.
LEMMA VictimStep == ASSUME SessionsInv, NEW t \in Threads, Victim(t) PROVE SessionsInv'
  <1>0. LocalsOK /\ VMOK /\ ThreadInv(t)
     BY Types, Zenon DEF SessionsInv
  <1>1. pc[t] = "victim" /\ UNCHANGED <<req, rc, table, locks, jhiMutex, vm, alive>>
     BY Zenon DEF Victim
  <1>2. CASE TRUE
     <2>0. PICK id \in todo[t] : CallClose(t, id, "evicted")
        BY <1>0, <1>1, <1>2, Zenon DEF Victim
     <2>1. LocalsOK' /\ \A u \in Threads \ {t} : Same(u)
        BY <1>0, <1>1, <1>2, <2>0, ZenonT(40) DEF Victim, CallClose, Goto, LocalsOK, req, Same, PC
     <2>2. /\ pc'[t] = "cInfo" /\ sid'[t] = id /\ ret'[t] = "evicted" /\ rc'[t] = rc[t]
           /\ todo'[t] = {} /\ id \in Ids
        BY <1>0, <1>1, <1>2, <2>0, Zenon DEF Victim, CallClose, Goto, LocalsOK
     <2>3. Position(t)'
        BY <1>0, <1>1, <1>2, <2>0, <2>2, ZenonT(40) DEF ThreadInv, Position, Live, Shared, table, info, req
     <2>4. LockHeld(t)'
        BY <2>2, Zenon DEF LockHeld, Inside
     <2>5. EndKnown(t)'
        BY <2>2, Zenon DEF EndKnown
     <2>6. NoSharedYet(t)'
        BY <1>0, <1>1, <1>2, <2>0, <2>2, ZenonT(40) DEF ThreadInv, NoSharedYet, Live, Shared, table, info, req
     <2>7. StaysUnowned(t)'
        BY <1>0, <1>1, <1>2, <2>0, <2>2, Zenon DEF ThreadInv, StaysUnowned, Unowned, NoOwners, table, req
     <2>8. ThreadInv(t)'
        BY <2>2, <2>3, <2>4, <2>5, <2>6, <2>7, Zenon DEF ThreadInv
     <2> QED BY <1>0, <1>1, <2>1, <2>2, <2>8, QuietStep, ZenonT(40) DEF req
  <1> QED BY <1>1, <1>2, Zenon

\* Inductive step: the result of the eviction.
LEMMA EvictedStep == ASSUME SessionsInv, NEW t \in Threads, Evicted(t) PROVE SessionsInv'
  <1>0. LocalsOK /\ VMOK /\ ThreadInv(t)
     BY Types, Zenon DEF SessionsInv
  <1>1. pc[t] = "evicted" /\ UNCHANGED <<req, sid, todo, ret, table, locks, jhiMutex, vm, alive>>
     BY Zenon DEF Evicted
  <1>2. CASE rc[t] # "SUCCESS"
     <2>1. LocalsOK' /\ \A u \in Threads \ {t} : Same(u)
        BY <1>0, <1>1, <1>2 DEF Evicted, Reply, Goto, LocalsOK, req, Same, PC, Codes
     <2>2. pc'[t] = "reply" /\ ret'[t] = ret[t]
        BY <1>0, <1>1, <1>2, Zenon DEF Evicted, Reply, Goto, LocalsOK
     <2> QED BY <1>0, <1>1, <2>1, <2>2, Replied, QuietStep, Zenon DEF req
  <1>3. CASE rc[t] = "SUCCESS"
     <2>1. LocalsOK' /\ \A u \in Threads \ {t} : Same(u)
        BY <1>0, <1>1, <1>3, Zenon DEF Evicted, Goto, LocalsOK, req, Same, PC
     <2>2. pc'[t] = "vmRetry" /\ ret'[t] = ret[t] /\ rc'[t] = rc[t]
        BY <1>0, <1>1, <1>3, Zenon DEF Evicted, Goto, LocalsOK
     <2>3. Position(t)'
        BY <1>0, <1>1, <1>3, <2>2, Zenon DEF ThreadInv, Position, Live, Shared, table, info, req
     <2>4. LockHeld(t)'
        BY <2>2, ZenonT(40) DEF LockHeld, Inside
     <2>5. EndKnown(t)'
        BY <2>2, Zenon DEF EndKnown
     <2>6. NoSharedYet(t)'
        BY <1>0, <1>1, <1>3, <2>2, Zenon DEF ThreadInv, NoSharedYet, Live, Shared, table, info, req
     <2>7. StaysUnowned(t)'
        BY <2>2, ZenonT(40) DEF StaysUnowned
     <2>8. ThreadInv(t)'
        BY <2>2, <2>3, <2>4, <2>5, <2>6, <2>7, Zenon DEF ThreadInv
     <2> QED BY <1>0, <1>1, <2>1, <2>2, <2>8, QuietStep, Zenon DEF req
  <1> QED BY <1>1, <1>2, <1>3, Zenon

\* Inductive step: ClearAppletSharedSession.
LEMMA ClearSharedStep == ASSUME SessionsInv, NEW t \in Threads, ClearShared(t) PROVE SessionsInv'
  <1>0. LocalsOK /\ VMOK /\ ThreadInv(t)
     BY Types, Zenon DEF SessionsInv
  <1>1. pc[t] = "clearShared" /\ UNCHANGED <<req, todo, rc, table, locks, jhiMutex, vm, alive>>
     BY Zenon DEF ClearShared
  <1>2. CASE ~AppletHasNonSharedSessions(app[t]) /\ SharedSessions(app[t]) \cap Unused # {}
     <2>0. PICK id \in SharedSessions(app[t]) \cap Unused : CallClose(t, id, "check")
        BY <1>0, <1>1, <1>2, Zenon DEF ClearShared
     <2>1. LocalsOK' /\ \A u \in Threads \ {t} : Same(u)
        BY <1>0, <1>1, <1>2, <2>0, Zenon DEF ClearShared, CallClose, Unused, Goto, LocalsOK, req, Same, PC
     <2>2. /\ pc'[t] = "cInfo" /\ sid'[t] = id /\ ret'[t] = "check" /\ rc'[t] = rc[t] /\ id \in Ids
        BY <1>0, <1>1, <1>2, <2>0, Zenon DEF ClearShared, CallClose, Unused, Goto, LocalsOK
     <2>3. Position(t)'
        BY <1>0, <1>1, <1>2, <2>0, <2>2, Zenon DEF ThreadInv, Position, Unused, Live, Shared, table, info, req
     <2>4. LockHeld(t)'
        BY <2>2, Zenon DEF LockHeld, Inside
     <2>5. EndKnown(t)'
        BY <2>2, Zenon DEF EndKnown
     <2>6. NoSharedYet(t)'
        BY <2>2, Zenon DEF NoSharedYet
     <2>7. StaysUnowned(t)'
        BY <1>0, <1>1, <1>2, <2>0, <2>2, ZenonT(40) DEF ThreadInv, StaysUnowned, Unused, Unowned, NoOwners, table, req
     <2>8. ThreadInv(t)'
        BY <2>2, <2>3, <2>4, <2>5, <2>6, <2>7, Zenon DEF ThreadInv
     <2> QED BY <1>0, <1>1, <2>1, <2>2, <2>8, QuietStep, Zenon DEF req
  <1>3. CASE AppletHasNonSharedSessions(app[t]) \/ SharedSessions(app[t]) \cap Unused = {}
     <2>1. LocalsOK' /\ \A u \in Threads \ {t} : Same(u)
        BY <1>0, <1>1, <1>3, Zenon DEF ClearShared, Goto, LocalsOK, req, Same, PC
     <2>2. pc'[t] = "check" /\ sid'[t] = sid[t] /\ ret'[t] = ret[t] /\ rc'[t] = rc[t]
        BY <1>0, <1>1, <1>3, Zenon DEF ClearShared, Goto, LocalsOK
     <2>3. Position(t)'
        BY <1>0, <1>1, <1>3, <2>2, Zenon DEF ThreadInv, Position, Live, Shared, table, info, req
     <2>4. LockHeld(t)'
        BY <2>2, Zenon DEF LockHeld, Inside
     <2>5. EndKnown(t)'
        BY <2>2, Zenon DEF EndKnown
     <2>6. NoSharedYet(t)'
        BY <2>2, Zenon DEF NoSharedYet
     <2>7. StaysUnowned(t)'
        BY <2>2, Zenon DEF StaysUnowned
     <2>8. ThreadInv(t)'
        BY <2>2, <2>3, <2>4, <2>5, <2>6, <2>7, Zenon DEF ThreadInv
     <2> QED BY <1>0, <1>1, <2>1, <2>2, <2>8, QuietStep, Zenon DEF req
  <1> QED BY <1>1, <1>2, <1>3, Zenon

\* Inductive step: hasLiveSessions before the unload.
LEMMA CheckStep == ASSUME SessionsInv, NEW t \in Threads, Check(t) PROVE SessionsInv'
  <1>0. LocalsOK /\ VMOK /\ ThreadInv(t)
     BY Types, Zenon DEF SessionsInv
  <1>1. pc[t] = "check" /\ UNCHANGED <<req, sid, todo, ret, table, locks, jhiMutex, vm, alive>>
     BY Zenon DEF Check
  <1>2. CASE hasLiveSessions(app[t])
     <2>1. LocalsOK' /\ \A u \in Threads \ {t} : Same(u)
        BY <1>0, <1>1, <1>2, Zenon DEF Check, Reply, Goto, LocalsOK, req, Same, PC, Codes
     <2>2. pc'[t] = "reply" /\ ret'[t] = ret[t]
        BY <1>0, <1>1, <1>2, Zenon DEF Check, Reply, Goto, LocalsOK
     <2> QED BY <1>0, <1>1, <2>1, <2>2, Replied, QuietStep, Zenon DEF req
  <1>3. CASE ~hasLiveSessions(app[t])
     <2>1. LocalsOK' /\ \A u \in Threads \ {t} : Same(u)
        BY <1>0, <1>1, <1>3, Zenon DEF Check, Goto, LocalsOK, req, Same, PC
     <2>2. pc'[t] = "unload" /\ ret'[t] = ret[t] /\ rc'[t] = rc[t]
        BY <1>0, <1>1, <1>3, Zenon DEF Check, Goto, LocalsOK
     <2>3. Position(t)'
        BY <1>0, <1>1, <1>3, <2>2, ZenonT(40) DEF ThreadInv, Position, Live, Shared, table, info, req
     <2>4. LockHeld(t)'
        BY <2>2, Zenon DEF LockHeld, Inside
     <2>5. EndKnown(t)'
        BY <2>2, Zenon DEF EndKnown
     <2>6. NoSharedYet(t)'
        BY <2>2, Zenon DEF NoSharedYet
     <2>7. StaysUnowned(t)'
        BY <2>2, ZenonT(40) DEF StaysUnowned
     <2>8. (pc[t] = "unload" => ~hasLiveSessions(app[t]))'
        BY <1>0, <1>1, <1>3, <2>2, Zenon DEF hasLiveSessions, Live, table, info, req
     <2> QED BY <1>0, <1>1, <2>1, <2>2, <2>3, <2>4, <2>5, <2>6, <2>7, <2>8, QuietStep, Zenon DEF ThreadInv, req
  <1> QED BY <1>1, <1>2, <1>3, Zenon

\* Inductive step: JHI_Plugin_UnloadApplet.
LEMMA UnloadStep == ASSUME SessionsInv, NEW t \in Threads, Unload(t) PROVE SessionsInv'
  <1>0. LocalsOK /\ VMOK /\ ThreadInv(t)
     BY Types, Zenon DEF SessionsInv
  <1>1. pc[t] = "unload" /\ UNCHANGED <<req, sid, todo, ret, table, locks, jhiMutex, vm, alive>>
     BY Zenon DEF Unload
  <1>2. CASE TRUE
     <2>1. LocalsOK' /\ \A u \in Threads \ {t} : Same(u)
        BY <1>0, <1>1, <1>2 DEF Unload, Reply, Goto, LocalsOK, req, Same, PC, Codes
     <2>2. pc'[t] = "reply" /\ ret'[t] = ret[t]
        BY <1>0, <1>1, <1>2, Zenon DEF Unload, Reply, Goto, LocalsOK
     <2> QED BY <1>0, <1>1, <2>1, <2>2, Replied, QuietStep, Zenon DEF req
  <1> QED BY <1>1, <1>2, Zenon

-----------------------------------------------------------------------------
(* Steps that change the session table or call the VM. *)

\* Inductive step: addSessionOwner.
LEMMA JoinStep == ASSUME SessionsInv, NEW t \in Threads, Join(t) PROVE SessionsInv'
  <1>0. LocalsOK /\ TableOK /\ VMOK /\ ThreadInv(t)
     BY Types, Zenon DEF SessionsInv
  <1>1. /\ pc[t] = "join" /\ sid[t] \in Ids /\ proc[t] \in Procs /\ cmd[t] # "sar"
        /\ UNCHANGED <<cmd, app, proc, sid, todo, ret, status, appId, flags, lastUsedTime,
                       sharedSessionLRUCounter, locks, jhiMutex, vm, alive>>
     BY <1>0, Zenon DEF Join, ThreadInv, Position, req, info
  <1>2. LocalsOK' /\ pc'[t] = "reply" /\ \A u \in Threads \ {t} : Same(u)
     BY <1>0, <1>1 DEF Join, Reply, Goto, LocalsOK, Same, PC, Codes
  <1>3. \/ UNCHANGED owners
        \/ owners' = [owners EXCEPT ![sid[t]][proc[t]] = @ + 1]
     BY Zenon DEF Join
  <1>4. /\ owners' \in [Ids -> [Procs -> Nat]]
        /\ \A id \in Ids : owners'[id] = NoOwners => Unowned(id)
     <2>1. CASE UNCHANGED owners
        BY <1>0, <2>1, Zenon DEF TableOK, Unowned, NoOwners
     <2>2. CASE owners' = [owners EXCEPT ![sid[t]][proc[t]] = @ + 1]
        <3>1. owners' \in [Ids -> [Procs -> Nat]]
           BY <1>0, <1>1, <2>2 DEF TableOK
        <3>2. owners'[sid[t]][proc[t]] > 0 /\ \A id \in Ids : id # sid[t] => owners'[id] = owners[id]
           BY <1>0, <1>1, <2>2 DEF TableOK
        <3>3. owners'[sid[t]] # NoOwners
           BY <1>1, <3>2 DEF NoOwners
        <3> QED BY <3>1, <3>2, <3>3, Zenon DEF Unowned
     <2> QED BY <1>3, <2>1, <2>2, Zenon
  <1>5. ThreadInv(t)'
     BY <1>0, <1>1, <1>2, Replied, Zenon
  <1>6. \A u \in Threads \ {t} : ThreadInv(u)'
     <2>1. Forward /\ \A u \in Threads \ {t} : KeepsLock(u)
        BY <1>1, Zenon DEF Forward, KeepsLock, locks, Live
     <2> QED BY <1>1, <1>2, <2>1, OthersSar, HoldsMutex, Zenon
  <1>7. TypeOK'
     <2>1. TableOK' /\ VMOK'
        BY <1>0, <1>1, <1>4, Zenon DEF TableOK, VMOK
     <2> QED BY <1>1, <1>2, <2>1, LocksKept, TypesAfter, Zenon
  <1>8. MutexHeld' /\ DepthCounts'
     BY <1>1, <1>2, MutexKept, LocksKept, Zenon
  <1>9. NoLostVMSession' /\ VMKnows' /\ OneSharedPerApplet' /\ sharedSessionLRUCounter' > 0
     BY <1>1, <1>2 DEF SessionsInv, NoLostVMSession, VMKnows, OneSharedPerApplet, SharedSessions,
                       Live, Shared, Same
  <1>10. StampsDistinct'
     BY <1>1, <1>4 DEF SessionsInv, StampsDistinct, Unused, Live, Shared, Unowned, NoOwners
  <1> QED BY <1>5, <1>6, <1>7, <1>8, <1>9, <1>10, Zenon DEF SessionsInv

\* Inductive step: SessionsManager::add.
LEMMA AddStep == ASSUME SessionsInv, NEW t \in Threads, Add(t) PROVE SessionsInv'
  <1>0. LocalsOK /\ TableOK /\ LocksOK /\ VMOK /\ ThreadInv(t)
     BY Types, Zenon DEF SessionsInv
  <1>1. /\ pc[t] = "add" /\ sid[t] \in Ids /\ proc[t] \in Procs /\ app[t] \in Apps /\ cmd[t] # "sar"
        /\ status[sid[t]] = "unused" /\ vm[sid[t]] \notin {"none", "leaked"}
        /\ UNCHANGED <<cmd, app, proc, sid, todo, ret, lastUsedTime, sharedSessionLRUCounter,
                       locks, jhiMutex, vm, alive>>
     BY <1>0, Zenon DEF Add, ThreadInv, Position, req
  <1>2. LocalsOK' /\ pc'[t] = "reply" /\ \A u \in Threads \ {t} : Same(u)
     BY <1>0, <1>1, Zenon DEF Add, Reply, Goto, LocalsOK, Same, PC, Codes
  <1>3. TableOK'
     BY <1>0, <1>1, Zenon DEF Add, TableOK, NoOwners
  <1>4. /\ status'[sid[t]] = "live" /\ appId'[sid[t]] = app[t]
        /\ flags'[sid[t]] = "shared" => cmd[t] = "createShared"
        /\ owners'[sid[t]][proc[t]] = 1
        /\ \A id \in Ids : id # sid[t] => /\ status'[id] = status[id] /\ appId'[id] = appId[id]
                                          /\ flags'[id] = flags[id] /\ owners'[id] = owners[id]
     BY <1>0, <1>1, Zenon DEF Add, TableOK, NoOwners
  <1>5. owners'[sid[t]] # NoOwners
     BY <1>1, <1>4 DEF NoOwners
  <1>6. ThreadInv(t)'
     BY <1>0, <1>1, <1>2, Replied, Zenon
  <1>7. \A u \in Threads \ {t} : ThreadInv(u)'
     <2>1. Forward /\ \A u \in Threads \ {t} : KeepsLock(u)
        BY <1>1, <1>4, Zenon DEF Forward, KeepsLock, locks, Live
     <2> QED BY <1>1, <1>2, <2>1, OthersSar, HoldsMutex, Zenon
  <1>8. TypeOK' /\ MutexHeld' /\ DepthCounts'
     <2>1. VMOK'
        BY <1>0, <1>1, Zenon DEF VMOK
     <2> QED BY <1>1, <1>2, <1>3, <2>1, LocksKept, TypesAfter, MutexKept, Zenon
  <1>9. NoLostVMSession'
     BY <1>1, <1>2, <1>4 DEF SessionsInv, NoLostVMSession, Live, Same
  <1>10. VMKnows' /\ sharedSessionLRUCounter' > 0
     BY <1>1, <1>4, Zenon DEF SessionsInv, VMKnows
  <1>11. OneSharedPerApplet'
     <2>1. \A id \in Ids : cmd[t] = "createShared" => ~(Live(id) /\ Shared(id) /\ appId[id] = app[t])
        BY <1>0, <1>1, Zenon DEF ThreadInv, NoSharedYet
     <2> QED BY <1>1, <1>4, <2>1 DEF SessionsInv, OneSharedPerApplet, SharedSessions, Live, Shared
  <1>12. StampsDistinct'
     BY <1>1, <1>4, <1>5 DEF SessionsInv, StampsDistinct, Unused, Live, Shared, Unowned, NoOwners
  <1> QED BY <1>6, <1>7, <1>8, <1>9, <1>10, <1>11, <1>12, Zenon DEF SessionsInv

\* Inductive step: the decision in jhis_close_session and removeSessionOwner.
LEMMA CloseCountStep == ASSUME SessionsInv, NEW t \in Threads, CloseCount(t) PROVE SessionsInv'
  <1>0. LocalsOK /\ TableOK /\ VMOK /\ ThreadInv(t)
     BY Types, Zenon DEF SessionsInv
  <1>1. /\ pc[t] = "cCount" /\ ret[t] = "reply" /\ cmd[t] # "sar"
        /\ sid[t] \in Ids /\ proc[t] \in Procs
        /\ UNCHANGED <<req, sid, todo, status, info, locks, jhiMutex, vm, alive>>
     BY <1>0, Zenon DEF CloseCount, ThreadInv, Position
  <1>2. CASE ~Forced(t) /\ ~Live(sid[t]) /\ Return(t, "SUCCESS")
             /\ UNCHANGED <<owners, lastUsedTime, sharedSessionLRUCounter>>
     <2>1. UNCHANGED table
        BY <1>1, <1>2, Zenon DEF table
     <2> QED BY <1>0, <1>1, <1>2, <2>1, Returned, NothingShrinks, QuietStep, Zenon DEF req, Codes
  <1>3. CASE /\ Goto(t, IF Forced(t) THEN "cHandle" ELSE "cLock")
             /\ UNCHANGED <<ret, rc, owners, lastUsedTime, sharedSessionLRUCounter>>
     <2>1. LocalsOK' /\ \A u \in Threads \ {t} : Same(u)
        BY <1>0, <1>1, <1>3, Zenon DEF Goto, LocalsOK, req, Same, PC
     <2>2. /\ pc'[t] = IF Forced(t) THEN "cHandle" ELSE "cLock"
           /\ ret'[t] = "reply" /\ rc'[t] = rc[t] /\ cmd'[t] = cmd[t]
        BY <1>0, <1>1, <1>3, Zenon DEF Goto, LocalsOK, req
     <2>3. Position(t)'
        BY <1>0, <1>1, <2>2, Zenon DEF ThreadInv, Position, req
     <2>4. LockHeld(t)' /\ EndKnown(t)'
        BY <1>1, <2>2, Zenon DEF LockHeld, EndKnown, Inside, Forced
     <2>5. NoSharedYet(t)' /\ StaysUnowned(t)'
        BY <2>2, Zenon DEF NoSharedYet, StaysUnowned
     <2>6. ThreadInv(t)'
        BY <2>2, <2>3, <2>4, <2>5, Zenon DEF ThreadInv
     <2>7. UNCHANGED table
        BY <1>1, <1>3, Zenon DEF table
     <2> QED BY <1>1, <2>1, <2>2, <2>6, <2>7, QuietStep, Zenon DEF req
  <1>4. CASE Live(sid[t]) /\ removeSessionOwner(sid[t], proc[t]) /\ Return(t, "SUCCESS")
     <2> DEFINE id == sid[t]
                left == [owners[id] EXCEPT ![proc[t]] = @ - 1]
     <2>1. owners[id] \in [Procs -> Nat] /\ owners[id][proc[t]] > 0
        BY <1>0, <1>1, <1>4, Zenon DEF TableOK, ThreadInv, Position
     <2>2. left \in [Procs -> Nat] /\ owners' = [owners EXCEPT ![id] = left]
        BY <1>1, <1>4, <2>1 DEF removeSessionOwner
     <2>3. /\ owners' \in [Ids -> [Procs -> Nat]] /\ owners'[id] = left
           /\ \A i \in Ids : i # id => owners'[i] = owners[i]
        BY <1>0, <1>1, <2>2, Zenon DEF TableOK
     <2>4. ~Unowned(id)
        BY <1>1, <2>1 DEF Unowned, NoOwners
     <2>5. Forward /\ Shrinks
        BY <1>0, <1>1, <2>3, <2>4, Zenon DEF Forward, Shrinks, info, Live, Unowned
     <2>6. /\ LocalsOK' /\ ThreadInv(t)' /\ pc'[t] # "idle"
           /\ \A u \in Threads \ {t} : Same(u)
        BY <1>0, <1>1, <1>4, <2>5, Returned, Zenon DEF Codes
     <2>7. \A u \in Threads \ {t} : ThreadInv(u)'
        <3>1. \A u \in Threads \ {t} : KeepsLock(u)
           BY <1>1, Zenon DEF KeepsLock, locks, Live
        <3> QED BY <1>1, <2>5, <2>6, <3>1, OthersSar, HoldsMutex, Zenon
     <2>8. \/ /\ Shared(id) /\ left = NoOwners
              /\ lastUsedTime' = [lastUsedTime EXCEPT ![id] = sharedSessionLRUCounter]
              /\ sharedSessionLRUCounter' = sharedSessionLRUCounter + 1
           \/ ~(Shared(id) /\ left = NoOwners) /\ UNCHANGED <<lastUsedTime, sharedSessionLRUCounter>>
        BY <1>4, Zenon DEF removeSessionOwner, updateSessionLastUsage
     <2>9. TypeOK'
        <3>0. lastUsedTime' \in [Ids -> Nat] /\ sharedSessionLRUCounter' \in Nat
           <4> HIDE DEF left
           <4> QED BY <1>0, <1>1, <2>8 DEF TableOK
        <3>1. TableOK'
           BY <1>0, <1>1, <2>3, <3>0, Zenon DEF TableOK, info
        <3>2. VMOK'
           BY <1>0, <1>1, Zenon DEF VMOK
        <3> QED BY <1>1, <2>6, <3>1, <3>2, LocksKept, TypesAfter, Zenon
     <2>10. MutexHeld' /\ DepthCounts'
        BY <1>1, <2>6, MutexKept, LocksKept, Zenon DEF req
     <2>11. NoLostVMSession'
        BY <1>1, <2>6 DEF SessionsInv, NoLostVMSession, Live, Same
     <2>12. VMKnows' /\ OneSharedPerApplet'
        BY <1>1 DEF SessionsInv, VMKnows, OneSharedPerApplet, SharedSessions, Live, Shared, info
     <2>13. sharedSessionLRUCounter \in Nat /\ sharedSessionLRUCounter > 0 /\ StampsDistinct
        BY <1>0, Zenon DEF SessionsInv, TableOK
     <2>14. sharedSessionLRUCounter' > 0
        BY <2>8, <2>13
     <2>15. StampsDistinct'
        <3>1. CASE Shared(id) /\ left = NoOwners
           <4>1. \A i \in Unused' : i \in Unused \/ i = id
              BY <1>1, <2>3, Zenon DEF Unused, Live, Shared, Unowned, NoOwners, info
           <4>2. /\ lastUsedTime'[id] = sharedSessionLRUCounter /\ id \notin Unused
                 /\ \A i \in Unused : i \in Ids /\ lastUsedTime'[i] = lastUsedTime[i]
                 /\ sharedSessionLRUCounter' = sharedSessionLRUCounter + 1
                 /\ \A i \in Ids : lastUsedTime[i] \in Nat
              BY <1>0, <1>1, <2>4, <2>8, <3>1, Zenon DEF TableOK, Unused
           <4> QED BY <2>13, <4>1, <4>2 DEF StampsDistinct
        <3>2. CASE ~(Shared(id) /\ left = NoOwners)
           <4>1. Unused' \subseteq Unused
              BY <1>1, <2>3, <3>2 DEF Unused, Live, Shared, Unowned, NoOwners, info
           <4> QED BY <2>8, <2>13, <3>2, <4>1, Zenon DEF StampsDistinct
        <3> QED BY <3>1, <3>2, Zenon
     <2> QED BY <2>6, <2>7, <2>9, <2>10, <2>11, <2>12, <2>14, <2>15, Zenon DEF SessionsInv
  <1> QED BY <1>2, <1>3, <1>4, Zenon DEF CloseCount

\* Inductive step: JHI_Plugin_CreateSession.
LEMMA VMCreateStep == ASSUME SessionsInv, NEW t \in Threads, VMCreate(t) PROVE SessionsInv'
  <1>0. LocalsOK /\ TableOK /\ VMOK /\ ThreadInv(t)
     BY Types, Zenon DEF SessionsInv
  <1>1. /\ pc[t] \in {"vmCreate", "vmRetry"} /\ cmd[t] # "sar" /\ ret[t] = "reply"
        /\ UNCHANGED <<cmd, app, proc, todo, ret, table, locks, jhiMutex, alive>>
     BY <1>0, Zenon DEF VMCreate, ThreadInv, Position, req
  <1>2. CASE UNCHANGED <<vm, sid>> /\ \E code \in Codes : Reply(t, code)
     <2>1. LocalsOK' /\ \A u \in Threads \ {t} : Same(u)
        BY <1>0, <1>1, <1>2 DEF Reply, Goto, LocalsOK, Same, PC
     <2>2. pc'[t] = "reply"
        BY <1>0, <1>2, Zenon DEF Reply, Goto, LocalsOK
     <2> QED BY <1>0, <1>1, <1>2, <2>1, <2>2, Replied, QuietStep, Zenon
  <1>3. CASE UNCHANGED <<vm, sid, rc>> /\ Goto(t, "evict")
     <2>1. LocalsOK' /\ \A u \in Threads \ {t} : Same(u)
        BY <1>0, <1>1, <1>3, Zenon DEF Goto, LocalsOK, Same, PC
     <2>2. pc'[t] = "evict" /\ ret'[t] = "reply"
        BY <1>0, <1>1, <1>3, Zenon DEF Goto, LocalsOK
     <2>3. Position(t)'
        BY <1>0, <1>1, <2>2, Zenon DEF ThreadInv, Position
     <2>4. LockHeld(t)' /\ EndKnown(t)' /\ StaysUnowned(t)'
        BY <2>2, Zenon DEF LockHeld, EndKnown, StaysUnowned, Inside
     <2>5. NoSharedYet(t)'
        BY <1>0, <1>1, <2>2, Zenon DEF ThreadInv, NoSharedYet, Live, Shared, table, info
     <2>6. ThreadInv(t)'
        BY <2>2, <2>3, <2>4, <2>5, Zenon DEF ThreadInv
     <2> QED BY <1>1, <1>3, <2>1, <2>2, <2>6, QuietStep, Zenon
  <1>4. ASSUME NEW id \in Ids, vm[id] = "none",
               \/ /\ vm' = [vm EXCEPT ![id] = "open"] /\ sid' = [sid EXCEPT ![t] = id]
                  /\ Goto(t, "add") /\ UNCHANGED rc
               \/ /\ vm' = [vm EXCEPT ![id] = "leaked"] /\ Reply(t, "INTERNAL_ERROR")
                  /\ UNCHANGED sid
        PROVE SessionsInv'
     <2>1. LocalsOK' /\ \A u \in Threads \ {t} : Same(u)
        BY <1>0, <1>1, <1>4 DEF Reply, Goto, LocalsOK, Same, PC, Codes
     <2>2. /\ VMOK' /\ vm'[id] \in {"open", "leaked"} /\ status[id] = "unused"
           /\ \A i \in Ids : i # id => vm'[i] = vm[i]
           /\ vm'[id] = "open" => pc'[t] = "add" /\ sid'[t] = id
           /\ pc'[t] \in {"add", "reply"} /\ ret'[t] = "reply"
           /\ pc'[t] = "add" => sid'[t] = id /\ vm'[id] = "open"
        <3>1. status[id] = "unused"
           BY <1>4, Zenon DEF SessionsInv, VMKnows
        <3>2. /\ VMOK' /\ \A i \in Ids : i # id => vm'[i] = vm[i]
           BY <1>0, <1>1, <1>4, Zenon DEF VMOK, VMStates
        <3>3. CASE /\ vm' = [vm EXCEPT ![id] = "open"] /\ sid' = [sid EXCEPT ![t] = id]
                   /\ Goto(t, "add")
           BY <1>0, <1>1, <3>1, <3>2, <3>3, Zenon DEF VMOK, LocalsOK, Goto
        <3>4. CASE vm' = [vm EXCEPT ![id] = "leaked"] /\ Reply(t, "INTERNAL_ERROR")
           BY <1>0, <1>1, <3>1, <3>2, <3>4, Zenon DEF VMOK, LocalsOK, Goto, Reply
        <3> QED BY <1>4, <3>3, <3>4, Zenon
     <2>3. ThreadInv(t)'
        <3>1. CASE pc'[t] = "reply"
           BY <1>0, <1>1, <2>2, <3>1, Replied, Zenon
        <3>2. CASE pc'[t] = "add"
           <4>1. Position(t)'
              BY <1>0, <1>1, <2>2, <3>2, Zenon DEF ThreadInv, Position, table
           <4>2. LockHeld(t)' /\ EndKnown(t)' /\ StaysUnowned(t)'
              BY <2>2, <3>2, Zenon DEF LockHeld, EndKnown, StaysUnowned, Inside
           <4>3. NoSharedYet(t)'
              BY <1>0, <1>1, <3>2, <2>2, Zenon DEF ThreadInv, NoSharedYet, Live, Shared, table, info
           <4> QED BY <3>2, <4>1, <4>2, <4>3, Zenon DEF ThreadInv
        <3> QED BY <2>2, <3>1, <3>2, Zenon
     <2>4. \A u \in Threads \ {t} : ThreadInv(u)'
        <3>1. Forward /\ \A u \in Threads \ {t} : KeepsLock(u)
           BY <1>1, <2>2, Zenon DEF Forward, KeepsLock, locks, table, Live
        <3> QED BY <1>1, <2>1, <3>1, OthersSar, HoldsMutex, Zenon
     <2>5. TypeOK' /\ MutexHeld' /\ DepthCounts'
        <3>1. TableOK'
           BY <1>0, <1>1, Zenon DEF TableOK, table, info
        <3> QED BY <1>1, <2>1, <2>2, <3>1, TypesAfter, LocksKept, MutexKept, Zenon
     <2>6. NoLostVMSession'
        <3> SUFFICES ASSUME NEW i \in Ids, vm'[i] = "open"
                     PROVE status'[i] = "live" \/ \E u \in Threads : pc'[u] = "add" /\ sid'[u] = i
           BY Zenon DEF NoLostVMSession, Live
        <3>1. CASE i = id
           BY <2>2, <3>1, Zenon
        <3>2. CASE i # id
           <4>1. Live(i) \/ \E u \in Threads \ {t} : pc[u] = "add" /\ sid[u] = i
              BY <1>1, <2>2, <3>2, Zenon DEF SessionsInv, NoLostVMSession
           <4> QED BY <1>1, <2>1, <4>1, Zenon DEF Live, Same, table
        <3> QED BY <3>1, <3>2, Zenon
     <2>7. VMKnows' /\ sharedSessionLRUCounter' > 0
        BY <1>1, <2>2, Zenon DEF SessionsInv, VMKnows, table
     <2>8. OneSharedPerApplet' /\ StampsDistinct'
        BY <1>1, TableKept, Zenon DEF SessionsInv
     <2> QED BY <2>3, <2>4, <2>5, <2>6, <2>7, <2>8, Zenon DEF SessionsInv
  <1> QED BY <1>2, <1>3, <1>4, Zenon DEF VMCreate, Codes

\* A VM session ends or is given up; thread t has seen it, or no thread has (t = None).
\* GivenUp is what may become of the VM sessions in such a step.
GivenUp == \A id \in Ids :
    vm'[id] = vm[id] \/ (vm[id] \in {"open", "misread"} /\ vm'[id] \in {"dead", "forgotten", "misread"})
LEMMA VMEnds ==
  ASSUME SessionsInv, LocalsOK', VMOK', MutexHeld', UNCHANGED <<table, locks, jhiMutex>>,
         GivenUp, NEW t \in Threads \cup {None}, \A u \in Threads \ {t} : Same(u),
         t \in Threads => pc[t] # "add" /\ ThreadInv(t)'
  PROVE SessionsInv'
  <1>0. LocalsOK /\ TableOK
     BY Types, Zenon DEF SessionsInv
  <1>6. \A id \in Ids : vm'[id] = "open" => vm[id] = "open"
     BY Zenon DEF GivenUp
  <1>7. \A id \in Ids : vm[id] \in {"none", "leaked"} <=> vm'[id] \in {"none", "leaked"}
     BY Zenon DEF GivenUp
  <1>1. ASSUME NEW u \in Threads, u # t PROVE ThreadInv(u)'
     <2>1. Forward /\ Shrinks /\ KeepsLock(u)
        BY <1>6, <1>7, Zenon DEF Forward, Shrinks, KeepsLock, Live, Unowned, NoOwners, locks, table, info
     <2>2. Same(u) /\ ThreadInv(u) /\ UNCHANGED owners
        BY <1>1, Zenon DEF SessionsInv, table
     <2> QED BY <1>0, <2>1, <2>2, FrameAny, Zenon
  <1>2. TypeOK' /\ DepthCounts'
     <2>1. TableOK'
        BY <1>0, Zenon DEF TableOK, table, info
     <2> QED BY <2>1, LocksKept, TypesAfter, Zenon
  <1>3. NoLostVMSession'
     <2>1. \A id \in Ids : vm'[id] = "open" => vm[id] = "open" /\ (Live(id) => status'[id] = "live")
        BY <1>6, Zenon DEF Live, table
     <2>2. NoLostVMSession /\ (t \in Threads => pc[t] # "add")
        BY Zenon DEF SessionsInv
     <2> QED BY <2>1, <2>2, KnownStays, Zenon
  <1>4. VMKnows' /\ sharedSessionLRUCounter' > 0
     BY <1>7, Zenon DEF SessionsInv, VMKnows, table
  <1>5. OneSharedPerApplet' /\ StampsDistinct'
     BY TableKept, Zenon DEF SessionsInv
  <1> QED BY <1>1, <1>2, <1>3, <1>4, <1>5, Zenon DEF SessionsInv

\* Inductive step: JHI_Plugin_CloseSession or JHI_Plugin_ForceCloseSession.
LEMMA CloseVMStep == ASSUME SessionsInv, NEW t \in Threads, CloseVM(t) PROVE SessionsInv'
  <1>0. LocalsOK /\ VMOK /\ ThreadInv(t)
     BY Types, Zenon DEF SessionsInv
  <1>1. /\ pc[t] = "cVM" /\ sid[t] \in Ids
        /\ UNCHANGED <<cmd, app, proc, sid, todo, ret, table, locks, jhiMutex, alive>>
     BY <1>0, Zenon DEF CloseVM, ThreadInv, Position, req
  <1>2. LocalsOK' /\ \A u \in Threads \ {t} : Same(u)
     BY <1>0, <1>1 DEF CloseVM, Goto, LocalsOK, Same, PC, Codes
  <1>3. pc'[t] = IF Forced(t) THEN "cLock" ELSE "cFinish"
     BY <1>0, Zenon DEF CloseVM, Goto, LocalsOK
  <1>4. VMOK' /\ GivenUp /\ (rc'[t] \in Ended => vm'[sid[t]] # "open")
     <2>1. CASE \E v \in {"dead", "forgotten"} :
                   vm[sid[t]] \in {"open", "misread"} /\ vm' = [vm EXCEPT ![sid[t]] = v]
        BY <1>0, <1>1, <2>1, Zenon DEF VMOK, VMStates, GivenUp
     <2>2. CASE UNCHANGED vm /\ (rc'[t] \in Ended => vm[sid[t]] # "open")
        BY <1>0, <1>1, <2>2, Zenon DEF VMOK, GivenUp
     <2> QED BY <1>0, <2>1, <2>2, Zenon DEF CloseVM, LocalsOK, Ended
  <1>5. ThreadInv(t)'
     <2>1. Position(t)'
        BY <1>0, <1>1, <1>3, Zenon DEF ThreadInv, Position, table
     <2>2. LockHeld(t)'
        BY <1>0, <1>1, <1>3, Zenon DEF ThreadInv, LockHeld, Inside, Live, table, locks, Forced
     <2>3. EndKnown(t)'
        BY <1>0, <1>1, <1>3, <1>4, Zenon DEF ThreadInv, EndKnown, GivenUp
     <2>4. NoSharedYet(t)' /\ StaysUnowned(t)'
        BY <1>0, <1>1, <1>3, Zenon DEF ThreadInv, NoSharedYet, StaysUnowned, Live, Shared, Unowned, NoOwners, table, info
     <2> QED BY <1>3, <2>1, <2>2, <2>3, <2>4, Zenon DEF ThreadInv
  <1>6. MutexHeld'
     BY <1>1, <1>2, <1>3, MutexKept, Zenon
  <1> QED BY <1>1, <1>2, <1>3, <1>4, <1>5, <1>6, VMEnds, Zenon

\* Inductive step: an applet crashes.
LEMMA AppletDiesStep == ASSUME SessionsInv, NEW id \in Ids, AppletDies(id) PROVE SessionsInv'
  <1>0. LocalsOK /\ VMOK /\ MutexHeld
     BY Types, Zenon DEF SessionsInv
  <1>1. LocalsOK' /\ MutexHeld' /\ \A u \in Threads \ {None} : Same(u)
     BY <1>0, Zenon DEF AppletDies, LocalsOK, MutexHeld, Same, thread, req
  <1>2. VMOK' /\ GivenUp
     BY <1>0, Zenon DEF AppletDies, VMOK, VMStates, GivenUp
  <1>3. UNCHANGED <<table, locks, jhiMutex>>
     BY Zenon DEF AppletDies
  <1> QED BY <1>1, <1>2, <1>3, VMEnds, SessionsAssumption, Zenon

\* Inductive step: a client process ends.
LEMMA ProcessDiesStep == ASSUME SessionsInv, NEW p \in Procs, ProcessDies(p) PROVE SessionsInv'
  <1>0. LocalsOK /\ VMOK /\ MutexHeld
     BY Types, Zenon DEF SessionsInv
  <1>1. LocalsOK' /\ MutexHeld' /\ \A u \in Threads \ {None} : Same(u)
     BY <1>0, Zenon DEF ProcessDies, LocalsOK, MutexHeld, Same, thread, req
  <1>2. VMOK' /\ GivenUp
     BY <1>0, Zenon DEF ProcessDies, VMOK, GivenUp
  <1>3. UNCHANGED <<table, locks, jhiMutex>>
     BY Zenon DEF ProcessDies
  <1> QED BY <1>1, <1>2, <1>3, VMEnds, SessionsAssumption, Zenon

-----------------------------------------------------------------------------
(* Steps of jhis_close_session and SendAndReceive that only move the thread. *)

\* Each thread-local step in turn.
LEMMA CloseInfoStep == ASSUME SessionsInv, NEW t \in Threads, CloseInfo(t) PROVE SessionsInv'
  <1>0. LocalsOK /\ VMOK /\ ThreadInv(t)
     BY Types, Zenon DEF SessionsInv
  <1>1. UNCHANGED <<req, sid, todo, table, locks, jhiMutex, vm, alive>> /\ pc[t] = "cInfo"
     BY Zenon DEF CloseInfo
  <1>2. CASE ~Live(sid[t])
     <2>1. Return(t, "INVALID_SESSION_HANDLE")
        BY <1>2, Zenon DEF CloseInfo
     <2> QED BY <1>0, <1>1, <2>1, Returned, NothingShrinks, QuietStep, Zenon DEF req, Codes
  <1>3. CASE Live(sid[t])
     <2>1. LocalsOK' /\ \A u \in Threads \ {t} : Same(u)
        BY <1>0, <1>1, <1>3, Zenon DEF CloseInfo, Goto, LocalsOK, req, Same, PC
     <2>2. /\ pc'[t] = IF Nested(t) THEN "cLock" ELSE "cOwner"
           /\ ret'[t] = ret[t] /\ rc'[t] = rc[t]
        BY <1>0, <1>3, Zenon DEF CloseInfo, Goto, LocalsOK
     <2>3. Position(t)'
        BY <1>0, <1>1, <2>2, Zenon DEF ThreadInv, Position, req, table, Nested
     <2>4. LockHeld(t)' /\ EndKnown(t)'
        BY <1>0, <1>1, <2>2, Zenon DEF ThreadInv, LockHeld, EndKnown, Inside, Forced, Nested, Live, locks, table, req, RemoveFromVM
     <2>5. NoSharedYet(t)' /\ StaysUnowned(t)'
        BY <1>0, <1>1, <2>2, Zenon DEF ThreadInv, NoSharedYet, StaysUnowned, Live, Shared, Unowned, NoOwners, table, info, req, Nested
     <2>6. ThreadInv(t)'
        BY <2>2, <2>3, <2>4, <2>5, Zenon DEF ThreadInv
     <2> QED BY <1>1, <2>1, <2>2, <2>6, QuietStep, Zenon DEF req
  <1> QED BY <1>2, <1>3, Zenon

\* Inductive step: isSessionOwnerValid.
LEMMA CloseOwnerStep == ASSUME SessionsInv, NEW t \in Threads, CloseOwner(t) PROVE SessionsInv'
  <1>0. LocalsOK /\ VMOK /\ ThreadInv(t)
     BY Types, Zenon DEF SessionsInv
  <1>1. pc[t] = "cOwner" /\ UNCHANGED <<req, sid, todo, table, locks, jhiMutex, vm, alive>>
     BY Zenon DEF CloseOwner
  <1>2. CASE ~(Live(sid[t]) /\ owners[sid[t]][proc[t]] > 0)
     <2>1. Return(t, "INTERNAL_ERROR")
        BY <1>1, <1>2, Zenon DEF CloseOwner
     <2> QED BY <1>0, <1>1, <2>1, Returned, NothingShrinks, QuietStep, Zenon DEF req, Codes, LocalsOK
  <1>3. CASE Live(sid[t]) /\ owners[sid[t]][proc[t]] > 0
     <2>1. LocalsOK' /\ \A u \in Threads \ {t} : Same(u)
        BY <1>0, <1>1, <1>3, Zenon DEF CloseOwner, Goto, LocalsOK, req, Same, PC
     <2>2. pc'[t] = "cCount" /\ ret'[t] = ret[t] /\ rc'[t] = rc[t]
        BY <1>0, <1>1, <1>3, Zenon DEF CloseOwner, Goto, LocalsOK
     <2>3. Position(t)'
        BY <1>0, <1>1, <1>3, <2>2, Zenon DEF ThreadInv, Position, Live, Shared, table, info, req
     <2>4. LockHeld(t)'
        BY <1>0, <1>1, <1>3, <2>2, Zenon DEF ThreadInv, LockHeld, Inside, Forced, Live, locks, table, req
     <2>5. EndKnown(t)'
        BY <1>0, <1>1, <1>3, <2>2, Zenon DEF ThreadInv, EndKnown, Forced, RemoveFromVM, req
     <2>6. NoSharedYet(t)'
        BY <1>0, <1>1, <1>3, <2>2, Zenon DEF ThreadInv, NoSharedYet, Live, Shared, table, info, req
     <2>7. StaysUnowned(t)'
        BY <1>0, <1>1, <1>3, <2>2, Zenon DEF ThreadInv, StaysUnowned, Unowned, NoOwners, table, req
     <2>8. ThreadInv(t)'
        BY <2>2, <2>3, <2>4, <2>5, <2>6, <2>7, Zenon DEF ThreadInv
     <2> QED BY <1>0, <1>1, <2>1, <2>2, <2>8, QuietStep, Zenon DEF req
  <1> QED BY <1>1, <1>2, <1>3, Zenon

\* Inductive step: the first half of GetSessionLock in jhis_close_session.
LEMMA CloseLockStep == ASSUME SessionsInv, NEW t \in Threads, CloseLock(t) PROVE SessionsInv'
  <1>0. LocalsOK /\ VMOK /\ ThreadInv(t)
     BY Types, Zenon DEF SessionsInv
  <1>1. pc[t] = "cLock" /\ UNCHANGED <<req, sid, todo, table, locks, jhiMutex, vm, alive>>
     BY Zenon DEF CloseLock
  <1>2. CASE ~Live(sid[t])
     <2>1. Return(t, IF Forced(t) THEN rc[t] ELSE "INVALID_SESSION_HANDLE")
        BY <1>1, <1>2, Zenon DEF CloseLock, LockFailed
     <2> QED BY <1>0, <1>1, <2>1, Returned, NothingShrinks, QuietStep, Zenon DEF req, Codes, LocalsOK
  <1>3. CASE Live(sid[t])
     <2>1. LocalsOK' /\ \A u \in Threads \ {t} : Same(u)
        BY <1>0, <1>1, <1>3, Zenon DEF CloseLock, Goto, LocalsOK, req, Same, PC
     <2>2. pc'[t] = "cWait" /\ ret'[t] = ret[t] /\ rc'[t] = rc[t]
        BY <1>0, <1>1, <1>3, Zenon DEF CloseLock, Goto, LocalsOK
     <2>3. Position(t)'
        BY <1>0, <1>1, <1>3, <2>2, Zenon DEF ThreadInv, Position, Live, Shared, table, info, req
     <2>4. LockHeld(t)'
        BY <1>0, <1>1, <1>3, <2>2, Zenon DEF ThreadInv, LockHeld, Inside, Forced, Live, locks, table, req
     <2>5. EndKnown(t)'
        BY <1>0, <1>1, <1>3, <2>2, Zenon DEF ThreadInv, EndKnown, Forced, RemoveFromVM, req
     <2>6. NoSharedYet(t)'
        BY <1>0, <1>1, <1>3, <2>2, Zenon DEF ThreadInv, NoSharedYet, Live, Shared, table, info, req
     <2>7. StaysUnowned(t)'
        BY <1>0, <1>1, <1>3, <2>2, Zenon DEF ThreadInv, StaysUnowned, Unowned, NoOwners, table, req
     <2>8. ThreadInv(t)'
        BY <2>2, <2>3, <2>4, <2>5, <2>6, <2>7, Zenon DEF ThreadInv
     <2> QED BY <1>0, <1>1, <2>1, <2>2, <2>8, QuietStep, Zenon DEF req
  <1> QED BY <1>1, <1>2, <1>3, Zenon

\* Inductive step: getVMSessionHandle.
LEMMA CloseHandleStep == ASSUME SessionsInv, NEW t \in Threads, CloseHandle(t) PROVE SessionsInv'
  <1>0. LocalsOK /\ VMOK /\ ThreadInv(t)
     BY Types, Zenon DEF SessionsInv
  <1>1. pc[t] = "cHandle" /\ UNCHANGED <<req, sid, todo, table, locks, jhiMutex, vm, alive>>
     BY Zenon DEF CloseHandle
  <1>2. CASE ~Live(sid[t])
     <2>1. Return(t, "INTERNAL_ERROR")
        BY <1>1, <1>2, Zenon DEF CloseHandle
     <2> QED BY <1>0, <1>1, <2>1, Returned, NothingShrinks, QuietStep, Zenon DEF req, Codes, LocalsOK
  <1>3. CASE Live(sid[t])
     <2>1. LocalsOK' /\ \A u \in Threads \ {t} : Same(u)
        BY <1>0, <1>1, <1>3, Zenon DEF CloseHandle, Goto, LocalsOK, req, Same, PC
     <2>2. pc'[t] = "cVM" /\ ret'[t] = ret[t] /\ rc'[t] = rc[t]
        BY <1>0, <1>1, <1>3, Zenon DEF CloseHandle, Goto, LocalsOK
     <2>3. Position(t)'
        BY <1>0, <1>1, <1>3, <2>2, Zenon DEF ThreadInv, Position, Live, Shared, table, info, req
     <2>4. LockHeld(t)'
        BY <1>0, <1>1, <1>3, <2>2, Zenon DEF ThreadInv, LockHeld, Inside, Forced, Live, locks, table, req
     <2>5. EndKnown(t)'
        BY <1>0, <1>1, <1>3, <2>2, Zenon DEF ThreadInv, EndKnown, Forced, RemoveFromVM, req
     <2>6. NoSharedYet(t)'
        BY <1>0, <1>1, <1>3, <2>2, Zenon DEF ThreadInv, NoSharedYet, Live, Shared, table, info, req
     <2>7. StaysUnowned(t)'
        BY <1>0, <1>1, <1>3, <2>2, Zenon DEF ThreadInv, StaysUnowned, Unowned, NoOwners, table, req
     <2>8. ThreadInv(t)'
        BY <2>2, <2>3, <2>4, <2>5, <2>6, <2>7, Zenon DEF ThreadInv
     <2> QED BY <1>0, <1>1, <2>1, <2>2, <2>8, QuietStep, Zenon DEF req
  <1> QED BY <1>1, <1>2, <1>3, Zenon

\* Inductive step: the first half of GetSessionLock in jhis_txrx_raw.
LEMMA SarLockStep == ASSUME SessionsInv, NEW t \in Threads, SarLock(t) PROVE SessionsInv'
  <1>0. LocalsOK /\ VMOK /\ ThreadInv(t)
     BY Types, Zenon DEF SessionsInv
  <1>1. pc[t] = "sLock" /\ UNCHANGED <<req, sid, todo, ret, table, locks, jhiMutex, vm, alive>>
     BY Zenon DEF SarLock
  <1>2. CASE ~Live(sid[t])
     <2>1. LocalsOK' /\ \A u \in Threads \ {t} : Same(u)
        BY <1>0, <1>1, <1>2, Zenon DEF SarLock, Reply, Goto, LocalsOK, req, Same, PC, Codes
     <2>2. pc'[t] = "reply" /\ ret'[t] = ret[t]
        BY <1>0, <1>1, <1>2, Zenon DEF SarLock, Reply, Goto, LocalsOK
     <2> QED BY <1>0, <1>1, <2>1, <2>2, Replied, QuietStep, Zenon DEF req
  <1>3. CASE Live(sid[t])
     <2>1. LocalsOK' /\ \A u \in Threads \ {t} : Same(u)
        BY <1>0, <1>1, <1>3, Zenon DEF SarLock, Goto, LocalsOK, req, Same, PC
     <2>2. pc'[t] = "sWait" /\ ret'[t] = ret[t] /\ rc'[t] = rc[t]
        BY <1>0, <1>1, <1>3, Zenon DEF SarLock, Goto, LocalsOK
     <2>3. Position(t)'
        BY <1>0, <1>1, <1>3, <2>2, Zenon DEF ThreadInv, Position, Live, Shared, table, info, req
     <2>4. LockHeld(t)'
        BY <2>2, Zenon DEF LockHeld, Inside
     <2>5. EndKnown(t)'
        BY <2>2, Zenon DEF EndKnown
     <2>6. NoSharedYet(t)'
        BY <2>2, Zenon DEF NoSharedYet
     <2>7. StaysUnowned(t)'
        BY <2>2, ZenonT(40) DEF StaysUnowned
     <2>8. ThreadInv(t)'
        BY <2>2, <2>3, <2>4, <2>5, <2>6, <2>7, Zenon DEF ThreadInv
     <2> QED BY <1>0, <1>1, <2>1, <2>2, <2>8, QuietStep, Zenon DEF req
  <1> QED BY <1>1, <1>2, <1>3, ZenonT(40)

\* Inductive step: JHI_Plugin_SendAndRecv answers.
LEMMA SarVMStep == ASSUME SessionsInv, NEW t \in Threads, SarVM(t) PROVE SessionsInv'
  <1>0. LocalsOK /\ VMOK /\ ThreadInv(t)
     BY Types, Zenon DEF SessionsInv
  <1>1. pc[t] = "sVM" /\ UNCHANGED <<req, todo, table, locks, jhiMutex, alive>>
     BY Zenon DEF SarVM
  <1>2. CASE /\ rc' = [rc EXCEPT ![t] = "SUCCESS"] /\ Goto(t, "sDone")
             /\ UNCHANGED <<vm, sid, ret>>
     <2>1. LocalsOK' /\ \A u \in Threads \ {t} : Same(u)
        BY <1>0, <1>1, <1>2, ZenonT(40) DEF Codes, Goto, LocalsOK, req, Same, PC
     <2>2. pc'[t] = "sDone" /\ ret'[t] = ret[t] /\ sid'[t] = sid[t]
        BY <1>0, <1>1, <1>2, Zenon DEF Codes, Goto, LocalsOK
     <2>3. Position(t)'
        BY <1>0, <1>1, <1>2, <2>2, Zenon DEF ThreadInv, Position, Live, Shared, table, info, req
     <2>4. LockHeld(t)'
        BY <2>2, Zenon DEF LockHeld, Inside
     <2>5. EndKnown(t)'
        BY <2>2, Zenon DEF EndKnown
     <2>6. NoSharedYet(t)'
        BY <2>2, Zenon DEF NoSharedYet
     <2>7. StaysUnowned(t)'
        BY <2>2, ZenonT(40) DEF StaysUnowned
     <2>8. ThreadInv(t)'
        BY <2>2, <2>3, <2>4, <2>5, <2>6, <2>7, Zenon DEF ThreadInv
     <2> QED BY <1>0, <1>1, <1>2, <2>1, <2>2, <2>8, QuietStep, Zenon DEF req
  <1>3. CASE /\ rc' = [rc EXCEPT ![t] = "APPLET_FATAL"]
             /\ vm' = [vm EXCEPT ![sid[t]] = IF @ = "open" THEN "misread" ELSE @]
             /\ CallClose(t, sid[t], "sDone")
     <2>0. sid[t] \in Ids
        BY <1>0, <1>1, Zenon DEF ThreadInv, Position
     <2>9. VMOK' /\ GivenUp /\ vm'[sid[t]] # "open"
        BY <1>0, <1>1, <1>3, <2>0, Zenon DEF VMOK, VMStates, GivenUp
     <2>1. LocalsOK' /\ \A u \in Threads \ {t} : Same(u)
        BY <1>0, <1>1, <1>3 DEF CallClose, Codes, Goto, LocalsOK, req, Same, PC
     <2>2. pc'[t] = "cInfo" /\ ret'[t] = "sDone" /\ sid'[t] = sid[t]
        BY <1>0, <1>1, <1>3, Zenon DEF CallClose, Codes, Goto, LocalsOK
     <2>3. Position(t)'
        BY <1>0, <1>1, <1>3, <2>2, Zenon DEF ThreadInv, Position, Live, Shared, table, info, req
     <2>4. LockHeld(t)'
        BY <1>0, <1>1, <1>3, <2>2, Zenon DEF ThreadInv, LockHeld, Inside, Forced, Live, locks, table, req
     <2>5. EndKnown(t)'
        BY <1>0, <1>1, <2>2, <2>9, Zenon DEF ThreadInv, EndKnown, Forced, RemoveFromVM, req
     <2>6. NoSharedYet(t)'
        BY <2>2, Zenon DEF NoSharedYet
     <2>7. StaysUnowned(t)'
        BY <2>2, Zenon DEF StaysUnowned
     <2>8. ThreadInv(t)'
        BY <2>2, <2>3, <2>4, <2>5, <2>6, <2>7, Zenon DEF ThreadInv
     <2>10. MutexHeld'
        BY <1>1, <2>1, <2>2, MutexKept, Zenon DEF req
     <2> QED BY <1>1, <2>1, <2>2, <2>8, <2>9, <2>10, VMEnds, Zenon
  <1> QED BY <1>2, <1>3, Zenon DEF SarVM

\* Inductive step: a freed lock or table node is used.
LEMMA UseFreedStep == ASSUME SessionsInv, NEW t \in Threads, UseFreed(t) PROVE SessionsInv'
  <1>0. LocalsOK /\ VMOK /\ ThreadInv(t)
     BY Types, Zenon DEF SessionsInv
  <1>1. /\ pc[t] \in {"cWait", "sWait", "victim", "cInfo", "cLock"} /\ pc'[t] = "halted"
        /\ UNCHANGED <<req, sid, todo, ret, rc, table, locks, jhiMutex, vm, alive>>
     BY <1>0, Zenon DEF UseFreed, Goto, LocalsOK
  <1>2. LocalsOK' /\ \A u \in Threads \ {t} : Same(u)
     BY <1>0, <1>1, Zenon DEF UseFreed, Goto, LocalsOK, req, Same, PC
  <1>3. Position(t)'
     BY <1>0, <1>1, Zenon DEF ThreadInv, Position, req
  <1>4. LockHeld(t)' /\ EndKnown(t)' /\ NoSharedYet(t)' /\ StaysUnowned(t)'
     BY <1>1, Zenon DEF LockHeld, EndKnown, NoSharedYet, StaysUnowned, Inside
  <1>5. ThreadInv(t)'
     BY <1>1, <1>3, <1>4, Zenon DEF ThreadInv
  <1> QED BY <1>1, <1>2, <1>5, QuietStep, Zenon DEF req
==============================================================================
